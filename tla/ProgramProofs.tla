---------------------------- MODULE ProgramProofs ----------------------------
(***************************************************************************)
(* The program and its operations, for any state file it may find and any  *)
(* number of launches; its updates; the removal of an OpenCode plugin; and *)
(* Pi's CodeGraph integration.                                             *)
(*                                                                         *)
(* Two operations never write configuration at once because an operation   *)
(* holds the interface on the screen it was started from: the flag that    *)
(* Welcome clears is only reached when nothing runs (Shown).  A marker is  *)
(* on disk only while a sync is owed because nobody holds a copy of the    *)
(* state file that says otherwise (CopiesOwed).  A removal is all or       *)
(* nothing because at every step what nobody else touched is as it was     *)
(* found, or as that without the plugin where the journal says so          *)
(* (FilesAsKnown, DirsAsKnown), and what lies aside is what the removal    *)
(* put there (AsideAsKnown).  What the user has in Pi's files is there     *)
(* after every command because it is in the file and would be in it again  *)
(* whatever the manifest, the journal or the snapshot gives back (Differs, *)
(* IsLedger, IsLog, Remembers).  A removal leaves Pi's files as they would *)
(* be, and a failure as they were, because the manifest says of each file  *)
(* how it was and how it was left (Sound), and a journal how it was when   *)
(* the phase began (Undoes).                                               *)
(***************************************************************************)
EXTENDS Application, Upgrades, OpenCodePlugin, PiCodeGraph, FiniteSetTheorems, TLAPS

---------------------------------------------------------------------------
(* The application: the inductive invariant. *)

Steps ==
    {"done", "check", "reread", "record", "sync", "apply", "migrate", "applied", "save",
     "upgrade", "phase", "mark", "marked", "remove", "unlist", "unlisted", "run",
     "overwrite", "unpack"}

Goroutines ==
    [op : Operation \cup {"none"}, pc : Steps, seen : StateFiles, updates : BOOLEAN,
     ok : BOOLEAN, product : BOOLEAN, exit : BOOLEAN, undone : BOOLEAN, clean : BOOLEAN]

Models ==
    [screen : Screen, running : BOOLEAN, piping : BOOLEAN, report : {"none", "product", "tools"},
     synced : BOOLEAN, checked : BOOLEAN, updates : BOOLEAN, done : BOOLEAN, quit : BOOLEAN]

ApplicationTypeOK ==
    /\ file \in StateFiles
    /\ cmds \in [Slots -> Goroutines]
    /\ replaced \in BOOLEAN /\ yanked \in BOOLEAN /\ owed \in BOOLEAN
    /\ m \in Models
    /\ phase \in {"off", "deferred", "tui"}
    /\ held \in InstallState

(* The screen an operation is started from, and stays on.                  *)
Place(op) ==
    CASE op = "sync" -> "Sync"
      [] op = "upgrade" -> "Upgrade"
      [] op = "upgradeSync" -> "UpgradeSync"
      [] op = "uninstall" -> "UninstallConfirm"
      [] op = "install" -> "Installing"

Holds(op) ==
    /\ m.screen = Place(op)
    /\ IF op = "install" THEN m.piping /\ ~m.done ELSE m.running

(* Before the interface there is at most the sync that was left over.      *)
Quiet == phase # "tui" => InFlight(Exclusive) = {}

(* An operation in flight holds the interface, and so there is only one.   *)
Shown ==
    yanked \/
        /\ \A s \in InFlight(Exclusive) : m.quit \/ Holds(cmds[s].op)
        /\ \A s, t \in InFlight(Exclusive) : s = t

(* What a goroutine knows at each of its steps, o being whether a sync is  *)
(* owed.                                                                   *)
Informed(g, o) ==
    /\ g.pc \in {"migrate", "unlisted"} => Readable(g.seen)
    /\ g.pc \in {"record", "save", "marked"} => g.seen # Corrupt
    /\ g.pc \in {"phase", "mark", "marked"} => g.op = "upgradeSync"
    /\ g.pc = "upgrade" => g.op \in Upgrades
    /\ g.pc \in {"mark", "marked"} \/ (g.pc = "phase" /\ g.product) => o

(* No copy of the state file has the marker unless a sync is owed.         *)
Honest(f, o) == Readable(f) /\ f.pending => o

CopiesOwed ==
    /\ Honest(file, owed) /\ Honest(held, owed)
    /\ \A s \in Slots : Informed(cmds[s], owed) /\ Honest(cmds[s].seen, owed)

ApplicationIInv ==
    /\ ApplicationTypeOK
    /\ Quiet
    /\ Shown
    /\ CopiesOwed

---------------------------------------------------------------------------
(* What an operation does at a step. *)

(* A goroutine at a step becomes g, and the state file f.                  *)
Result(s, g, f) ==
    /\ cmds' = [cmds EXCEPT ![s] = g] /\ file' = f
    /\ g.op = cmds[s].op
    /\ Informed(g, owed') /\ Honest(g.seen, owed') /\ Honest(f, owed')

LEMMA StateValues ==
    /\ ZeroState \in InstallState /\ ~ZeroState.pending
    /\ Overwritten \in InstallState /\ ~Overwritten.pending
    /\ Missing \in StateFiles /\ Corrupt \in StateFiles /\ InstallState \subseteq StateFiles
    /\ ~Readable(Missing) /\ ~Readable(Corrupt) /\ Missing # Corrupt
    /\ \A f \in StateFiles : Readable(f) \/ f = Missing \/ f = Corrupt
BY StateFileAssumption DEF ZeroState, Overwritten, InstallState, StateFiles, Readable

LEMMA FreshGoroutine ==
    \A op \in Operation :
        /\ Started(op) \in Goroutines /\ Started(op).op = op
        /\ Started(op).seen = Missing
        /\ Started(op).pc \notin {"migrate", "unlisted", "record", "save", "marked", "phase", "mark"}
        /\ Started(op).pc = "upgrade" => op \in Upgrades
BY StateValues DEF Started, Goroutine, FirstStep, Goroutines, Steps, Operation, Upgrades

LEMMA Finished ==
    \A op \in Operation, ok \in BOOLEAN :
        LET g == [Goroutine(op, "done") EXCEPT !.ok = ok]
        IN  g \in Goroutines /\ g.op = op /\ g.pc = "done" /\ g.seen = Missing
BY StateValues DEF Goroutine, Goroutines, Steps

LEMMA FinishResult ==
    ASSUME ApplicationIInv, NEW s \in Slots, cmds[s].op # "none", NEW ok \in BOOLEAN, Finish(s, ok),
           owed => owed', UNCHANGED file
    PROVE  \E g \in Goroutines, f \in StateFiles : Result(s, g, f)
<1> DEFINE g == [Goroutine(cmds[s].op, "done") EXCEPT !.ok = ok]
<1>1. g \in Goroutines /\ g.op = cmds[s].op /\ g.pc = "done" /\ g.seen = Missing
  BY Finished DEF ApplicationIInv, ApplicationTypeOK, Goroutines
<1>2. Result(s, g, file)
  BY <1>1, StateValues DEF Result, Finish, Become, Informed, Honest, ApplicationIInv, CopiesOwed
<1> QED BY <1>1, <1>2 DEF ApplicationIInv, ApplicationTypeOK

LEMMA ReadResult ==
    ASSUME ApplicationIInv, NEW s \in Slots, cmds[s].op # "none", NEW pc \in Steps, NEW ok \in BOOLEAN,
           ReadOr(s, pc, ok), owed => owed',
           pc \in {"record", "save", "marked", "unlisted"},
           pc = "unlisted" => file # Missing,
           pc = "marked" => cmds[s].op = "upgradeSync" /\ owed
    PROVE  \E g \in Goroutines, f \in StateFiles : Result(s, g, f)
<1>1. CASE file = Corrupt
  BY <1>1, FinishResult DEF ReadOr
<1>2. CASE file # Corrupt
  <2> DEFINE g == [cmds[s] EXCEPT !.pc = pc, !.seen = file]
  <2>1. g \in Goroutines /\ g.op = cmds[s].op /\ g.pc = pc /\ g.seen = file
    BY DEF ApplicationIInv, ApplicationTypeOK, Goroutines
  <2>2. Result(s, g, file)
    BY <1>2, <2>1, StateValues
    DEF Result, ReadOr, Become, Informed, Honest, ApplicationIInv, ApplicationTypeOK, CopiesOwed
  <2> QED BY <2>1, <2>2 DEF ApplicationIInv, ApplicationTypeOK
<1> QED BY <1>1, <1>2

LEMMA WriteResult ==
    ASSUME ApplicationIInv, NEW s \in Slots, NEW pc \in Steps, NEW f \in StateFiles,
           WriteAnd(s, f, pc), owed => owed', Honest(f, owed'),
           pc \in {"done", "applied", "sync"}
    PROVE  \E g \in Goroutines, h \in StateFiles : Result(s, g, h)
<1> DEFINE g == [cmds[s] EXCEPT !.pc = pc, !.seen = Missing]
<1>1. g \in Goroutines /\ g.op = cmds[s].op /\ g.pc = pc /\ g.seen = Missing
  BY StateValues DEF ApplicationIInv, ApplicationTypeOK, Goroutines
<1>2. Result(s, g, f)
  BY <1>1, StateValues DEF Result, WriteAnd, Write, Become, Informed, Honest
<1> QED BY <1>1, <1>2

LEMMA GotoResult ==
    ASSUME ApplicationIInv, NEW s \in Slots, NEW pc \in Steps, Goto(s, pc), UNCHANGED file,
           owed => owed',
           pc \in {"done", "applied", "sync", "unlist", "overwrite"}
             \/ (pc = "migrate" /\ Readable(cmds[s].seen))
    PROVE  \E g \in Goroutines, h \in StateFiles : Result(s, g, h)
<1> DEFINE g == [cmds[s] EXCEPT !.pc = pc]
<1>1. g \in Goroutines /\ g.op = cmds[s].op /\ g.pc = pc /\ g.seen = cmds[s].seen
  BY DEF ApplicationIInv, ApplicationTypeOK, Goroutines
<1>2. Result(s, g, file)
  BY <1>1, StateValues
  DEF Result, Goto, Become, Informed, Honest, ApplicationIInv, CopiesOwed
<1> QED BY <1>1, <1>2 DEF ApplicationIInv, ApplicationTypeOK

LEMMA HeldState ==
    \A f \in StateFiles, o \in BOOLEAN :
        f # Corrupt /\ Honest(f, o) => Held(f) \in InstallState /\ Honest(Held(f), o)
BY StateValues DEF Held, Honest, Readable, StateFiles

(* An operation's step takes its goroutine on and may write the file.      *)
LEMMA WorkResult ==
    ASSUME ApplicationIInv, NEW s \in Slots, Operate(s)
    PROVE  \E g \in Goroutines, f \in StateFiles : Result(s, g, f)
<1>0. /\ file \in StateFiles /\ cmds[s] \in Goroutines /\ cmds[s].seen \in StateFiles /\ owed \in BOOLEAN
      /\ (owed => owed') /\ owed' \in BOOLEAN
      /\ Honest(file, owed) /\ Honest(cmds[s].seen, owed) /\ Informed(cmds[s], owed)
  BY DEF ApplicationIInv, ApplicationTypeOK, CopiesOwed, Goroutines, Operate
<1>h. ASSUME cmds[s].seen # Corrupt
      PROVE  Held(cmds[s].seen) \in InstallState /\ Honest(Held(cmds[s].seen), owed)
  BY <1>h, <1>0, HeldState
<1> USE DEF At
<1>1. ASSUME CheckRemote(s) PROVE \E g \in Goroutines, f \in StateFiles : Result(s, g, f)
  <2>1. CASE Goto(s, "done")
    BY <1>0, <1>1, <2>1, GotoResult DEF CheckRemote, Steps
  <2>2. ASSUME NEW succeeded \in BOOLEAN, NEW updates \in BOOLEAN,
               Become(s, [cmds[s] EXCEPT !.pc = IF succeeded THEN "reread" ELSE "done",
                                         !.updates = updates])
        PROVE  \E g \in Goroutines, f \in StateFiles : Result(s, g, f)
    <3> DEFINE h == [cmds[s] EXCEPT !.pc = IF succeeded THEN "reread" ELSE "done",
                                    !.updates = updates]
    <3>1. h \in Goroutines /\ h.op = cmds[s].op /\ h.pc \in {"reread", "done"} /\ h.seen = cmds[s].seen
      BY <1>0 DEF Goroutines, Steps
    <3>2. Result(s, h, file)
      BY <1>0, <1>1, <2>2, <3>1 DEF Result, Become, CheckRemote, Informed, Honest
    <3> QED BY <1>0, <3>1, <3>2
  <2> QED BY <1>1, <2>1, <2>2 DEF CheckRemote
<1>2. ASSUME CheckReread(s) PROVE \E g \in Goroutines, f \in StateFiles : Result(s, g, f)
  BY <1>0, <1>2, ReadResult DEF CheckReread, Steps
<1>3. ASSUME CheckRecord(s) PROVE \E g \in Goroutines, f \in StateFiles : Result(s, g, f)
  <2> DEFINE h == [Held(cmds[s].seen) EXCEPT !.recent = TRUE]
  <2>1. h \in StateFiles /\ Honest(h, owed')
    BY <1>0, <1>3, <1>h DEF CheckRecord, Informed, InstallState, StateFiles, Honest, Readable
  <2> QED BY <1>0, <1>3, <2>1, WriteResult DEF CheckRecord, Steps
<1>4. ASSUME SyncBegin(s) PROVE \E g \in Goroutines, f \in StateFiles : Result(s, g, f)
  <2> DEFINE h == [cmds[s] EXCEPT !.pc = "apply", !.seen = file]
  <2>1. h \in Goroutines /\ h.op = cmds[s].op /\ h.pc = "apply" /\ h.seen = file
    BY <1>0 DEF Goroutines, Steps
  <2>2. Result(s, h, file)
    BY <1>0, <1>4, <2>1 DEF Result, Become, SyncBegin, Informed, Honest
  <2> QED BY <1>0, <2>1, <2>2
<1>5. ASSUME SyncApply(s) PROVE \E g \in Goroutines, f \in StateFiles : Result(s, g, f)
  <2>1. CASE Finish(s, FALSE)
    BY <1>0, <1>5, <2>1, FinishResult DEF SyncApply
  <2>2. CASE Goto(s, "applied")
    BY <1>0, <1>5, <2>2, GotoResult DEF SyncApply, Steps
  <2>3. CASE Readable(cmds[s].seen) /\ ~cmds[s].seen.tools /\ Goto(s, "migrate")
    BY <1>0, <1>5, <2>3, GotoResult DEF SyncApply, Steps
  <2> QED BY <1>5, <2>1, <2>2, <2>3 DEF SyncApply
<1>6. ASSUME SyncMigrate(s) PROVE \E g \in Goroutines, f \in StateFiles : Result(s, g, f)
  <2> DEFINE h == [cmds[s].seen EXCEPT !.tools = TRUE]
  <2>1. h \in StateFiles /\ Honest(h, owed')
    BY <1>0, <1>6 DEF SyncMigrate, Informed, InstallState, StateFiles, Honest, Readable
  <2> QED BY <1>0, <1>6, <2>1, WriteResult DEF SyncMigrate, Steps
<1>7. ASSUME SyncPersist(s) PROVE \E g \in Goroutines, f \in StateFiles : Result(s, g, f)
  <2>1. CASE Finish(s, TRUE) /\ UNCHANGED file
    BY <1>0, <1>7, <2>1, FinishResult DEF SyncPersist
  <2>2. CASE ReadOr(s, "save", TRUE)
    BY <1>0, <1>7, <2>2, ReadResult DEF SyncPersist, Steps
  <2> QED BY <1>7, <2>1, <2>2 DEF SyncPersist
<1>8. ASSUME SyncSave(s) PROVE \E g \in Goroutines, f \in StateFiles : Result(s, g, f)
  <2>1. Held(cmds[s].seen) \in StateFiles /\ Honest(Held(cmds[s].seen), owed')
    BY <1>0, <1>8, <1>h DEF SyncSave, Informed, StateFiles, Honest
  <2> QED BY <1>0, <1>8, <2>1, WriteResult DEF SyncSave, Steps
<1>9. ASSUME Upgrade(s) PROVE \E g \in Goroutines, f \in StateFiles : Result(s, g, f)
  <2>1. PICK product \in BOOLEAN, exit \in BOOLEAN :
           Become(s, [cmds[s] EXCEPT !.pc = IF cmds[s].op = "upgrade" THEN "done" ELSE "phase",
                                     !.product = product, !.exit = exit])
    BY <1>9, OperationsAssumption DEF Upgrade
  <2> DEFINE h == [cmds[s] EXCEPT !.pc = IF cmds[s].op = "upgrade" THEN "done" ELSE "phase",
                                  !.product = product, !.exit = exit]
  <2>2. /\ h \in Goroutines /\ h.op = cmds[s].op /\ h.product = product /\ h.seen = cmds[s].seen
        /\ h.pc = IF cmds[s].op = "upgrade" THEN "done" ELSE "phase"
    BY <1>0 DEF Goroutines, Steps
  <2>3. cmds' = [cmds EXCEPT ![s] = h] /\ cmds'[s] = h /\ file' = file
    BY <1>9, <2>1 DEF Become, Upgrade, ApplicationIInv, ApplicationTypeOK
  <2>4. cmds[s].op \in Upgrades
    BY <1>0, <1>9 DEF Upgrade, Informed
  <2> HIDE DEF h
  <2>a. h.pc = "phase" => h.op = "upgradeSync"
    BY <2>2, <2>4 DEF Upgrades
  <2>b. h.op = "upgradeSync" /\ h.product => owed'
    BY <2>2, <2>3 DEF Operate
  <2>5. h.pc = "phase" => h.op = "upgradeSync" /\ (h.product => owed')
    BY <2>a, <2>b
  <2>6. Result(s, h, file)
    BY <1>0, <2>2, <2>3, <2>5 DEF Result, Informed, Honest
  <2> QED BY <1>0, <2>2, <2>6
<1>10. ASSUME MarkRead(s) PROVE \E g \in Goroutines, f \in StateFiles : Result(s, g, f)
  <2>1. cmds[s].op = "upgradeSync" /\ owed
    BY <1>0, <1>10 DEF MarkRead, Informed
  <2> QED BY <1>0, <1>10, <2>1, ReadResult DEF MarkRead, Steps
<1>11. ASSUME MarkWrite(s) PROVE \E g \in Goroutines, f \in StateFiles : Result(s, g, f)
  <2> DEFINE h == [Held(cmds[s].seen) EXCEPT !.pending = TRUE]
  <2>1. h \in StateFiles /\ Honest(h, owed')
    BY <1>0, <1>11, <1>h DEF MarkWrite, Informed, InstallState, StateFiles, Honest
  <2> QED BY <1>0, <1>11, <2>1, WriteResult DEF MarkWrite, Steps
<1>12. ASSUME UninstallRemove(s) PROVE \E g \in Goroutines, f \in StateFiles : Result(s, g, f)
  <2>1. CASE Finish(s, FALSE)
    BY <1>0, <1>12, <2>1, FinishResult DEF UninstallRemove
  <2>2. CASE Goto(s, "unlist")
    BY <1>0, <1>12, <2>2, GotoResult DEF UninstallRemove, Steps
  <2> QED BY <1>12, <2>1, <2>2 DEF UninstallRemove
<1>13. ASSUME UninstallRead(s) PROVE \E g \in Goroutines, f \in StateFiles : Result(s, g, f)
  <2>1. CASE Goto(s, Uninstalled(s)) /\ UNCHANGED file
    BY <1>0, <2>1, GotoResult DEF Uninstalled, Steps
  <2>2. CASE file # Missing /\ ReadOr(s, "unlisted", FALSE)
    BY <1>0, <1>13, <2>2, ReadResult DEF UninstallRead, Steps
  <2> QED BY <1>13, <2>1, <2>2 DEF UninstallRead
<1>14. ASSUME UninstallWrite(s) PROVE \E g \in Goroutines, f \in StateFiles : Result(s, g, f)
  <2>1. Honest(cmds[s].seen, owed')
    BY <1>0 DEF Honest
  <2> QED BY <1>0, <1>14, <2>1, WriteResult DEF UninstallWrite, Uninstalled, Steps
<1>15. ASSUME InstallRun(s) PROVE \E g \in Goroutines, f \in StateFiles : Result(s, g, f)
  <2>1. CASE Goto(s, "overwrite")
    BY <1>0, <1>15, <2>1, GotoResult DEF InstallRun, Steps
  <2>2. ASSUME NEW undone \in BOOLEAN,
               Become(s, [cmds[s] EXCEPT !.pc = "done", !.ok = FALSE, !.undone = undone])
        PROVE  \E g \in Goroutines, f \in StateFiles : Result(s, g, f)
    <3> DEFINE h == [cmds[s] EXCEPT !.pc = "done", !.ok = FALSE, !.undone = undone]
    <3>1. h \in Goroutines /\ h.op = cmds[s].op /\ h.pc = "done" /\ h.seen = cmds[s].seen
      BY <1>0 DEF Goroutines, Steps
    <3>2. Result(s, h, file)
      BY <1>0, <1>15, <2>2, <3>1 DEF Result, Become, InstallRun, Informed, Honest
    <3> QED BY <1>0, <3>1, <3>2
  <2> QED BY <1>15, <2>1, <2>2 DEF InstallRun
<1>16. ASSUME InstallWrite(s) PROVE \E g \in Goroutines, f \in StateFiles : Result(s, g, f)
  <2>1. Overwritten \in StateFiles /\ Honest(Overwritten, owed')
    BY StateValues DEF Honest
  <2> QED BY <1>0, <1>16, <2>1, WriteResult DEF InstallWrite, Steps
<1>17. ASSUME RestoreRun(s) PROVE \E g \in Goroutines, f \in StateFiles : Result(s, g, f)
  BY <1>0, <1>17, FinishResult DEF RestoreRun
<1> QED
  BY <1>1, <1>2, <1>3, <1>4, <1>5, <1>6, <1>7, <1>8, <1>9, <1>10, <1>11, <1>12, <1>13, <1>14,
     <1>15, <1>16, <1>17 DEF Operate, Work

---------------------------------------------------------------------------
(* What the steps of the application keep. *)

LEMMA FlightSlots ==
    /\ InFlight(Exclusive) = {t \in Slots : cmds[t].op \in Exclusive}
    /\ InFlight(Exclusive)' = {t \in Slots : cmds'[t].op \in Exclusive}
BY DEF InFlight, Busy, Exclusive

LEMMA WorkKeeps ==
    ASSUME ApplicationIInv, NEW s \in Slots, Operate(s)
    PROVE  ApplicationIInv'
<1>1. PICK g \in Goroutines, f \in StateFiles : Result(s, g, f)
  BY WorkResult
<1>2. /\ (owed => owed') /\ owed' \in BOOLEAN
      /\ UNCHANGED <<m, yanked, phase, held>>
  BY DEF Operate, ApplicationIInv, ApplicationTypeOK
<1>3. replaced' \in BOOLEAN
  BY DEF Operate, ApplicationIInv, ApplicationTypeOK, Work, CheckRemote, CheckReread, CheckRecord,
         SyncBegin, SyncApply, SyncMigrate, SyncPersist, SyncSave, Upgrade, MarkRead, MarkWrite,
         UninstallRemove, UninstallRead, UninstallWrite, InstallRun, InstallWrite, RestoreRun,
         ReadOr, WriteAnd
<1>4. ApplicationTypeOK'
  BY <1>1, <1>2, <1>3 DEF ApplicationIInv, ApplicationTypeOK, Result
<1>5. /\ \A t \in Slots : cmds'[t].op = cmds[t].op
      /\ \A t \in Slots : cmds'[t] = IF t = s THEN g ELSE cmds[t]
  BY <1>1 DEF Result, ApplicationIInv, ApplicationTypeOK
<1>6. InFlight(Exclusive)' = InFlight(Exclusive)
  BY <1>5, FlightSlots
<1>7. Quiet'
  BY <1>2, <1>6 DEF ApplicationIInv, Quiet
<1>8. Shown'
  <2>1. \A t \in InFlight(Exclusive) : t \in Slots
    BY FlightSlots
  <2>2. ASSUME NEW t \in InFlight(Exclusive), m.quit \/ Holds(cmds[t].op)
        PROVE  (m.quit \/ Holds(cmds[t].op))'
    BY <1>2, <1>5, <2>1, <2>2 DEF Holds, Place
  <2> QED BY <1>2, <1>6, <2>2 DEF ApplicationIInv, Shown
<1>9. CopiesOwed'
  <2>1. Honest(file, owed)' /\ Honest(held, owed)'
    BY <1>1, <1>2 DEF ApplicationIInv, CopiesOwed, Result, Honest
  <2>2. ASSUME NEW t \in Slots PROVE Informed(cmds'[t], owed') /\ Honest(cmds'[t].seen, owed')
    BY <1>1, <1>2, <1>5 DEF ApplicationIInv, CopiesOwed, Result, Honest, Informed
  <2> QED BY <2>1, <2>2 DEF CopiesOwed
<1> QED BY <1>4, <1>7, <1>8, <1>9 DEF ApplicationIInv

(* A goroutine that has just begun, or none.                               *)
Begins(g) ==
    /\ g \in Goroutines
    /\ \A o \in BOOLEAN : Informed(g, o) /\ Honest(g.seen, o)

LEMMA Beginnings ==
    /\ Begins(NoCommand) /\ NoCommand.op = "none"
    /\ \A op \in Operation : Begins(Started(op)) /\ Started(op).op = op
    /\ \A op \in Operation, b \in BOOLEAN :
           /\ Begins([Started(op) EXCEPT !.clean = b]) /\ [Started(op) EXCEPT !.clean = b].op = op
           /\ Begins([Started(op) EXCEPT !.updates = b]) /\ [Started(op) EXCEPT !.updates = b].op = op
<1>1. Begins(NoCommand) /\ NoCommand.op = "none"
  BY StateValues DEF Begins, NoCommand, Goroutine, Goroutines, Steps, Informed, Honest
<1>2. ASSUME NEW op \in Operation, NEW b \in BOOLEAN
      PROVE  /\ Begins(Started(op)) /\ Started(op).op = op
             /\ Begins([Started(op) EXCEPT !.clean = b]) /\ [Started(op) EXCEPT !.clean = b].op = op
             /\ Begins([Started(op) EXCEPT !.updates = b]) /\ [Started(op) EXCEPT !.updates = b].op = op
  <2> DEFINE g == Started(op)
             h == [g EXCEPT !.clean = b]
             k == [g EXCEPT !.updates = b]
  <2>1. /\ g \in Goroutines /\ g.op = op /\ g.seen = Missing
        /\ g.pc \notin {"migrate", "unlisted", "record", "save", "marked", "phase", "mark"}
        /\ g.pc = "upgrade" => op \in Upgrades
    BY FreshGoroutine
  <2> HIDE DEF g
  <2>2. h \in Goroutines /\ h.op = op /\ h.seen = Missing /\ h.pc = g.pc
    BY <2>1 DEF Goroutines
  <2>3. k \in Goroutines /\ k.op = op /\ k.seen = Missing /\ k.pc = g.pc
    BY <2>1 DEF Goroutines
  <2> HIDE DEF h, k
  <2>4. Begins(g) /\ Begins(h) /\ Begins(k)
    BY <2>1, <2>2, <2>3, StateValues DEF Begins, Informed, Honest
  <2> QED BY <2>1, <2>2, <2>3, <2>4 DEF g, h, k
<1> QED BY <1>1, <1>2

LEMMA Spawned ==
    ASSUME NEW cs \in [Slots -> Goroutines], NEW g \in Goroutines, g.op \in Operation
    PROVE  /\ Home(g.op, cs) \in Slots
           /\ Spawn(cs, g) \in [Slots -> Goroutines]
           /\ \A t \in Slots : Spawn(cs, g)[t] = IF t = Home(g.op, cs) THEN g ELSE cs[t]
BY DEF Home, Spawn, Slots, Operation

(* Nothing but what a launch begins with.                                  *)
LEMMA Alone ==
    ASSUME NEW op \in {"check", "deferred"}, NEW cs, cs = Idle \/ cs = Spawn(Idle, Started(op))
    PROVE  /\ cs \in [Slots -> Goroutines]
           /\ \A t \in Slots : Begins(cs[t]) /\ cs[t].op \notin Exclusive
<1>1. /\ Begins(NoCommand) /\ NoCommand.op = "none"
      /\ Begins(Started(op)) /\ Started(op).op = op /\ op \in Operation
  BY Beginnings DEF Operation
<1>2. Idle \in [Slots -> Goroutines] /\ \A t \in Slots : Idle[t] = NoCommand
  BY <1>1 DEF Idle, Begins
<1>3. CASE cs = Idle
  BY <1>1, <1>2, <1>3 DEF Exclusive
<1>4. CASE cs = Spawn(Idle, Started(op))
  <2>1. /\ cs \in [Slots -> Goroutines]
        /\ \A t \in Slots : cs[t] = Started(op) \/ cs[t] = NoCommand
    BY <1>1, <1>2, <1>4, Spawned DEF Begins
  <2> QED BY <1>1, <2>1 DEF Exclusive
<1> QED BY <1>3, <1>4

(* A process begins or ends: no operation runs that was begun before.      *)
LEMMA LaunchKeeps ==
    ASSUME ApplicationIInv, Launch \/ FinishDeferred \/ Exit
    PROVE  ApplicationIInv'
<1>1. /\ cmds' \in [Slots -> Goroutines]
      /\ \A t \in Slots : Begins(cmds'[t]) /\ cmds'[t].op \notin Exclusive
  BY Alone DEF Launch, FinishDeferred, Exit
<1>2. InFlight(Exclusive)' = {}
  BY <1>1, FlightSlots
<1>3. /\ file' \in StateFiles /\ held' \in InstallState /\ owed' \in BOOLEAN
      /\ Honest(file', owed') /\ Honest(held', owed')
  <2>1. CASE Launch
    BY <2>1, StateValues DEF Launch, ApplicationIInv, ApplicationTypeOK, CopiesOwed, Honest, Readable
  <2>2. CASE FinishDeferred
    <3>1. /\ [held EXCEPT !.pending = FALSE] \in InstallState
          /\ ~[held EXCEPT !.pending = FALSE].pending
      BY DEF ApplicationIInv, ApplicationTypeOK, InstallState
    <3> QED BY <2>2, <3>1, StateValues
            DEF FinishDeferred, Write, ApplicationIInv, ApplicationTypeOK, CopiesOwed, Honest
  <2>3. CASE Exit
    BY <2>3 DEF Exit, ApplicationIInv, ApplicationTypeOK, CopiesOwed
  <2> QED BY <2>1, <2>2, <2>3
<1>4. /\ m' \in Models /\ replaced' \in BOOLEAN /\ yanked' \in BOOLEAN
      /\ phase' \in {"off", "deferred", "tui"}
  <2>1. InitialModel \in Models
    BY DEF InitialModel, Models, Screen
  <2> QED BY <2>1 DEF Launch, FinishDeferred, Exit, ApplicationIInv, ApplicationTypeOK
<1> QED
  BY <1>1, <1>2, <1>3, <1>4 DEF ApplicationIInv, ApplicationTypeOK, Quiet, Shown, CopiesOwed, Begins

LEMMA TimeKeeps ==
    ASSUME ApplicationIInv, TimePasses
    PROVE  ApplicationIInv'
<1>1. file' \in StateFiles /\ Honest(file', owed)
  BY StateValues
  DEF TimePasses, Write, Readable, InstallState, ApplicationIInv, ApplicationTypeOK, CopiesOwed, Honest
<1>2. InFlight(Exclusive)' = InFlight(Exclusive)
  BY FlightSlots DEF TimePasses
<1>3. ASSUME NEW op PROVE Holds(op)' = Holds(op)
  BY DEF TimePasses, Holds
<1> QED
  BY <1>1, <1>2, <1>3
  DEF TimePasses, ApplicationIInv, ApplicationTypeOK, Quiet, Shown, CopiesOwed

---------------------------------------------------------------------------
(* Keys. *)

(* A key quits, or is one of a screen that no operation holds; then it may *)
(* start an operation, on the screen that holds it.                        *)
Begun(g) ==
    /\ cmds' = Spawn(cmds, g)
    /\ Begins(g) /\ g.op \in Operation
    /\ g.op \in Exclusive => Holds(g.op)'

LEMMA NothingHeld ==
    ASSUME ApplicationIInv, ~yanked, ~m.quit,
           \A op \in Exclusive : ~Holds(op)
    PROVE  InFlight(Exclusive) = {}
BY FlightSlots DEF ApplicationIInv, Shown

LEMMA ModelUpdates ==
    ASSUME NEW n \in Models
    PROVE  /\ \A screen \in Screen : On(n, screen) \in Models
           /\ OperationReset(n) \in Models /\ UninstallReset(n) \in Models
           /\ Gone \in Models /\ Gone.quit
           /\ [n EXCEPT !.running = TRUE] \in Models
           /\ [n EXCEPT !.running = FALSE] \in Models
BY DEF Models, On, OperationReset, UninstallReset, Gone, InitialModel, Screen

LEMMA KeyKind ==
    ASSUME ApplicationIInv, Key
    PROVE  /\ m' \in Models /\ UNCHANGED <<file, replaced, yanked>>
           /\ \/ m'.quit /\ cmds' = cmds
              \/ /\ yanked \/ InFlight(Exclusive) = {}
                 /\ cmds' = cmds \/ \E g \in Goroutines : Begun(g)
<1> DEFINE Kept == UNCHANGED <<file, replaced, yanked>>
           Open == yanked \/ InFlight(Exclusive) = {}
           Goal == /\ m' \in Models /\ Kept
                   /\ \/ m'.quit /\ cmds' = cmds
                      \/ Open /\ (cmds' = cmds \/ \E g \in Goroutines : Begun(g))
<1>0. m \in Models
  BY DEF ApplicationIInv, ApplicationTypeOK
<1>f. ASSUME ~m.quit, m.screen \notin {Place(op) : op \in Exclusive \ {"install"}} \/ ~m.running,
             m.screen # "Installing" \/ ~m.piping \/ m.done
      PROVE  Open
  <2>1. ASSUME NEW op \in Exclusive PROVE ~Holds(op)
    BY <1>f, <2>1 DEF Holds, Place, Exclusive
  <2> QED BY <1>f, <2>1, NothingHeld
<1>p. {Place(op) : op \in Exclusive \ {"install"}} = {"Sync", "Upgrade", "UpgradeSync", "UninstallConfirm"}
  <2>1. Exclusive \ {"install"} = {"sync", "upgrade", "upgradeSync", "uninstall"}
    BY DEF Exclusive
  <2>2. /\ Place("sync") = "Sync" /\ Place("upgrade") = "Upgrade"
        /\ Place("upgradeSync") = "UpgradeSync" /\ Place("uninstall") = "UninstallConfirm"
    BY DEF Place
  <2> QED BY <2>1, <2>2
<1>q. ASSUME Quit, KeepRest PROVE Goal
  BY <1>0, <1>q, ModelUpdates DEF Quit, KeepRest
<1>k. ASSUME Open, m' \in Models, KeepRest PROVE Goal
  BY <1>k DEF KeepRest
<1>s. ASSUME Open, NEW g, Begins(g), g.op \in Operation, NEW n \in Models, Start(g, n),
             g.op \in Exclusive => Holds(g.op)'
      PROVE  Goal
  BY <1>s DEF Start, Begun, Begins
<1> HIDE DEF Goal, Open
<1>1. ASSUME Select PROVE Goal
  <2>1. ~m.quit /\ m.screen \in {"Welcome", "UpdatePrompt", "Selection", "Uninstall", "Backups",
                                  "RestoreConfirm", "RestoreResult"}
    BY <1>1 DEF Select, Choices
  <2>2. m' \in Models /\ KeepRest
    BY <1>0, <1>1, <2>1, ModelUpdates DEF Select, Choices, Show, Screen
  <2> QED BY <1>f, <1>p, <1>k, <2>1, <2>2
<1>2. ASSUME OpenOperation PROVE Goal
  <2>1. m' \in Models /\ KeepRest
    BY <1>0, <1>2, ModelUpdates DEF OpenOperation, Screen
  <2> QED BY <1>2, <1>f, <1>p, <1>k, <2>1 DEF OpenOperation
<1>3. ASSUME ConfirmUninstall PROVE Goal
  <2>1. Open
    BY <1>3, <1>f DEF ConfirmUninstall
  <2>2. CASE Show("Uninstall") /\ KeepRest
    BY <1>0, <2>1, <2>2, <1>k, ModelUpdates DEF Show, Screen
  <2>3. ASSUME NEW clean \in BOOLEAN,
               Start([Started("uninstall") EXCEPT !.clean = clean], [m EXCEPT !.running = TRUE])
        PROVE  Goal
    <3> DEFINE g == [Started("uninstall") EXCEPT !.clean = clean]
    <3>1. Begins(g) /\ g.op = "uninstall" /\ g.op \in Operation
      BY Beginnings DEF Operation
    <3>2. Holds("uninstall")'
      BY <1>0, <1>3, <2>3 DEF ConfirmUninstall, Start, Holds, Place, Models
    <3> HIDE DEF g
    <3>3. Start(g, [m EXCEPT !.running = TRUE])
      BY <2>3 DEF g
    <3> QED BY <1>0, <2>1, <3>1, <3>2, <3>3, <1>s, ModelUpdates
  <2> QED BY <1>3, <2>2, <2>3 DEF ConfirmUninstall
<1>4. ASSUME LeaveUninstallResult PROVE Goal
  <2>1. m' \in Models /\ KeepRest
    BY <1>0, <1>4, ModelUpdates DEF LeaveUninstallResult, Screen
  <2> QED BY <1>4, <1>f, <1>p, <1>k, <2>1 DEF LeaveUninstallResult
<1>5. ASSUME ConfirmUpgrade PROVE Goal
  <2>1. Open
    BY <1>5, <1>f DEF ConfirmUpgrade
  <2>2. CASE Quit /\ KeepRest
    BY <2>2, <1>q
  <2>3. CASE m' = On(OperationReset(m), "Welcome") /\ KeepRest
    BY <1>0, <2>1, <2>3, <1>k, ModelUpdates DEF Screen
  <2>4. CASE Show("Welcome") /\ KeepRest
    BY <1>0, <2>1, <2>4, <1>k, ModelUpdates DEF Show, Screen
  <2>5. ASSUME Start([Started("upgrade") EXCEPT !.updates = TRUE], [m EXCEPT !.running = TRUE])
        PROVE  Goal
    <3> DEFINE g == [Started("upgrade") EXCEPT !.updates = TRUE]
    <3>1. Begins(g) /\ g.op = "upgrade" /\ g.op \in Operation
      BY Beginnings DEF Operation
    <3>2. Holds("upgrade")'
      BY <1>0, <1>5, <2>5 DEF ConfirmUpgrade, Start, Holds, Place, Models
    <3> HIDE DEF g
    <3>3. Start(g, [m EXCEPT !.running = TRUE])
      BY <2>5 DEF g
    <3> QED BY <1>0, <2>1, <3>1, <3>2, <3>3, <1>s, ModelUpdates
  <2> QED BY <1>5, <2>2, <2>3, <2>4, <2>5 DEF ConfirmUpgrade
<1>6. ASSUME ConfirmPrompt PROVE Goal
  <2>1. Open
    BY <1>6, <1>f DEF ConfirmPrompt
  <2> DEFINE g == [Started("upgrade") EXCEPT !.updates = m.updates]
             n == [m EXCEPT !.running = TRUE, !.screen = "Upgrade"]
  <2>2. Begins(g) /\ g.op = "upgrade" /\ g.op \in Operation
    <3>1. m.updates \in BOOLEAN
      BY <1>0 DEF Models
    <3> QED BY <3>1, Beginnings DEF Operation
  <2>3. n \in Models /\ n.screen = "Upgrade" /\ n.running
    BY <1>0 DEF Models, Screen
  <2>4. Start(g, n)
    BY <1>6 DEF ConfirmPrompt
  <2> HIDE DEF g, n
  <2>5. Holds("upgrade")'
    BY <2>3, <2>4 DEF Start, Holds, Place
  <2> QED BY <2>1, <2>2, <2>3, <2>4, <2>5, <1>s
<1>7. ASSUME ConfirmSync PROVE Goal
  <2>1. Open
    BY <1>7, <1>f DEF ConfirmSync
  <2>2. CASE m' = On(OperationReset(m), "Welcome") /\ KeepRest
    BY <1>0, <2>1, <2>2, <1>k, ModelUpdates DEF Screen
  <2>3. ASSUME Start(Started("sync"), [m EXCEPT !.running = TRUE]) PROVE Goal
    <3>1. Begins(Started("sync")) /\ Started("sync").op = "sync" /\ "sync" \in Operation
      BY Beginnings DEF Operation
    <3>2. Holds("sync")'
      BY <1>0, <1>7, <2>3 DEF ConfirmSync, Start, Holds, Place, Models
    <3> QED BY <1>0, <2>1, <2>3, <3>1, <3>2, <1>s, ModelUpdates
  <2> QED BY <1>7, <2>2, <2>3 DEF ConfirmSync
<1>8. ASSUME ConfirmUpgradeSync PROVE Goal
  <2>1. Open
    BY <1>8, <1>f DEF ConfirmUpgradeSync
  <2>2. CASE Quit /\ KeepRest
    BY <2>2, <1>q
  <2>3. CASE m' = On(OperationReset(m), "Welcome") /\ KeepRest
    BY <1>0, <2>1, <2>3, <1>k, ModelUpdates DEF Screen
  <2>4. ASSUME Start([Started("upgradeSync") EXCEPT !.updates = m.checked /\ m.updates],
                     [m EXCEPT !.running = TRUE])
        PROVE  Goal
    <3> DEFINE g == [Started("upgradeSync") EXCEPT !.updates = m.checked /\ m.updates]
    <3>1. Begins(g) /\ g.op = "upgradeSync" /\ g.op \in Operation
      <4>1. (m.checked /\ m.updates) \in BOOLEAN
        OBVIOUS
      <4> QED BY <4>1, Beginnings DEF Operation
    <3>2. Holds("upgradeSync")'
      BY <1>0, <1>8, <2>4 DEF ConfirmUpgradeSync, Start, Holds, Place, Models
    <3> HIDE DEF g
    <3>3. Start(g, [m EXCEPT !.running = TRUE])
      BY <2>4 DEF g
    <3> QED BY <1>0, <2>1, <3>1, <3>2, <3>3, <1>s, ModelUpdates
  <2> QED BY <1>8, <2>2, <2>3, <2>4 DEF ConfirmUpgradeSync
<1>9. ASSUME StartInstalling PROVE Goal
  <2>1. Open
    BY <1>9, <1>f, <1>p DEF StartInstalling
  <2> DEFINE n == [m EXCEPT !.screen = "Installing", !.piping = TRUE, !.done = FALSE]
  <2>2. Begins(Started("install")) /\ Started("install").op = "install" /\ "install" \in Operation
    BY Beginnings DEF Operation
  <2>3. n \in Models /\ n.screen = "Installing" /\ n.piping /\ ~n.done
    BY <1>0 DEF Models, Screen
  <2>4. Start(Started("install"), n)
    BY <1>9 DEF StartInstalling
  <2> HIDE DEF n
  <2>5. Holds("install")'
    BY <2>3, <2>4 DEF Start, Holds, Place
  <2> QED BY <2>1, <2>2, <2>3, <2>4, <2>5, <1>s
<1>10. ASSUME LeaveInstalling PROVE Goal
  <2>1. CASE m.screen = "Installing" /\ m.done /\ Show("Complete")
    <3>1. m' \in Models
      BY <1>0, <2>1, ModelUpdates DEF Show, Screen
    <3> QED BY <1>10, <1>f, <1>p, <1>k, <2>1, <3>1 DEF LeaveInstalling
  <2>2. CASE Quit
    BY <1>10, <2>2, <1>q DEF LeaveInstalling
  <2> QED BY <1>10, <2>1, <2>2 DEF LeaveInstalling
<1>11. ASSUME ConfirmRestore PROVE Goal
  <2>1. Open
    BY <1>11, <1>f, <1>p DEF ConfirmRestore
  <2>2. Begins(Started("restore")) /\ Started("restore").op = "restore" /\ "restore" \in Operation
    BY Beginnings DEF Operation
  <2>3. "restore" \notin Exclusive
    BY DEF Exclusive
  <2> QED BY <1>0, <1>11, <2>1, <2>2, <2>3, <1>s DEF ConfirmRestore
<1>12. ASSUME Escape PROVE Goal
  <2>1. CASE Quit
    BY <1>12, <2>1, <1>q DEF Escape
  <2>2. CASE ~m.running /\ m.screen # "Welcome" /\ Show(Previous(m.screen))
    <3>1. Open
      BY <1>12, <2>2, <1>f DEF Escape
    <3>2. Previous(m.screen) \in Screen
      BY <1>0, <1>12, <2>2 DEF Escape, Previous, Screen, Models
    <3> QED BY <1>0, <1>12, <1>k, <2>2, <3>1, <3>2, ModelUpdates DEF Escape, Show
  <2> QED BY <1>12, <2>1, <2>2 DEF Escape
<1>13. ASSUME QuitKey PROVE Goal
  BY <1>13, <1>q DEF QuitKey
<1>14. Goal
  BY <1>1, <1>2, <1>3, <1>4, <1>5, <1>6, <1>7, <1>8, <1>9, <1>10, <1>11, <1>12, <1>13 DEF Key
<1> QED BY <1>14 DEF Goal, Open

LEMMA KeyKeeps ==
    ASSUME ApplicationIInv, Interact
    PROVE  ApplicationIInv'
<1>0. /\ phase = "tui" /\ Key /\ UNCHANGED <<phase, held, owed>>
      /\ m' \in Models /\ UNCHANGED <<file, replaced, yanked>>
  BY KeyKind DEF Interact
<1>1. CASE cmds' = cmds /\ (m'.quit \/ yanked \/ InFlight(Exclusive) = {})
  <2>1. InFlight(Exclusive)' = InFlight(Exclusive)
    BY <1>1, FlightSlots
  <2>2. Shown'
    BY <1>0, <1>1, <2>1 DEF ApplicationIInv, Shown
  <2> QED BY <1>0, <1>1, <2>1, <2>2 DEF ApplicationIInv, ApplicationTypeOK, Quiet, CopiesOwed
<1>2. ASSUME NEW g \in Goroutines, Begun(g), yanked \/ InFlight(Exclusive) = {}
      PROVE  ApplicationIInv'
  <2> DEFINE home == Home(g.op, cmds)
  <2>1. /\ home \in Slots /\ cmds' \in [Slots -> Goroutines]
        /\ \A t \in Slots : cmds'[t] = IF t = home THEN g ELSE cmds[t]
    BY <1>2, Spawned DEF Begun, ApplicationIInv, ApplicationTypeOK
  <2> HIDE DEF home
  <2>2. CopiesOwed'
    BY <1>0, <1>2, <2>1 DEF ApplicationIInv, ApplicationTypeOK, CopiesOwed, Begun, Begins
  <2>3. Shown'
    <3>1. CASE yanked
      BY <1>0, <3>1 DEF Shown
    <3>2. CASE InFlight(Exclusive) = {}
      <4>1. \A t \in InFlight(Exclusive)' : t = home /\ cmds'[t] = g /\ g.op \in Exclusive
        BY <2>1, <3>2, FlightSlots
      <4>2. ASSUME g.op \in Exclusive PROVE Holds(g.op)'
        BY <1>2, <4>2 DEF Begun
      <4>3. ASSUME NEW t \in InFlight(Exclusive)' PROVE (m.quit \/ Holds(cmds[t].op))'
        BY <4>1, <4>2, <4>3 DEF Holds
      <4> QED BY <4>1, <4>3 DEF Shown
    <3> QED BY <1>2, <3>1, <3>2
  <2> QED BY <1>0, <2>1, <2>2, <2>3 DEF ApplicationIInv, ApplicationTypeOK, Quiet
<1> QED BY <1>0, <1>1, <1>2, KeyKind

---------------------------------------------------------------------------
(* Messages. *)

(* A goroutine that told the interface something is gone, or goes on; a    *)
(* check may begin.                                                        *)
LEMMA Rechecked ==
    ASSUME ApplicationIInv, NEW s \in Slots, NEW g \in Goroutines, NEW cs,
           cs = [cmds EXCEPT ![s] = g],
           cmds' = cs \/ cmds' = Recheck(cs)
    PROVE  /\ cmds' \in [Slots -> Goroutines]
           /\ \A t \in Slots : \/ cmds'[t] = Started("check")
                             \/ cmds'[t] = IF t = s THEN g ELSE cmds[t]
<1>1. /\ cs \in [Slots -> Goroutines]
      /\ \A t \in Slots : cs[t] = IF t = s THEN g ELSE cmds[t]
  BY DEF ApplicationIInv, ApplicationTypeOK
<1>2. Started("check") \in Goroutines /\ Started("check").op = "check" /\ "check" \in Operation
  BY Beginnings DEF Begins, Operation
<1>3. CASE cmds' = Recheck(cs)
  <2> DEFINE check == Started("check")
  <2> HIDE DEF check
  <2>1. check \in Goroutines /\ check.op \in Operation
    BY <1>2 DEF check
  <2>2. /\ Spawn(cs, check) \in [Slots -> Goroutines]
        /\ \A t \in Slots : Spawn(cs, check)[t] = IF t = Home(check.op, cs) THEN check ELSE cs[t]
    BY <1>1, <2>1, Spawned
  <2>3. cmds' = Spawn(cs, check)
    BY <1>3 DEF Recheck, check
  <2> QED BY <1>1, <2>2, <2>3 DEF check
<1> QED BY <1>1, <1>3

(* The message is shown on the screen of its operation, or the operation   *)
(* is none that has to hold one.                                           *)
LEMMA MessageKeeps ==
    ASSUME ApplicationIInv, phase = "tui", UNCHANGED <<phase, file, replaced, held, owed>>,
           m' \in Models, yanked' \in BOOLEAN,
           NEW s \in Slots, NEW g \in Goroutines,
           g.op \in {"none", cmds[s].op}, Informed(g, owed), Honest(g.seen, owed),
           NEW cs, cs = [cmds EXCEPT ![s] = g], cmds' = cs \/ cmds' = Recheck(cs),
           yanked' \/ (~yanked /\ \A t \in InFlight(Exclusive) :
                          \/ (t = s /\ g.op = "none") \/ cmds'[t] = Started("check")
                          \/ m'.quit \/ Holds(cmds[t].op)')
    PROVE  ApplicationIInv'
<1>1. /\ cmds' \in [Slots -> Goroutines]
      /\ \A t \in Slots : \/ cmds'[t] = Started("check")
                        \/ cmds'[t] = IF t = s THEN g ELSE cmds[t]
  BY Rechecked
<1>2. Begins(Started("check")) /\ Started("check").op = "check"
  BY Beginnings DEF Operation
<1>3. ApplicationTypeOK'
  BY <1>1 DEF ApplicationIInv, ApplicationTypeOK
<1>4. CopiesOwed'
  <2>1. owed \in BOOLEAN
    BY DEF ApplicationIInv, ApplicationTypeOK
  <2>2. ASSUME NEW t \in Slots PROVE Informed(cmds'[t], owed) /\ Honest(cmds'[t].seen, owed)
    BY <1>1, <1>2, <2>1, <2>2 DEF Begins, ApplicationIInv, CopiesOwed
  <2> QED BY <2>2 DEF ApplicationIInv, CopiesOwed
<1>5. ASSUME NEW t \in InFlight(Exclusive)'
      PROVE  /\ t \in InFlight(Exclusive) /\ cmds'[t].op = cmds[t].op
             /\ ~(t = s /\ g.op = "none") /\ cmds'[t] # Started("check")
  <2>1. t \in Slots /\ cmds'[t].op \in Exclusive
    BY <1>5, FlightSlots
  <2>2. cmds'[t] # Started("check") /\ cmds'[t].op # "none"
    BY <1>2, <2>1 DEF Exclusive
  <2>3. cmds'[t].op = cmds[t].op /\ ~(t = s /\ g.op = "none")
    BY <1>1, <2>1, <2>2
  <2> QED BY <2>1, <2>2, <2>3, FlightSlots
<1>6. Shown'
  <2>1. CASE yanked'
    BY <2>1 DEF Shown
  <2>2. CASE ~yanked /\ \A t \in InFlight(Exclusive) :
                            \/ (t = s /\ g.op = "none") \/ cmds'[t] = Started("check")
                            \/ m'.quit \/ Holds(cmds[t].op)'
    <3>1. ASSUME NEW t \in InFlight(Exclusive)' PROVE (m.quit \/ Holds(cmds[t].op))'
      BY <1>5, <2>2, <3>1 DEF Holds
    <3>2. \A t, u \in InFlight(Exclusive)' : t = u
      BY <1>5, <2>2 DEF ApplicationIInv, Shown
    <3> QED BY <3>1, <3>2 DEF Shown
  <2> QED BY <2>1, <2>2
<1> QED BY <1>3, <1>4, <1>6 DEF ApplicationIInv, Quiet

LEMMA Ending ==
    ASSUME ApplicationIInv, NEW s \in Slots, cmds[s].op \in Exclusive, ~yanked
    PROVE  \A t \in InFlight(Exclusive) : t = s
BY FlightSlots DEF ApplicationIInv, Shown

LEMMA ReportedModel ==
    ASSUME NEW n \in Models, NEW g \in Goroutines
    PROVE  /\ Reported(n, g) \in Models
           /\ Reported(n, g).quit
                \/ \A op \in Exclusive :
                      /\ Reported(n, g).screen = n.screen /\ Reported(n, g).running = n.running
                      /\ Reported(n, g).piping = n.piping /\ Reported(n, g).done = n.done
<1> DEFINE r == [n EXCEPT !.report = IF g.product THEN "product" ELSE "tools"]
           q == [r EXCEPT !.checked = FALSE, !.updates = FALSE]
<1>1. /\ q \in Models /\ q.screen = n.screen /\ q.running = n.running
      /\ q.piping = n.piping /\ q.done = n.done
  BY DEF Models
<1>2. Gone \in Models /\ Gone.quit
  BY ModelUpdates
<1>3. Reported(n, g) = IF g.exit THEN Gone ELSE q
  BY DEF Reported
<1> HIDE DEF q, r
<1> QED BY <1>1, <1>2, <1>3

LEMMA ReceiveKeeps ==
    ASSUME ApplicationIInv, NEW s \in Slots, Deliver(s)
    PROVE  ApplicationIInv'
<1>0. /\ phase = "tui" /\ Receive(s) /\ UNCHANGED <<phase, held, owed>>
      /\ m \in Models /\ yanked \in BOOLEAN /\ owed \in BOOLEAN /\ cmds[s] \in Goroutines
  BY DEF Deliver, ApplicationIInv, ApplicationTypeOK
<1>n. /\ NoCommand \in Goroutines /\ NoCommand.op = "none"
      /\ Informed(NoCommand, owed) /\ Honest(NoCommand.seen, owed)
  BY <1>0, Beginnings DEF Begins
<1>r. ASSUME m' \in Models, yanked' = yanked, UNCHANGED <<file, replaced>>,
             cmds' = Removed(s) \/ cmds' = Recheck(Removed(s)),
             yanked \/ \A t \in InFlight(Exclusive) : t = s \/ m'.quit \/ Holds(cmds[t].op)'
      PROVE  ApplicationIInv'
  BY <1>0, <1>n, <1>r, MessageKeeps DEF Removed
<1>1. CASE ReceiveCheck(s)
  <2> DEFINE n == [m EXCEPT !.checked = TRUE, !.updates = cmds[s].updates]
  <2>1. /\ n \in Models /\ On(n, "UpdatePrompt") \in Models
        /\ n.screen = m.screen /\ n.running = m.running /\ n.piping = m.piping
        /\ n.done = m.done
    BY <1>0 DEF Models, Goroutines, On, Screen
  <2>2. ASSUME NEW t \in InFlight(Exclusive), ~yanked PROVE Holds(cmds[t].op)'
    <3>1. Holds(cmds[t].op) /\ cmds[t].op \in Exclusive
      BY <1>1, <2>2, FlightSlots DEF ReceiveCheck, Ended, ApplicationIInv, Shown
    <3>2. m.screen # "Welcome"
      BY <3>1 DEF Holds, Place, Exclusive
    <3>3. m' = n
      BY <1>1, <3>2 DEF ReceiveCheck
    <3>4. m'.screen = m.screen /\ m'.running = m.running /\ m'.piping = m.piping /\ m'.done = m.done
      BY <2>1, <3>3
    <3>5. t \in Slots /\ ~(t = s)
      BY <1>1, <3>1, <2>2, FlightSlots DEF ReceiveCheck, Ended, Exclusive
    <3>6. cmds'[t] = cmds[t]
      BY <1>1, <3>5 DEF ReceiveCheck, Removed, ApplicationIInv, ApplicationTypeOK
    <3> QED BY <3>1, <3>4, <3>6 DEF Holds
  <2>3. m' \in Models
    BY <1>1, <2>1 DEF ReceiveCheck
  <2> QED BY <1>1, <1>r, <2>2, <2>3 DEF ReceiveCheck
<1>2. CASE ReceiveUpgrade(s)
  <2>1. m' \in Models
    BY <1>0, <1>2, ModelUpdates, ReportedModel DEF ReceiveUpgrade
  <2>2. cmds[s].op \in Exclusive
    BY <1>2 DEF ReceiveUpgrade, Ended, Exclusive
  <2> QED BY <1>2, <1>r, <2>1, <2>2, Ending DEF ReceiveUpgrade
<1>3. CASE ReceivePhase(s)
  <2> DEFINE g == [cmds[s] EXCEPT !.pc = IF cmds[s].product THEN "mark" ELSE "sync"]
             cs == [cmds EXCEPT ![s] = g]
  <2>1. /\ g \in Goroutines /\ g.op = cmds[s].op /\ g.seen = cmds[s].seen
        /\ g.pc = IF cmds[s].product THEN "mark" ELSE "sync"
    BY <1>0 DEF Goroutines, Steps
  <2>2. cmds' = cs \/ cmds' = Recheck(cs)
    BY <1>3 DEF ReceivePhase
  <2>3. cmds[s].op = "upgradeSync" /\ (cmds[s].product => owed) /\ Honest(cmds[s].seen, owed)
    BY <1>3 DEF ReceivePhase, At, ApplicationIInv, CopiesOwed, Informed
  <2> HIDE DEF g
  <2>4. Informed(g, owed) /\ Honest(g.seen, owed)
    BY <2>1, <2>3 DEF Informed, Honest
  <2>5. /\ m' \in Models /\ ~m.quit /\ UNCHANGED <<file, replaced, yanked>>
        /\ \/ m'.quit
           \/ /\ m'.screen = m.screen /\ m'.running = m.running
              /\ m'.piping = m.piping /\ m'.done = m.done
    BY <1>0, <1>3, ReportedModel DEF ReceivePhase, Exclusive
  <2>6. ASSUME NEW t \in InFlight(Exclusive), ~yanked
        PROVE  cmds'[t] = Started("check") \/ m'.quit \/ Holds(cmds[t].op)'
    <3>1. Holds(cmds[t].op) /\ t \in Slots
      BY <2>5, <2>6, FlightSlots DEF ApplicationIInv, Shown
    <3>2. t = s
      BY <2>3, <2>6, Ending DEF Exclusive
    <3>3. cmds[t].op = "upgradeSync"
      BY <2>3, <3>2
    <3>4. m.screen = "UpgradeSync" /\ m.running
      BY <3>1, <3>3 DEF Holds, Place
    <3>5. \A u \in Slots : \/ cmds'[u] = Started("check")
                          \/ cmds'[u] = IF u = s THEN g ELSE cmds[u]
      BY <2>1, <2>2, Rechecked
    <3>6. CASE cmds'[t] = g
      BY <2>1, <2>5, <3>2, <3>3, <3>4, <3>6 DEF Holds, Place
    <3> QED BY <3>1, <3>2, <3>5, <3>6
  <2> QED BY <1>0, <2>1, <2>2, <2>4, <2>5, <2>6, MessageKeeps
<1>4. CASE ReceiveSync(s)
  <2>1. m' \in Models
    BY <1>0, <1>4 DEF ReceiveSync, Models
  <2>2. cmds[s].op \in Exclusive
    BY <1>4 DEF ReceiveSync, Ended, Exclusive
  <2> QED BY <1>4, <1>r, <2>1, <2>2, Ending DEF ReceiveSync
<1>5. CASE ReceiveUninstall(s)
  <2>1. m' \in Models
    BY <1>0, <1>5, ModelUpdates DEF ReceiveUninstall, Screen
  <2>2. cmds[s].op \in Exclusive
    BY <1>5 DEF ReceiveUninstall, Ended, Exclusive
  <2> QED BY <1>5, <1>r, <2>1, <2>2, Ending DEF ReceiveUninstall
<1>6. CASE ReceivePipeline(s)
  <2>1. m' \in Models
    BY <1>0, <1>6 DEF ReceivePipeline, Models, Goroutines
  <2>2. cmds[s].op \in Exclusive
    BY <1>6 DEF ReceivePipeline, Ended, Exclusive
  <2> QED BY <1>6, <1>r, <2>1, <2>2, Ending DEF ReceivePipeline
<1>7. CASE ReceiveRestore(s)
  <2>1. m' \in Models
    BY <1>0, <1>7, ModelUpdates DEF ReceiveRestore, Screen
  <2>2. ASSUME ~yanked' PROVE ~yanked /\ InFlight(Exclusive) = {}
    <3>1. ~yanked /\ ~m.quit /\ m.screen = "RestoreConfirm"
      BY <1>7, <2>2 DEF ReceiveRestore, Ended
    <3>2. ASSUME NEW op \in Exclusive PROVE ~Holds(op)
      BY <3>1, <3>2 DEF Holds, Place, Exclusive
    <3> QED BY <3>1, <3>2, NothingHeld
  <2>3. /\ yanked' \in BOOLEAN /\ UNCHANGED <<file, replaced>>
        /\ cmds' = [cmds EXCEPT ![s] = NoCommand]
    BY <1>0, <1>7 DEF ReceiveRestore, Removed
  <2> QED BY <1>0, <1>n, <2>1, <2>2, <2>3, MessageKeeps
<1> QED BY <1>0, <1>1, <1>2, <1>3, <1>4, <1>5, <1>6, <1>7 DEF Receive

---------------------------------------------------------------------------
(* The application: the theorems. *)

LEMMA ApplicationStarts == Init => ApplicationIInv
<1> SUFFICES ASSUME Init PROVE ApplicationIInv
  OBVIOUS
<1>1. cmds \in [Slots -> Goroutines] /\ \A t \in Slots : Begins(cmds[t]) /\ cmds[t].op \notin Exclusive
  BY Alone DEF Init
<1>2. InFlight(Exclusive) = {}
  BY <1>1, FlightSlots
<1>3. InitialModel \in Models
  BY DEF InitialModel, Models, Screen
<1>4. file \in StateFiles /\ owed = (Readable(file) /\ file.pending)
  BY ApplicationAssumption DEF Init
<1>5. owed \in BOOLEAN /\ Honest(file, owed)
  BY <1>4 DEF Honest, Readable, InstallState
<1>6. held \in InstallState /\ Honest(held, owed)
  BY StateValues DEF Init, Honest
<1> QED BY <1>1, <1>2, <1>3, <1>4, <1>5, <1>6
        DEF Init, ApplicationIInv, ApplicationTypeOK, Quiet, Shown, CopiesOwed, Begins

(* What every reachable state of the application satisfies: the types,     *)
(* nothing in flight before the interface, an operation that holds the     *)
(* screen it was started from, and no copy of the marker without a sync    *)
(* that is due.                                                            *)
THEOREM ApplicationInvariance == Spec => []ApplicationIInv
<1>1. ASSUME ApplicationIInv, [Next]_vars PROVE ApplicationIInv'
  <2>1. CASE UNCHANGED vars
    BY <1>1, <2>1
    DEF vars, ApplicationIInv, ApplicationTypeOK, Quiet, Shown, CopiesOwed, InFlight, Busy, Holds
  <2>2. CASE Next
    BY <1>1, <2>2, LaunchKeeps, TimeKeeps, KeyKeeps, WorkKeeps, ReceiveKeeps DEF Next
  <2> QED BY <1>1, <2>1, <2>2
<1> QED BY <1>1, ApplicationStarts, PTL DEF Spec

(* The state file holds a document, a file that cannot be decoded or none, *)
(* and every goroutine and the interface have the values of their types.   *)
THEOREM ApplicationTypeCorrectness == Spec => []ApplicationTypeOK
<1>1. ApplicationIInv => ApplicationTypeOK
  BY DEF ApplicationIInv
<1> QED BY <1>1, ApplicationInvariance, PTL

(* Two operations that write configuration are never in flight at once,    *)
(* unless a restore ended behind another screen.                           *)
THEOREM OperationSafety == Spec => []OperationsExclusive
<1>1. ASSUME ApplicationIInv PROVE OperationsExclusive
  <2>1. CASE yanked
    BY <2>1 DEF OperationsExclusive
  <2>2. CASE \A s, t \in InFlight(Exclusive) : s = t
    <3>1. CASE InFlight(Exclusive) = {}
      BY <3>1, FS_EmptySet DEF OperationsExclusive
    <3>2. CASE InFlight(Exclusive) # {}
      <4>1. PICK s : InFlight(Exclusive) = {s}
        BY <2>2, <3>2
      <4>2. Cardinality({s}) = 1
        BY FS_Singleton
      <4> QED BY <4>1, <4>2 DEF OperationsExclusive
    <3> QED BY <3>1, <3>2
  <2> QED BY <1>1, <2>1, <2>2 DEF ApplicationIInv, Shown
<1> QED BY <1>1, ApplicationInvariance, PTL

(* The marker is on disk only while a sync is due, for any number of       *)
(* launches, operations and stale copies of the state file.                *)
THEOREM MarkerSafety == Spec => []MarkerMeansOwed
<1>1. ApplicationIInv => MarkerMeansOwed
  BY DEF ApplicationIInv, CopiesOwed, Honest, MarkerMeansOwed
<1> QED BY <1>1, ApplicationInvariance, PTL

---------------------------------------------------------------------------
(* The programs: the inductive invariant, for one program at a time.       *)

Findings ==
    [status : {"check-failed", "not-installed", "registered-not-materialized", "dev-build",
               "version-unknown", "up-to-date", "update-available"},
     latest : Nat, main : BOOLEAN]

Results ==
    [tool : Tools, status : {"skipped", "failed", "succeeded"}, latest : Nat, main : BOOLEAN]

Programs ==
    [pc : {"idle", "check", "offer", "execute", "next", "place", "verify", "extract",
           "extracting", "replace", "dispatch"},
     op : {"none", "self", "tui", "upgrade"}, by : Builds,
     found : UNION {[ts -> Findings] : ts \in SUBSET Tools}, todo : SUBSET Tools,
     report : SUBSET Results,
     got : Builds, where : {"none", "new", "path", "gone"}]

UpgradeTypeOK ==
    /\ file \in StateFiles
    /\ machine \in Computers
    /\ binary \in [Tools -> Builds]
    /\ staged \in Builds
    /\ released \in [Tools -> Nat \ {0}]
    /\ assets \in BOOLEAN /\ npm \in Nat
    /\ procs \in [Processes -> Programs]
    /\ commands \in Nat

(* What is installed of a tool.                                            *)
Sane(t) ==
    /\ binary[t].form # "torn"
    /\ binary[t].form = "registered" => binary[t].v = 0
    /\ binary[t].form = "main" => binary[t].v <= released[t]

(* What a check promised of these tools still is an upgrade.               *)
Promised(p, ts) ==
    \A t \in ts :
        /\ t \in DOMAIN procs[p].found
        /\ procs[p].found[t].latest <= released[t]
        /\ IF procs[p].found[t].main
           THEN t = Product /\ binary[t].v <= released[t]
           ELSE binary[t].v < procs[p].found[t].latest

Offered == {"update-available", "registered-not-materialized"}

(* What is fetched is not older than what it replaces, and what is renamed *)
(* is what was verified.                                                   *)
Fetched(p) ==
    /\ In(p, "place") =>
         /\ procs[p].todo # {} /\ Hand(p) = "engram" /\ ~Owned("engram")
         /\ procs[p].got.form \in {"release", "dev"}
         /\ binary["engram"].v <= procs[p].got.v
    /\ procs[p].pc \in {"verify", "extract", "extracting", "replace"} =>
         /\ procs[p].todo # {} /\ Hand(p) = Product /\ ~procs[p].found[Product].main
         /\ procs[p].got.v = procs[p].found[Product].latest
    /\ procs[p].pc \in {"extract", "extracting", "replace"} => procs[p].got.form = "release"
    /\ In(p, "extracting") => procs[p].where = "new"
    /\ In(p, "replace") => staged = procs[p].got

ProgramOK(p) ==
    /\ In(p, "check") => procs[p].by = binary[Product]
    /\ procs[p].pc \in {"offer", "execute"} => Promised(p, Are(procs[p].found, Offered))
    /\ Promised(p, procs[p].todo)
    /\ procs[p].pc \in {"idle", "check", "offer", "execute"} => procs[p].todo = {}
    /\ Fetched(p)

UpgradeIInv ==
    /\ UpgradeTypeOK
    /\ \A t \in Tools : Sane(t)
    /\ binary["plugin"].v <= npm
    /\ SuccessIsInstalled
    /\ \A p \in Processes : ProgramOK(p)

LEMMA ToolNames == Tools = {Product, "engram", "gga", "plugin"}
BY DEF Tools, Registry, Product

LEMMA InHand ==
    ASSUME NEW todo \in SUBSET Tools, todo # {}
    PROVE  First(todo) \in todo
<1> DEFINE Least(i) == /\ Registry[i] \in todo
                      /\ \A j \in 1 .. (i - 1) : Registry[j] \notin todo
<1>1. \E i \in 1 .. 4 : Registry[i] \in todo
  BY DEF Tools
<1>2. \E i \in 1 .. 4 : Least(i)
  <2>1. CASE Registry[1] \in todo
    BY <2>1
  <2>2. CASE Registry[1] \notin todo /\ Registry[2] \in todo
    <3>1. 1 .. (2 - 1) = {1}
      OBVIOUS
    <3> QED BY <2>2, <3>1
  <2>3. CASE Registry[1] \notin todo /\ Registry[2] \notin todo
               /\ Registry[3] \in todo
    <3>1. 1 .. (3 - 1) = {1, 2}
      OBVIOUS
    <3> QED BY <2>3, <3>1
  <2>4. CASE /\ Registry[1] \notin todo /\ Registry[2] \notin todo
             /\ Registry[3] \notin todo /\ Registry[4] \in todo
    <3>1. 1 .. (4 - 1) = {1, 2, 3}
      OBVIOUS
    <3> QED BY <2>4, <3>1
  <2>5. 1 .. 4 = {1, 2, 3, 4}
    OBVIOUS
  <2> QED BY <1>1, <2>1, <2>2, <2>3, <2>4, <2>5
<1>3. Least(CHOOSE i \in 1 .. 4 : Least(i))
  <2> HIDE DEF Least
  <2> QED BY <1>2
<1> QED BY <1>3 DEF First

LEMMA NoProgram ==
    /\ Nothing \in Builds
    /\ NoProcess \in Programs /\ NoProcess.pc = "idle" /\ NoProcess.todo = {} /\ NoProcess.report = {}
<1>1. <<>> \in [{} -> Findings]
  OBVIOUS
<1>2. NoProcess.found \in UNION {[ts -> Findings] : ts \in SUBSET Tools}
  BY <1>1 DEF NoProcess
<1>3. Nothing \in Builds
  BY DEF Nothing, Build, Builds, Forms
<1> QED BY <1>2, <1>3 DEF NoProcess, Programs

(* The check promises an upgrade only where there is one.                  *)
LEMMA CheckPromises ==
    ASSUME UpgradeIInv, NEW targets \in SUBSET Tools, NEW lost
    PROVE  LET found == CheckFiltered(targets, binary[Product], lost) IN
           /\ found \in UNION {[ts -> Findings] : ts \in SUBSET Tools}
           /\ \A t \in Are(found, Offered) :
                 /\ t \in targets /\ found[t].latest <= released[t]
                 /\ IF found[t].main
                    THEN t = Product /\ binary[t].v <= released[t]
                    ELSE binary[t].v < found[t].latest
<1> DEFINE found == CheckFiltered(targets, binary[Product], lost)
<1>1. found \in [targets -> Findings]
  <2> SUFFICES ASSUME NEW t \in targets PROVE found[t] \in Findings
    BY DEF CheckFiltered
  <2>1. CheckSingleTool(t, binary[Product]) \in
           {"check-failed", "not-installed", "registered-not-materialized", "dev-build",
            "version-unknown", "up-to-date", "update-available"}
    BY DEF CheckSingleTool, MainHeadStatus, CompareVersions
  <2>2. UsesBetaMainHeadCheck(t, binary[Product]) \in BOOLEAN /\ FetchLatestRelease(t) \in Nat
    BY DEF UsesBetaMainHeadCheck, FetchLatestRelease, UpgradeIInv, UpgradeTypeOK, Computers
  <2> QED BY <2>1, <2>2 DEF CheckFiltered, Findings
<1>2. ASSUME NEW t \in targets, found[t].status \in Offered
      PROVE  /\ found[t].latest <= released[t]
             /\ IF found[t].main
                THEN t = Product /\ binary[t].v <= released[t]
                ELSE binary[t].v < found[t].latest
  <2>1. /\ CheckSingleTool(t, binary[Product]) \in Offered
        /\ found[t].latest = released[t] /\ found[t].main = UsesBetaMainHeadCheck(t, binary[Product])
    BY <1>2 DEF CheckFiltered, FetchLatestRelease, Offered
  <2>2. /\ binary[t] \in Builds /\ released[t] \in Nat \ {0} /\ Sane(t)
        /\ Installed(t, binary[Product]) = binary[t]
    BY DEF UpgradeIInv, UpgradeTypeOK, Installed
  <2>3. CASE UsesBetaMainHeadCheck(t, binary[Product])
    <3>1. t = Product /\ binary[t].form = "main"
      <4>1. CheckSingleTool(t, binary[Product]) \in {"check-failed", MainHeadStatus(binary[t])}
        BY <2>2, <2>3 DEF CheckSingleTool
      <4>2. MainHeadStatus(binary[t]) \in Offered
        BY <2>1, <4>1 DEF Offered
      <4>3. binary[t].form = "main"
        BY <2>2, <4>2 DEF MainHeadStatus, Offered, Builds, Forms
      <4> QED BY <2>3, <4>3 DEF UsesBetaMainHeadCheck
    <3> QED BY <2>1, <2>2, <2>3, <3>1 DEF Sane, Builds
  <2>4. CASE ~UsesBetaMainHeadCheck(t, binary[Product])
    <3>1. binary[t].form = "registered" \/ CompareVersions(binary[t].v, released[t]) = "update-available"
      BY <2>1, <2>2, <2>4 DEF CheckSingleTool, Offered, FetchLatestRelease, CompareVersions
    <3>2. binary[t].v < released[t]
      BY <2>2, <3>1 DEF Sane, Builds, CompareVersions
    <3> QED BY <2>1, <2>2, <2>4, <3>2
  <2> QED BY <2>3, <2>4
<1>3. DOMAIN found = targets
  BY DEF CheckFiltered
<1> HIDE DEF found
<1>4. /\ found \in UNION {[ts -> Findings] : ts \in SUBSET Tools}
      /\ \A t \in Are(found, Offered) :
            /\ t \in targets /\ found[t].latest <= released[t]
            /\ IF found[t].main
               THEN t = Product /\ binary[t].v <= released[t]
               ELSE binary[t].v < found[t].latest
  BY <1>1, <1>2, <1>3 DEF Are
<1> QED BY <1>4 DEF found

---------------------------------------------------------------------------
(* What the steps of an upgrade keep. *)

(* The program goes on and nothing is installed.                           *)
LEMMA Moving ==
    ASSUME UpgradeIInv, NEW p, Processes = {p},
           UNCHANGED <<machine, binary, released, npm>>,
           file' \in StateFiles, staged' \in Builds, commands' \in Nat, assets' \in BOOLEAN,
           procs' \in [Processes -> Programs],
           \A r \in procs'[p].report : r \in procs[p].report \/ r.status # "succeeded",
           ProgramOK(p)'
    PROVE  UpgradeIInv' /\ KeepsReleases
<1>1. UpgradeTypeOK' /\ \A t \in Tools : Sane(t)'
  BY DEF UpgradeIInv, UpgradeTypeOK, Sane
<1>2. ASSUME NEW r PROVE Vouched(r)' = Vouched(r)
  BY DEF Vouched, Ownership
<1>3. SuccessIsInstalled'
  BY <1>2 DEF UpgradeIInv, SuccessIsInstalled
<1>4. KeepsReleases
  BY DEF KeepsReleases, UpgradeIInv, UpgradeTypeOK, Builds
<1> QED BY <1>1, <1>3, <1>4 DEF UpgradeIInv

LEMMA SettledProgram ==
    ASSUME UpgradeIInv, NEW p \in Processes, procs[p].todo # {},
           NEW status \in {"skipped", "failed", "succeeded"}
    PROVE  /\ Hand(p) \in procs[p].todo /\ Hand(p) \in Tools
           /\ Hand(p) \in DOMAIN procs[p].found
           /\ Settled(p, status) \in Programs /\ Settled(p, status).pc = "next"
           /\ Settled(p, status).todo = procs[p].todo \ {Hand(p)}
           /\ Settled(p, status).found = procs[p].found
           /\ Settled(p, status).report = procs[p].report \cup {Entry(p, Hand(p), status)}
<1>1. procs[p] \in Programs /\ procs[p].todo \in SUBSET Tools
  BY DEF UpgradeIInv, UpgradeTypeOK, Programs
<1>2. Hand(p) \in procs[p].todo /\ Hand(p) \in Tools
  BY <1>1, InHand DEF Hand
<1>3. Hand(p) \in DOMAIN procs[p].found
  BY <1>2 DEF UpgradeIInv, ProgramOK, Promised
<1>4. procs[p].found[Hand(p)].latest \in Nat /\ procs[p].found[Hand(p)].main \in BOOLEAN
  <2>1. PICK ts \in SUBSET Tools : procs[p].found \in [ts -> Findings]
    BY <1>1 DEF Programs
  <2> QED BY <1>3, <2>1 DEF Findings
<1>5. Entry(p, Hand(p), status) \in Results
  BY <1>2, <1>4 DEF Entry, Results
<1> DEFINE g == Settled(p, status)
<1>6. /\ g.pc = "next" /\ g.todo = procs[p].todo \ {Hand(p)} /\ g.found = procs[p].found
      /\ g.report = procs[p].report \cup {Entry(p, Hand(p), status)}
  BY <1>1 DEF Settled, Programs
<1>7. g \in Programs
  BY <1>1, <1>5, NoProgram DEF Settled, Programs
<1> QED BY <1>2, <1>3, <1>6, <1>7

(* The tool in hand is done with: b is what is installed of it then.       *)
LEMMA Settling ==
    ASSUME UpgradeIInv, NEW p, Processes = {p}, procs[p].todo # {},
           NEW status \in {"skipped", "failed", "succeeded"},
           procs' \in [Processes -> Programs],
           procs'[p].pc = "next", procs'[p].todo \subseteq procs[p].todo \ {Hand(p)},
           procs'[p].found = procs[p].found,
           procs'[p].report = procs[p].report \cup {Entry(p, Hand(p), status)},
           NEW b \in Builds, binary' = [binary EXCEPT ![Hand(p)] = b],
           b = binary[Hand(p)]
             \/ /\ b.form \in {"release", "dev"} /\ binary[Hand(p)].v <= b.v
                /\ Hand(p) = "plugin" => b.v <= npm,
           status = "succeeded" /\ Vouched(Entry(p, Hand(p), status))
               => procs[p].found[Hand(p)].latest <= b.v,
           staged' \in Builds,
           UNCHANGED <<file, machine, released, assets, npm, commands>>
    PROVE  UpgradeIInv' /\ KeepsReleases
<1> DEFINE t == Hand(p)
<1>1. t \in procs[p].todo /\ t \in Tools
  BY SettledProgram
<1>2. /\ binary \in [Tools -> Builds] /\ released \in [Tools -> Nat \ {0}] /\ Sane(t)
      /\ \A u \in Tools : binary[u].v \in Nat
  BY <1>1 DEF UpgradeIInv, UpgradeTypeOK, Builds
<1>3. b.v \in Nat /\ binary[t].v <= b.v
  BY <1>1, <1>2 DEF Builds
<1> HIDE DEF t
<1>4. binary'[t] = b /\ \A u \in Tools : u # t => binary'[u] = binary[u]
  BY <1>1, <1>2 DEF t
<1>5. KeepsReleases /\ \A u \in Tools : binary'[u].v \in Nat
  BY <1>1, <1>2, <1>3, <1>4 DEF KeepsReleases
<1>6. UpgradeTypeOK'
  BY <1>1, <1>2 DEF UpgradeIInv, UpgradeTypeOK, t
<1>7. ASSUME NEW u \in Tools PROVE Sane(u)'
  <2>1. CASE u = t
    BY <1>2, <1>4, <2>1 DEF Sane, t
  <2>2. CASE u # t
    BY <1>4, <2>2 DEF Sane, UpgradeIInv
  <2> QED BY <2>1, <2>2
<1>8. SuccessIsInstalled'
  <2> SUFFICES ASSUME NEW r \in procs'[p].report, r.status = "succeeded", Vouched(r)'
               PROVE  binary'[r.tool].v >= r.latest
    BY DEF SuccessIsInstalled
  <2>0. Vouched(r)
    BY DEF Vouched, Ownership
  <2>1. CASE r \in procs[p].report
    <3>1. binary[r.tool].v >= r.latest
      BY <2>0, <2>1 DEF UpgradeIInv, SuccessIsInstalled
    <3>2. r.tool \in Tools /\ r.latest \in Nat
      BY <2>1 DEF UpgradeIInv, UpgradeTypeOK, Programs, Results
    <3> QED BY <1>2, <1>5, <3>1, <3>2 DEF KeepsReleases
  <2>2. CASE r = Entry(p, Hand(p), status)
    <3>1. r.tool = t /\ r.status = status /\ r.latest = procs[p].found[t].latest
      BY <2>2 DEF Entry, t
    <3>2. r.latest <= b.v /\ r.latest \in Nat
      <4>1. Entry(p, Hand(p), status).latest \in Nat
        BY SettledProgram DEF Programs, Results
      <4> QED BY <2>0, <2>2, <3>1, <4>1 DEF t
    <3> QED BY <1>3, <1>4, <3>1, <3>2
  <2> QED BY <2>1, <2>2
<1>9. ProgramOK(p)'
  <2>1. Promised(p, procs[p].todo)
    BY DEF UpgradeIInv, ProgramOK
  <2>2. Promised(p, procs[p].todo)'
    <3> SUFFICES ASSUME NEW u \in procs'[p].todo
                 PROVE  /\ u \in DOMAIN procs'[p].found
                        /\ procs'[p].found[u].latest <= released[u]
                        /\ IF procs'[p].found[u].main
                           THEN u = Product /\ binary'[u].v <= released[u]
                           ELSE binary'[u].v < procs'[p].found[u].latest
      BY DEF Promised
    <3>1. u \in procs[p].todo /\ u # t /\ u \in Tools
      BY DEF UpgradeIInv, UpgradeTypeOK, Programs, t
    <3> QED BY <1>4, <2>1, <3>1 DEF Promised
  <2> QED BY <2>2 DEF ProgramOK, Fetched, In
<1>10. binary'["plugin"].v <= npm'
  <2>1. binary["plugin"].v <= npm /\ "plugin" \in Tools
    BY ToolNames DEF UpgradeIInv
  <2>2. CASE t = "plugin"
    BY <1>4, <2>1, <2>2 DEF t
  <2>3. CASE t # "plugin"
    BY <1>4, <2>1, <2>3
  <2> QED BY <2>2, <2>3
<1> QED BY <1>5, <1>6, <1>7, <1>8, <1>9, <1>10 DEF UpgradeIInv

(* What a turn is of, by its strategy.                                     *)
LEMMA TurnTakes ==
    ASSUME UpgradeIInv, NEW p \in Processes, NEW strategy, Turn(p, strategy)
    PROVE  LET t == Hand(p)
               f == procs[p].found[t] IN
           /\ In(p, "next") /\ procs[p].todo # {}
           /\ t \in procs[p].todo /\ t \in Tools /\ t \in DOMAIN procs[p].found
           /\ f.latest \in Nat /\ f.latest <= released[t]
           /\ IF f.main THEN t = Product /\ binary[t].v <= released[t] ELSE binary[t].v < f.latest
           /\ binary[t].v \in Nat /\ released[t] \in Nat /\ released[t] >= 1 /\ binary[t].v <= released[t]
           /\ strategy = "script" => t = "gga"
           /\ strategy = "plugin" => t = "plugin"
           /\ strategy = "engram" => t = "engram" /\ ~Owned(t)
           /\ strategy = "go-install-main" => t = Product /\ f.main
           /\ strategy = "installer" => t = Product /\ machine.windows
           /\ strategy = "binary" => t = Product /\ ~f.main
<1> DEFINE t == Hand(p)
           f == procs[p].found[t]
<1>1. /\ In(p, "next") /\ procs[p].todo # {}
      /\ t \in procs[p].todo /\ t \in Tools /\ t \in DOMAIN procs[p].found
  BY SettledProgram DEF Turn
<1>2. /\ f.latest <= released[t]
      /\ IF f.main THEN t = Product /\ binary[t].v <= released[t] ELSE binary[t].v < f.latest
  BY <1>1 DEF UpgradeIInv, ProgramOK, Promised
<1>3. f.latest \in Nat
  <2>0. procs[p] \in Programs
    BY DEF UpgradeIInv, UpgradeTypeOK
  <2>1. PICK ts \in SUBSET Tools : procs[p].found \in [ts -> Findings]
    BY <2>0 DEF Programs
  <2> QED BY <1>1, <2>1 DEF Findings
<1>4. binary[t].v \in Nat /\ released[t] \in Nat /\ released[t] >= 1
  BY <1>1 DEF UpgradeIInv, UpgradeTypeOK, Builds
<1>5. Strategy(t, f.main) = strategy /\ t \in {Product, "engram", "gga", "plugin"}
  BY <1>1, ToolNames DEF Turn
<1>6. f.main => t = Product
  BY <1>2
<1> HIDE DEF t, f
<1>7. /\ strategy = "script" => t = "gga"
      /\ strategy = "plugin" => t = "plugin"
      /\ strategy = "engram" => t = "engram" /\ ~Owned(t)
      /\ strategy = "go-install-main" => t = Product /\ f.main
      /\ strategy = "installer" => t = Product /\ machine.windows
      /\ strategy = "binary" => t = Product /\ ~f.main
  BY <1>5, <1>6 DEF Strategy, Product
<1>8. binary[t].v <= released[t]
  BY <1>2, <1>3, <1>4
<1> QED BY <1>1, <1>2, <1>3, <1>4, <1>7, <1>8 DEF t, f

(* A turn that ends with b in the place of what was installed.             *)
LEMMA TurnEnds ==
    ASSUME UpgradeIInv, NEW p, Processes = {p}, procs[p].todo # {},
           NEW status \in {"skipped", "failed", "succeeded"}, Settle(p, status),
           NEW b \in Builds, binary' = [binary EXCEPT ![Hand(p)] = b],
           b = binary[Hand(p)]
             \/ /\ b.form \in {"release", "dev"} /\ binary[Hand(p)].v <= b.v
                /\ Hand(p) = "plugin" => b.v <= npm,
           status = "succeeded" /\ Vouched(Entry(p, Hand(p), status))
               => procs[p].found[Hand(p)].latest <= b.v,
           UNCHANGED <<file, machine, released, assets, npm, commands>>, staged' \in Builds
    PROVE  UpgradeIInv' /\ KeepsReleases
<1> DEFINE g == Settled(p, status)
<1>1. /\ g \in Programs /\ g.pc = "next" /\ g.todo = procs[p].todo \ {Hand(p)}
      /\ g.found = procs[p].found
      /\ g.report = procs[p].report \cup {Entry(p, Hand(p), status)}
      /\ Hand(p) \in Tools
  BY SettledProgram
<1>2. procs' = [procs EXCEPT ![p] = g] /\ procs \in [Processes -> Programs]
  BY DEF Settle, Set, UpgradeIInv, UpgradeTypeOK
<1> HIDE DEF g
<1>3. procs' \in [Processes -> Programs] /\ procs'[p] = g
  BY <1>1, <1>2
<1> QED BY <1>1, <1>3, Settling

(* A turn that installs nothing, wherever it ends.                         *)
LEMMA TurnFails ==
    ASSUME UpgradeIInv, NEW p, Processes = {p}, procs[p].todo # {},
           NEW status \in {"skipped", "failed", "succeeded"}, Settle(p, status),
           status = "succeeded" => ~Vouched(Entry(p, Hand(p), status)),
           UNCHANGED <<file, machine, binary, released, assets, npm, commands>>, staged' \in Builds
    PROVE  UpgradeIInv' /\ KeepsReleases
<1>1. binary \in [Tools -> Builds] /\ Hand(p) \in Tools
  BY SettledProgram DEF UpgradeIInv, UpgradeTypeOK
<1>2. binary' = [binary EXCEPT ![Hand(p)] = binary[Hand(p)]] /\ binary[Hand(p)] \in Builds
  BY <1>1
<1> QED BY <1>2, TurnEnds

LEMMA BuildType ==
    \A v \in Nat : \A form \in Forms :
        Build(v, form) \in Builds /\ Build(v, form).v = v /\ Build(v, form).form = form
BY DEF Build, Builds

LEMMA BrewKeeps ==
    ASSUME UpgradeIInv, NEW p, Processes = {p}, BrewUpgrade(p) \/ GoInstallMainUpgrade(p)
                                                  \/ ScriptUpgrade(p) \/ PluginUpgrade(p)
    PROVE  UpgradeIInv' /\ KeepsReleases
<1> DEFINE t == Hand(p)
           f == procs[p].found[t]
<1>s. staged \in Builds
  BY DEF UpgradeIInv, UpgradeTypeOK
<1>1. CASE BrewUpgrade(p)
  <2>1. Turn(p, "brew") /\ UNCHANGED <<file, machine, staged, released, assets, npm, commands>>
    BY <1>1 DEF BrewUpgrade
  <2>2. /\ procs[p].todo # {} /\ f.latest \in Nat
        /\ binary[t].v \in Nat /\ released[t] \in Nat
    BY <2>1, TurnTakes
  <2>3. CASE Settle(p, "failed") /\ UNCHANGED binary
    BY <1>s, <2>1, <2>2, <2>3, TurnFails
  <2>4. ASSUME NEW v \in binary[t].v .. released[t], Put(t, Build(v, "release")),
               Settle(p, IF Verified(p, t, v) THEN "succeeded" ELSE "failed")
        PROVE  UpgradeIInv' /\ KeepsReleases
    <3> DEFINE b == Build(v, "release")
               status == IF Verified(p, t, v) THEN "succeeded" ELSE "failed"
    <3>1. v \in Nat /\ binary[t].v <= v /\ v <= released[t]
      BY <2>2
    <3>2. b \in Builds /\ b.v = v /\ b.form = "release"
      BY <3>1, BuildType DEF Forms
    <3>3. ASSUME status = "succeeded", Vouched(Entry(p, t, status)) PROVE f.latest <= b.v
      <4>1. v = f.latest
        BY <3>3 DEF Vouched, Verified, Entry
      <4> QED BY <2>2, <3>2, <4>1
    <3>4. status \in {"skipped", "failed", "succeeded"} /\ Settle(p, status)
      BY <2>4
    <3>5. binary' = [binary EXCEPT ![t] = b]
      BY <2>4 DEF Put
    <3>6. t # "plugin"
      <4>1. Ownership("plugin") = "none"
        BY DEF Ownership
      <4>2. Strategy("plugin", f.main) # "brew"
        BY <4>1 DEF Strategy, Owned, Product
      <4> QED BY <2>1, <4>2 DEF Turn
    <3> HIDE DEF b, status
    <3> QED BY <1>s, <2>1, <2>2, <3>1, <3>2, <3>3, <3>4, <3>5, <3>6, TurnEnds
  <2> QED BY <1>1, <2>3, <2>4 DEF BrewUpgrade
<1>2. CASE GoInstallMainUpgrade(p)
  <2>1. /\ Turn(p, "go-install-main")
        /\ UNCHANGED <<file, machine, binary, staged, released, assets, npm, commands>>
    BY <1>2 DEF GoInstallMainUpgrade
  <2>2. procs[p].todo # {} /\ t = Product /\ f.main
    BY <2>1, TurnTakes
  <2>3. PICK status \in {"succeeded", "failed"} : Settle(p, status)
    BY <1>2 DEF GoInstallMainUpgrade
  <2>4. ~Vouched(Entry(p, Hand(p), status))
    BY <2>2 DEF Vouched, Entry
  <2> QED BY <1>s, <2>1, <2>2, <2>3, <2>4, TurnFails
<1>3. CASE ScriptUpgrade(p)
  <2>1. Turn(p, "script") /\ UNCHANGED <<file, machine, staged, released, assets, npm, commands>>
    BY <1>3 DEF ScriptUpgrade
  <2>2. /\ procs[p].todo # {} /\ f.latest \in Nat /\ f.latest <= released[t]
        /\ binary[t].v \in Nat /\ released[t] \in Nat /\ t = "gga"
        /\ IF f.main THEN t = Product /\ binary[t].v <= released[t] ELSE binary[t].v < f.latest
    BY <2>1, TurnTakes
  <2>3. binary[t].v <= f.latest
    BY <2>2 DEF Product
  <2>4. CASE Settle(p, IF machine.windows THEN "skipped" ELSE "failed") /\ UNCHANGED binary
    <3> DEFINE status == IF machine.windows THEN "skipped" ELSE "failed"
    <3>1. status \in {"skipped", "failed", "succeeded"} /\ status # "succeeded" /\ Settle(p, status)
      BY <2>4
    <3> HIDE DEF status
    <3> QED BY <1>s, <2>1, <2>2, <2>4, <3>1, TurnFails
  <2>5. CASE Put("gga", Build(procs[p].found["gga"].latest, "release")) /\ Settle(p, "succeeded")
    <3> DEFINE b == Build(procs[p].found["gga"].latest, "release")
    <3>1. b \in Builds /\ b.v = f.latest /\ b.form = "release" /\ binary' = [binary EXCEPT ![t] = b]
      BY <2>2, <2>5, BuildType DEF Forms, Put
    <3>2. f.latest <= b.v /\ binary[t].v <= b.v /\ t # "plugin"
      BY <2>2, <2>3, <3>1
    <3> HIDE DEF b
    <3> QED BY <1>s, <2>1, <2>2, <2>5, <3>1, <3>2, TurnEnds
  <2> QED BY <1>3, <2>4, <2>5 DEF ScriptUpgrade
<1>4. CASE PluginUpgrade(p)
  <2>1. Turn(p, "plugin") /\ UNCHANGED <<file, machine, staged, released, assets, npm, commands>>
    BY <1>4 DEF PluginUpgrade
  <2>2. procs[p].todo # {} /\ t = "plugin" /\ binary[t].v \in Nat
    BY <2>1, TurnTakes
  <2>3. ASSUME NEW status \in {"failed", "skipped"}, Settle(p, status), UNCHANGED binary
        PROVE  UpgradeIInv' /\ KeepsReleases
    BY <1>s, <2>1, <2>2, <2>3, TurnFails
  <2>4. ASSUME Put("plugin", Build(npm, "release")),
               NEW status \in {"succeeded", "failed"}, Settle(p, status)
        PROVE  UpgradeIInv' /\ KeepsReleases
    <3> DEFINE b == Build(npm, "release")
    <3>1. npm \in Nat /\ binary[t].v <= npm
      BY <2>2 DEF UpgradeIInv, UpgradeTypeOK
    <3>2. b \in Builds /\ b.v = npm /\ b.form = "release" /\ binary' = [binary EXCEPT ![t] = b]
      BY <2>2, <2>4, <3>1, BuildType DEF Forms, Put
    <3>3. /\ status \in {"skipped", "failed", "succeeded"}
          /\ binary[t].v <= b.v /\ b.v <= npm
      BY <3>1, <3>2
    <3>4. ~Vouched(Entry(p, Hand(p), status))
      BY <2>2 DEF Vouched, Entry
    <3> HIDE DEF b
    <3> QED BY <1>s, <2>1, <2>2, <2>4, <3>2, <3>3, <3>4, TurnEnds
  <2> QED BY <1>4, <2>3, <2>4 DEF PluginUpgrade
<1> QED BY <1>1, <1>2, <1>3, <1>4

(* The program becomes g; by installs nothing.                             *)
LEMMA Becoming ==
    ASSUME UpgradeIInv, NEW p, Processes = {p}, NEW g \in Programs, Set(p, g),
           UNCHANGED <<machine, binary, released, npm>>,
           file' \in StateFiles, staged' \in Builds, commands' \in Nat, assets' \in BOOLEAN,
           \A r \in g.report : r \in procs[p].report \/ r.status # "succeeded",
           g.pc = "check" => g.by = binary[Product],
           g.pc \in {"offer", "execute"} =>
               \A t \in Are(g.found, Offered) :
                   /\ g.found[t].latest <= released[t]
                   /\ IF g.found[t].main
                      THEN t = Product /\ binary[t].v <= released[t]
                      ELSE binary[t].v < g.found[t].latest,
           g.todo = {} \/ (g.todo = procs[p].todo /\ g.found = procs[p].found)
             \/ \A t \in g.todo :
                   /\ t \in DOMAIN g.found
                   /\ g.found[t].latest <= released[t]
                   /\ IF g.found[t].main
                      THEN t = Product /\ binary[t].v <= released[t]
                      ELSE binary[t].v < g.found[t].latest,
           g.pc \in {"idle", "check", "offer", "execute"} => g.todo = {},
           Fetched(p)'
    PROVE  UpgradeIInv' /\ KeepsReleases
<1>1. procs' \in [Processes -> Programs] /\ procs'[p] = g
  BY DEF Set, UpgradeIInv, UpgradeTypeOK
<1>2. Promised(p, procs[p].todo)
  BY DEF UpgradeIInv, ProgramOK
<1>3. Promised(p, procs[p].todo)'
  BY <1>1, <1>2 DEF Promised
<1>4. ASSUME g.pc \in {"offer", "execute"} PROVE Promised(p, Are(procs[p].found, Offered))'
  BY <1>1, <1>4 DEF Promised, Are
<1>5. ProgramOK(p)'
  BY <1>1, <1>3, <1>4 DEF ProgramOK, In
<1> QED BY <1>1, <1>5, Moving

LEMMA Leaving ==
    ASSUME UpgradeIInv, NEW p, Processes = {p}, Leave(p), file' \in StateFiles,
           UNCHANGED <<machine, binary, staged, released, assets, npm, commands>>
    PROVE  UpgradeIInv' /\ KeepsReleases
<1>1. procs'[p] = NoProcess
  BY DEF Leave, Set, UpgradeIInv, UpgradeTypeOK
<1>2. Fetched(p)'
  BY <1>1, NoProgram DEF Fetched, In
<1>3. staged \in Builds /\ commands \in Nat /\ assets \in BOOLEAN
  BY DEF UpgradeIInv, UpgradeTypeOK
<1> QED BY <1>2, <1>3, NoProgram, Becoming DEF Leave

LEMMA MoveProgram ==
    ASSUME UpgradeIInv, NEW p \in Processes, NEW pc \in {"dispatch", "execute", "extract", "replace"}
    PROVE  LET g == [procs[p] EXCEPT !.pc = pc] IN
           /\ g \in Programs /\ g.pc = pc /\ g.todo = procs[p].todo /\ g.found = procs[p].found
           /\ g.report = procs[p].report /\ g.got = procs[p].got /\ g.where = procs[p].where
BY DEF UpgradeIInv, UpgradeTypeOK, Programs

LEMMA Dispatching ==
    ASSUME UpgradeIInv, NEW p, Processes = {p}, Move(p, "dispatch"), file' \in StateFiles,
           UNCHANGED <<machine, binary, staged, released, assets, npm, commands>>
    PROVE  UpgradeIInv' /\ KeepsReleases
<1> DEFINE g == [procs[p] EXCEPT !.pc = "dispatch"]
<1>1. /\ g \in Programs /\ g.pc = "dispatch" /\ g.todo = procs[p].todo /\ g.found = procs[p].found
      /\ g.report = procs[p].report
  BY MoveProgram
<1>2. Set(p, g)
  BY DEF Move
<1> HIDE DEF g
<1>3. procs'[p] = g
  BY <1>2 DEF Set, UpgradeIInv, UpgradeTypeOK
<1>4. Fetched(p)'
  BY <1>1, <1>3 DEF Fetched, In
<1>5. staged \in Builds /\ commands \in Nat /\ assets \in BOOLEAN
  BY DEF UpgradeIInv, UpgradeTypeOK
<1> QED BY <1>1, <1>2, <1>4, <1>5, Becoming

LEMMA RecordedFile ==
    ASSUME UpgradeIInv
    PROVE  /\ \A found : Record(found) => file' \in StateFiles
           /\ file # Corrupt => [Held(file) EXCEPT !.pending = TRUE] \in StateFiles
<1>1. file # Corrupt => Held(file) \in InstallState
  BY StateValues DEF Held, UpgradeIInv, UpgradeTypeOK, StateFiles
<1>2. file # Corrupt => /\ [Held(file) EXCEPT !.recent = TRUE] \in StateFiles
                        /\ [Held(file) EXCEPT !.pending = TRUE] \in StateFiles
  BY <1>1 DEF InstallState, StateFiles
<1> QED BY <1>2 DEF Record, Write, UpgradeIInv, UpgradeTypeOK

(* A command begins, checks, asks and draws up what to upgrade.            *)
LEMMA CheckKeeps ==
    ASSUME UpgradeIInv, NEW p, Processes = {p},
           \/ \E op \in {"self", "tui", "upgrade"} : StartCommand(p, op)
           \/ \E targets \in SUBSET Tools : CheckForUpgrade(p, targets)
           \/ CheckWithCooldown(p) \/ Answer(p) \/ Execute(p) \/ Report(p) \/ Dispatch(p) \/ Killed(p)
    PROVE  UpgradeIInv' /\ KeepsReleases
<1>0. /\ file \in StateFiles /\ staged \in Builds /\ commands \in Nat /\ assets \in BOOLEAN
      /\ procs[p] \in Programs /\ binary \in [Tools -> Builds] /\ procs \in [Processes -> Programs]
  BY DEF UpgradeIInv, UpgradeTypeOK
<1>a. ASSUME NEW op, StartCommand(p, op), op \in {"self", "tui", "upgrade"} PROVE UpgradeIInv' /\ KeepsReleases
  <2> DEFINE g == [NoProcess EXCEPT !.pc = "check", !.op = op, !.by = binary[Product]]
  <2>1. Product \in Tools
    BY ToolNames
  <2>2. /\ g \in Programs /\ g.pc = "check" /\ g.by = binary[Product] /\ g.todo = {} /\ g.report = {}
    BY <1>0, <1>a, <2>1, NoProgram DEF Programs
  <2>3. Set(p, g)
    BY <1>a DEF StartCommand
  <2> HIDE DEF g
  <2>4. procs'[p] = g
    BY <1>0, <2>3 DEF Set
  <2>5. Fetched(p)'
    BY <2>2, <2>4 DEF Fetched, In
  <2>6. file' = file /\ staged' = staged /\ assets' = assets /\ commands' \in Nat
        /\ UNCHANGED <<machine, binary, released, npm>>
    BY <1>0, <1>a DEF StartCommand
  <2> QED BY <1>0, <2>2, <2>3, <2>5, <2>6, Becoming
<1>c. ASSUME NEW targets \in SUBSET Tools, NEW lost, NEW pc \in {"offer", "execute"}, In(p, "check"),
             Set(p, [procs[p] EXCEPT !.pc = pc,
                                     !.found = CheckFiltered(targets, procs[p].by, lost)]),
             file' \in StateFiles,
             UNCHANGED <<machine, binary, staged, released, assets, npm, commands>>
      PROVE  UpgradeIInv' /\ KeepsReleases
  <2> DEFINE found == CheckFiltered(targets, binary[Product], lost)
             g == [procs[p] EXCEPT !.pc = pc, !.found = found]
  <2>0. procs[p].by = binary[Product]
    BY <1>c DEF UpgradeIInv, ProgramOK
  <2>1. /\ found \in UNION {[ts -> Findings] : ts \in SUBSET Tools}
        /\ \A t \in Are(found, Offered) :
              /\ t \in targets /\ found[t].latest <= released[t]
              /\ IF found[t].main
                 THEN t = Product /\ binary[t].v <= released[t]
                 ELSE binary[t].v < found[t].latest
    BY CheckPromises
  <2>2. Set(p, g)
    BY <1>c, <2>0
  <2> HIDE DEF found
  <2>3. /\ g \in Programs /\ g.pc = pc /\ g.found = found /\ g.report = procs[p].report
        /\ g.todo = procs[p].todo
    BY <1>0, <2>1 DEF Programs
  <2> HIDE DEF g
  <2>4. procs'[p] = g
    BY <1>0, <2>2 DEF Set
  <2>5. Fetched(p)'
    BY <2>3, <2>4 DEF Fetched, In
  <2>6. procs[p].todo = {}
    BY <1>c DEF UpgradeIInv, ProgramOK, In
  <2>7. \A t \in Are(g.found, Offered) :
            /\ g.found[t].latest <= released[t]
            /\ IF g.found[t].main
               THEN t = Product /\ binary[t].v <= released[t]
               ELSE binary[t].v < g.found[t].latest
    BY <2>1, <2>3
  <2> QED BY <1>0, <1>c, <2>2, <2>3, <2>5, <2>6, <2>7, Becoming
<1>1. CASE \E op \in {"self", "tui", "upgrade"} : StartCommand(p, op)
  BY <1>1, <1>a
<1>2. ASSUME NEW targets \in SUBSET Tools, CheckForUpgrade(p, targets) PROVE UpgradeIInv' /\ KeepsReleases
  <2>1. CASE Leave(p)
    BY <1>0, <1>2, <2>1, Leaving DEF CheckForUpgrade
  <2>2. ASSUME NEW lost, Set(p, [procs[p] EXCEPT !.pc = "execute",
                                                 !.found = CheckFiltered(targets, procs[p].by, lost)])
        PROVE  UpgradeIInv' /\ KeepsReleases
    BY <1>0, <1>2, <1>c, <2>2 DEF CheckForUpgrade
  <2> QED BY <1>2, <2>1, <2>2 DEF CheckForUpgrade
<1>3. CASE CheckWithCooldown(p)
  <2>1. CASE Move(p, "dispatch") /\ UNCHANGED file
    BY <1>0, <1>3, <2>1, Dispatching DEF CheckWithCooldown
  <2>2. ASSUME NEW lost, NEW targets \in SUBSET Tools, Record(CheckFiltered(targets, procs[p].by, lost)),
               Set(p, [procs[p] EXCEPT !.pc = "offer",
                                       !.found = CheckFiltered(targets, procs[p].by, lost)])
        PROVE  UpgradeIInv' /\ KeepsReleases
    <3>1. file' \in StateFiles
      BY <2>2, RecordedFile
    <3> QED BY <1>3, <1>c, <2>2, <3>1 DEF CheckWithCooldown
  <2>3. (IF procs[p].op = "self" THEN {Product} ELSE Tools) \in SUBSET Tools
    BY ToolNames
  <2> QED BY <1>3, <2>1, <2>2, <2>3 DEF CheckWithCooldown
<1>4. CASE Answer(p)
  <2>1. CASE Move(p, "dispatch")
    BY <1>0, <1>4, <2>1, Dispatching DEF Answer
  <2>2. CASE Move(p, "execute")
    <3> DEFINE g == [procs[p] EXCEPT !.pc = "execute"]
    <3>1. /\ g \in Programs /\ g.pc = "execute" /\ g.todo = procs[p].todo /\ g.found = procs[p].found
          /\ g.report = procs[p].report
      BY MoveProgram
    <3>2. Set(p, g)
      BY <2>2 DEF Move
    <3> HIDE DEF g
    <3>3. procs'[p] = g
      BY <1>0, <3>2 DEF Set
    <3>4. Fetched(p)'
      BY <3>1, <3>3 DEF Fetched, In
    <3>5. Promised(p, Are(procs[p].found, Offered)) /\ procs[p].todo = {}
      BY <1>4 DEF Answer, In, UpgradeIInv, ProgramOK
    <3>6. \A t \in Are(g.found, Offered) :
              /\ g.found[t].latest <= released[t]
              /\ IF g.found[t].main
                 THEN t = Product /\ binary[t].v <= released[t]
                 ELSE binary[t].v < g.found[t].latest
      BY <3>1, <3>5 DEF Promised
    <3>7. UNCHANGED <<file, machine, binary, staged, released, assets, npm, commands>>
      BY <1>4 DEF Answer
    <3> QED BY <1>0, <3>1, <3>2, <3>4, <3>5, <3>6, <3>7, Becoming
  <2> QED BY <1>4, <2>1, <2>2 DEF Answer
<1>5. CASE Execute(p)
  <2> DEFINE found == procs[p].found
             hinted == Are(found, {"dev-build", "version-unknown"})
             todo == Are(found, {"update-available", "registered-not-materialized"})
  <2>1. PICK dryRun \in BOOLEAN :
           Set(p, [procs[p] EXCEPT
               !.pc = "next",
               !.todo = IF dryRun THEN {} ELSE todo,
               !.report = {Entry(p, t, "skipped") : t \in hinted \cup IF dryRun THEN todo ELSE {}}])
    BY <1>5 DEF Execute
  <2> DEFINE ts == hinted \cup IF dryRun THEN todo ELSE {}
             report == {Entry(p, t, "skipped") : t \in ts}
             left == IF dryRun THEN {} ELSE todo
             g == [procs[p] EXCEPT !.pc = "next", !.todo = left, !.report = report]
  <2>2. Set(p, g)
    BY <2>1
  <2>3. PICK ds \in SUBSET Tools : found \in [ds -> Findings]
    BY <1>0 DEF Programs
  <2>4. ts \subseteq ds /\ left \subseteq ds /\ left \subseteq Are(found, Offered)
    BY <2>3 DEF Are, Offered
  <2>5. ASSUME NEW t \in ts
        PROVE  /\ Entry(p, t, "skipped") \in Results
               /\ Entry(p, t, "skipped").status # "succeeded"
    <3>1. found[t].latest \in Nat /\ found[t].main \in BOOLEAN /\ t \in Tools
      BY <2>3, <2>4, <2>5 DEF Findings
    <3> QED BY <3>1 DEF Entry, Results
  <2> HIDE DEF ts
  <2>6. /\ report \subseteq Results
        /\ \A r \in report : r.status # "succeeded"
    BY <2>5
  <2> HIDE DEF report, left
  <2>7. /\ g \in Programs /\ g.pc = "next" /\ g.todo = left /\ g.found = found /\ g.report = report
    BY <1>0, <2>3, <2>4, <2>6 DEF Programs
  <2> HIDE DEF g
  <2>8. procs'[p] = g
    BY <1>0, <2>2 DEF Set
  <2>9. Fetched(p)'
    BY <2>7, <2>8 DEF Fetched, In
  <2>10. Promised(p, Are(found, Offered))
    BY <1>5 DEF Execute, In, UpgradeIInv, ProgramOK
  <2>11. \A t \in g.todo :
            /\ t \in DOMAIN g.found
            /\ g.found[t].latest <= released[t]
            /\ IF g.found[t].main
               THEN t = Product /\ binary[t].v <= released[t]
               ELSE binary[t].v < g.found[t].latest
    BY <2>4, <2>7, <2>10 DEF Promised
  <2> QED BY <1>0, <1>5, <2>2, <2>6, <2>7, <2>9, <2>11, Becoming DEF Execute
<1>6. CASE Report(p)
  <2>1. file' \in StateFiles
    BY <1>0, <1>6, RecordedFile DEF Report, Write
  <2> QED BY <1>6, <2>1, Dispatching DEF Report
<1>7. CASE Dispatch(p)
  <2>1. file' \in StateFiles
    BY <1>0, <1>7, StateValues DEF Dispatch, Write
  <2> QED BY <1>7, <2>1, Leaving DEF Dispatch
<1>8. CASE Killed(p)
  BY <1>0, <1>8, Leaving DEF Killed
<1> QED BY <1>1, <1>2, <1>3, <1>4, <1>5, <1>6, <1>7, <1>8

(* Engram's downloader, and the archive of the program itself.             *)
LEMMA FetchKeeps ==
    ASSUME UpgradeIInv, NEW p, Processes = {p},
           FetchEngram(p) \/ PlaceEngram(p) \/ Download(p) \/ VerifyChecksum(p) \/ Extract(p)
             \/ ExtractEnds(p) \/ ExtractFails(p) \/ AtomicReplace(p) \/ InstallerUpgrade(p)
    PROVE  UpgradeIInv' /\ KeepsReleases
<1>0. /\ file \in StateFiles /\ staged \in Builds /\ commands \in Nat /\ assets \in BOOLEAN
      /\ procs[p] \in Programs /\ procs \in [Processes -> Programs] /\ Fetched(p)
      /\ binary \in [Tools -> Builds] /\ released \in [Tools -> Nat \ {0}]
      /\ npm \in Nat
  BY DEF UpgradeIInv, UpgradeTypeOK, ProgramOK
<1>f. ASSUME procs[p].todo # {}, Settle(p, "failed"), UNCHANGED <<machine, binary, released, npm, file, assets, commands>>,
             staged' \in Builds
      PROVE  UpgradeIInv' /\ KeepsReleases
  BY <1>f, TurnFails
\* A step that only goes on to another, with what it has fetched.
<1>g. ASSUME NEW g \in Programs, Set(p, g), g.todo = procs[p].todo, g.found = procs[p].found,
             g.report = procs[p].report, g.pc \in {"place", "verify", "extract", "extracting", "replace"},
             UNCHANGED <<file, machine, binary, released, assets, npm, commands>>,
             staged' \in Builds, Fetched(p)'
      PROVE  UpgradeIInv' /\ KeepsReleases
  BY <1>0, <1>g, Becoming
<1>1. CASE FetchEngram(p)
  <2>1. /\ Turn(p, "engram")
        /\ UNCHANGED <<file, machine, binary, staged, released, assets, npm, commands>>
    BY <1>1 DEF FetchEngram
  <2>2. /\ procs[p].todo # {} /\ Hand(p) = "engram" /\ ~Owned("engram")
        /\ binary["engram"].v \in Nat /\ released["engram"] \in Nat /\ released["engram"] >= 1
        /\ binary["engram"].v < released["engram"]
    <3>1. "engram" # Product
      BY DEF Product
    <3> QED BY <2>1, <3>1, TurnTakes
  <2>3. ASSUME NEW form \in {"dev", "release"},
               Set(p, [procs[p] EXCEPT !.pc = "place", !.got = Build(FetchLatestEngramVersion, form)])
        PROVE  UpgradeIInv' /\ KeepsReleases
    <3> DEFINE b == Build(FetchLatestEngramVersion, form)
               g == [procs[p] EXCEPT !.pc = "place", !.got = b]
    <3>1. FetchLatestEngramVersion \in Nat /\ binary["engram"].v <= FetchLatestEngramVersion
      BY <2>2 DEF FetchLatestEngramVersion
    <3>2. /\ b \in Builds /\ b.form \in {"release", "dev"}
          /\ binary["engram"].v <= b.v
      BY <3>1, BuildType DEF Forms
    <3>3. Set(p, g)
      BY <2>3
    <3> HIDE DEF b
    <3>4. /\ g \in Programs /\ g.pc = "place" /\ g.todo = procs[p].todo /\ g.found = procs[p].found
          /\ g.report = procs[p].report /\ g.got = b
      BY <1>0, <3>2 DEF Programs
    <3> HIDE DEF g
    <3>5. procs'[p] = g
      BY <1>0, <3>3 DEF Set
    <3>6. Hand(p)' = "engram" /\ ~Owned("engram")'
      BY <2>1, <2>2, <3>4, <3>5 DEF Hand, Owned, Ownership
    <3>7. Fetched(p)'
      BY <2>1, <2>2, <3>2, <3>4, <3>5, <3>6 DEF Fetched, In
    <3> QED BY <1>0, <1>g, <2>1, <3>3, <3>4, <3>7
  <2> QED BY <1>0, <1>1, <1>f, <2>1, <2>2, <2>3 DEF FetchEngram
<1>2. CASE PlaceEngram(p)
  <2>1. UNCHANGED <<file, machine, staged, released, assets, npm, commands>>
    BY <1>2 DEF PlaceEngram
  <2>2. /\ procs[p].todo # {} /\ Hand(p) = "engram" /\ ~Owned("engram")
        /\ procs[p].got.form \in {"release", "dev"} /\ binary["engram"].v <= procs[p].got.v
    BY <1>0, <1>2 DEF PlaceEngram, Fetched, In
  <2>3. ~Vouched(Entry(p, Hand(p), "succeeded"))
    BY <2>2 DEF Vouched, Owned, Entry, Product
  <2>4. CASE Settle(p, "succeeded") /\ UNCHANGED binary
    BY <1>0, <2>1, <2>2, <2>3, <2>4, TurnFails
  <2>5. CASE Settle(p, "succeeded") /\ Put("engram", procs[p].got)
    <3> DEFINE b == procs[p].got
               g == Settled(p, "succeeded")
    <3>1. /\ g \in Programs /\ g.pc = "next" /\ g.todo = procs[p].todo \ {Hand(p)}
          /\ g.found = procs[p].found
          /\ g.report = procs[p].report \cup {Entry(p, Hand(p), "succeeded")}
          /\ Hand(p) \in Tools
      BY <2>2, SettledProgram
    <3>2. Set(p, g)
      BY <2>5 DEF Settle
    <3> HIDE DEF g
    <3>3. procs' \in [Processes -> Programs] /\ procs'[p] = g
      BY <1>0, <3>1, <3>2 DEF Set
    <3>4. b \in Builds /\ binary' = [binary EXCEPT ![Hand(p)] = b]
      BY <1>0, <2>2, <2>5 DEF Put, Programs
    <3> HIDE DEF b
    <3>5. b.form \in {"release", "dev"} /\ binary[Hand(p)].v <= b.v /\ Hand(p) # "plugin"
      BY <2>2 DEF b
    <3> QED BY <1>0, <2>1, <2>2, <2>3, <3>1, <3>3, <3>4, <3>5, Settling
  <2> QED BY <1>0, <1>2, <1>f, <2>1, <2>2, <2>4, <2>5 DEF PlaceEngram
<1>3. CASE Download(p)
  <2>1. /\ Turn(p, "binary")
        /\ UNCHANGED <<file, machine, binary, staged, released, assets, npm, commands>>
    BY <1>3 DEF Download
  <2>2. /\ procs[p].todo # {} /\ Hand(p) = Product /\ ~procs[p].found[Product].main
        /\ procs[p].found[Product].latest \in Nat
    BY <2>1, TurnTakes
  <2>3. ASSUME NEW form \in {"release", "torn"},
               Set(p, [procs[p] EXCEPT !.pc = "verify",
                           !.got = Build(procs[p].found[Product].latest, form)])
        PROVE  UpgradeIInv' /\ KeepsReleases
    <3> DEFINE b == Build(procs[p].found[Product].latest, form)
               g == [procs[p] EXCEPT !.pc = "verify", !.got = b]
    <3>1. b \in Builds /\ b.v = procs[p].found[Product].latest
      BY <2>2, BuildType DEF Forms
    <3>2. Set(p, g)
      BY <2>3
    <3> HIDE DEF b
    <3>3. /\ g \in Programs /\ g.pc = "verify" /\ g.todo = procs[p].todo /\ g.found = procs[p].found
          /\ g.report = procs[p].report /\ g.got = b
      BY <1>0, <3>1 DEF Programs
    <3> HIDE DEF g
    <3>4. procs'[p] = g
      BY <1>0, <3>2 DEF Set
    <3>5. Hand(p)' = Product
      BY <2>2, <3>3, <3>4 DEF Hand
    <3>6. Fetched(p)'
      BY <2>2, <3>1, <3>3, <3>4, <3>5 DEF Fetched, In
    <3> QED BY <1>0, <1>g, <2>1, <3>2, <3>3, <3>6
  <2> QED BY <1>0, <1>3, <1>f, <2>1, <2>2, <2>3 DEF Download
<1>t. ASSUME procs[p].pc \in {"verify", "extract", "extracting", "replace"}
      PROVE  /\ procs[p].todo # {} /\ Hand(p) = Product /\ ~procs[p].found[Product].main
             /\ procs[p].got.v = procs[p].found[Product].latest
             /\ ~In(p, "place")
  BY <1>0, <1>t DEF Fetched, In
\* The same of the state after a step that keeps the tool in hand.
<1>u. ASSUME procs[p].pc \in {"verify", "extract", "extracting", "replace"}, NEW g,
             procs'[p] = g, g.todo = procs[p].todo, g.found = procs[p].found, g.got = procs[p].got,
             g.pc \in {"extract", "extracting", "replace"}, procs[p].got.form = "release",
             g.pc = "extracting" => g.where = "new", g.pc = "replace" => staged' = g.got
      PROVE  Fetched(p)'
  <2>1. Hand(p)' = Product
    BY <1>t, <1>u DEF Hand
  <2> QED BY <1>t, <1>u, <2>1 DEF Fetched, In
<1>4. CASE VerifyChecksum(p)
  <2>1. /\ procs[p].pc = "verify"
        /\ UNCHANGED <<file, machine, binary, staged, released, assets, npm, commands>>
    BY <1>4 DEF VerifyChecksum, In
  <2>2. CASE procs[p].got.form = "release" /\ Move(p, "extract")
    <3> DEFINE g == [procs[p] EXCEPT !.pc = "extract"]
    <3>1. /\ g \in Programs /\ g.pc = "extract" /\ g.todo = procs[p].todo /\ g.found = procs[p].found
          /\ g.report = procs[p].report /\ g.got = procs[p].got
      BY MoveProgram
    <3>2. Set(p, g)
      BY <2>2 DEF Move
    <3> HIDE DEF g
    <3>3. procs'[p] = g
      BY <1>0, <3>2 DEF Set
    <3>4. Fetched(p)'
      BY <1>u, <2>1, <2>2, <3>1, <3>3
    <3> QED BY <1>0, <1>g, <2>1, <3>1, <3>2, <3>4
  <2> QED BY <1>0, <1>4, <1>f, <1>t, <2>1, <2>2 DEF VerifyChecksum
<1>5. CASE Extract(p)
  <2> DEFINE g == [procs[p] EXCEPT !.pc = "extracting", !.where = "new"]
  <2>1. /\ procs[p].pc = "extract" /\ procs[p].got.form = "release"
        /\ UNCHANGED <<file, machine, binary, released, assets, npm, commands>>
    BY <1>0, <1>5 DEF Extract, In, Fetched
  <2>2. Set(p, g)
    BY <1>5 DEF Extract
  <2>3. /\ g \in Programs /\ g.pc = "extracting" /\ g.where = "new" /\ g.todo = procs[p].todo
        /\ g.found = procs[p].found /\ g.report = procs[p].report /\ g.got = procs[p].got
    BY <1>0 DEF Programs
  <2> HIDE DEF g
  <2>4. procs'[p] = g
    BY <1>0, <2>2 DEF Set
  <2>5. staged' \in Builds
    BY <1>0, <1>5, BuildType DEF Extract, Programs, Builds, Forms, Build
  <2>6. Fetched(p)'
    BY <1>u, <2>1, <2>3, <2>4
  <2> QED BY <1>0, <1>g, <2>1, <2>2, <2>3, <2>5, <2>6
<1>6. CASE ExtractEnds(p)
  <2> DEFINE g == [procs[p] EXCEPT !.pc = "replace"]
  <2>1. /\ procs[p].pc = "extracting" /\ procs[p].got.form = "release" /\ procs[p].where = "new"
        /\ UNCHANGED <<file, machine, binary, released, assets, npm, commands>>
    BY <1>0, <1>6 DEF ExtractEnds, In, Fetched
  <2>2. /\ g \in Programs /\ g.pc = "replace" /\ g.todo = procs[p].todo /\ g.found = procs[p].found
        /\ g.report = procs[p].report /\ g.got = procs[p].got
    BY MoveProgram
  <2>3. Set(p, g)
    BY <1>6 DEF ExtractEnds, Move
  <2>4. staged' = procs[p].got
    BY <1>6, <2>1 DEF ExtractEnds, Extracted, Shared
  <2> HIDE DEF g
  <2>5. procs'[p] = g
    BY <1>0, <2>3 DEF Set
  <2>6. staged' \in Builds
    BY <1>0, <2>4 DEF Programs
  <2>7. Fetched(p)'
    BY <1>u, <2>1, <2>2, <2>4, <2>5
  <2> QED BY <1>0, <1>g, <2>1, <2>2, <2>3, <2>6, <2>7
<1>7. CASE ExtractFails(p)
  <2>1. procs[p].pc = "extracting" /\ Settle(p, "failed") /\ staged' \in Builds
    BY <1>7, NoProgram DEF ExtractFails, In
  <2> QED BY <1>7, <1>f, <1>t, <2>1 DEF ExtractFails
<1>8. CASE AtomicReplace(p)
  <2>1. /\ procs[p].pc = "replace" /\ procs[p].got.form = "release" /\ staged = procs[p].got
        /\ UNCHANGED <<file, machine, released, assets, npm, commands>> /\ staged' \in Builds
    BY <1>0, <1>8, NoProgram DEF AtomicReplace, In, Fetched
  <2>2. CASE Settle(p, "failed") /\ UNCHANGED binary
    BY <1>f, <1>t, <2>1, <2>2
  <2>3. CASE /\ Put(Product, staged)
             /\ procs' = [q \in Processes |->
                   IF q = p THEN Settled(p, "succeeded")
                   ELSE IF In(q, "extracting") THEN [procs[q] EXCEPT !.where = Moved(@)]
                   ELSE procs[q]]
    <3> DEFINE g == Settled(p, "succeeded")
    <3>1. /\ g \in Programs /\ g.pc = "next" /\ g.todo = procs[p].todo \ {Hand(p)}
          /\ g.found = procs[p].found
          /\ g.report = procs[p].report \cup {Entry(p, Hand(p), "succeeded")}
          /\ Hand(p) \in procs[p].todo /\ Hand(p) \in Tools
      BY <1>t, <2>1, SettledProgram
    <3>2. procs' = [q \in Processes |-> IF q = p THEN g
                                       ELSE IF In(q, "extracting") THEN [procs[q] EXCEPT !.where = Moved(@)]
                                       ELSE procs[q]]
      BY <2>3
    <3> HIDE DEF g
    <3>3. procs' \in [Processes -> Programs] /\ procs'[p] = g
      BY <3>1, <3>2
    <3>4. Promised(p, procs[p].todo)
      BY DEF UpgradeIInv, ProgramOK
    <3>5. /\ binary[Product].v < procs[p].found[Product].latest
          /\ procs[p].found[Product].latest <= released[Product]
      BY <1>t, <2>1, <3>1, <3>4 DEF Promised
    <3>6. staged.v = procs[p].found[Product].latest /\ staged.form = "release"
          /\ staged.v \in Nat /\ binary[Product].v \in Nat /\ released[Product] \in Nat
      BY <1>0, <1>t, <2>1, ToolNames DEF Builds
    <3>7. binary' = [binary EXCEPT ![Hand(p)] = staged] /\ binary'[Product] = staged
      BY <1>0, <1>t, <2>1, <2>3, ToolNames DEF Put
    <3>8. Hand(p) # "plugin"
      BY <1>t, <2>1 DEF Product
    <3>9. binary[Hand(p)].v <= staged.v /\ procs[p].found[Hand(p)].latest <= staged.v
      BY <1>t, <2>1, <3>5, <3>6
    <3> QED BY <1>0, <1>t, <2>1, <3>1, <3>3, <3>6, <3>7, <3>8, <3>9, Settling
  <2> QED BY <1>8, <2>2, <2>3 DEF AtomicReplace
<1>9. CASE InstallerUpgrade(p)
  <2>1. /\ Turn(p, "installer")
        /\ UNCHANGED <<file, machine, binary, staged, released, assets, npm, commands>>
    BY <1>9 DEF InstallerUpgrade
  <2>2. /\ procs[p].todo # {} /\ Hand(p) = Product /\ machine.windows
        /\ binary[Product].v <= released[Product]
    BY <2>1, TurnTakes
  <2>3. CASE Settle(p, "failed")
    BY <1>0, <1>f, <2>1, <2>2, <2>3
  <2>4. CASE Set(p, [Settled(p, "succeeded") EXCEPT !.todo = {}])
    <3> DEFINE h == Settled(p, "succeeded")
               g == [h EXCEPT !.todo = {}]
    <3>1. /\ h \in Programs /\ h.pc = "next" /\ h.found = procs[p].found
          /\ h.report = procs[p].report \cup {Entry(p, Hand(p), "succeeded")}
          /\ Hand(p) \in Tools
      BY <2>2, SettledProgram
    <3>2. Set(p, g)
      BY <2>4
    <3> HIDE DEF h
    <3>3. /\ g \in Programs /\ g.pc = "next" /\ g.todo = {} /\ g.found = procs[p].found
          /\ g.report = procs[p].report \cup {Entry(p, Hand(p), "succeeded")}
      BY <3>1 DEF Programs
    <3> HIDE DEF g
    <3>4. procs' \in [Processes -> Programs] /\ procs'[p] = g
      BY <1>0, <3>2, <3>3 DEF Set
    <3>5. /\ binary[Hand(p)] \in Builds
          /\ binary' = [binary EXCEPT ![Hand(p)] = binary[Hand(p)]] /\ binary' = binary
      BY <1>0, <2>1, <3>1
    <3>6. ~Vouched(Entry(p, Hand(p), "succeeded"))
      BY <2>2 DEF Vouched, Entry
    <3> QED BY <1>0, <2>1, <2>2, <2>4, <3>3, <3>4, <3>5, <3>6, Settling
  <2> QED BY <1>9, <2>3, <2>4 DEF InstallerUpgrade
<1> QED BY <1>1, <1>2, <1>3, <1>4, <1>5, <1>6, <1>7, <1>8, <1>9

(* The remote and npm publish, and the cooldown ends.                      *)
LEMMA WorldKeeps ==
    ASSUME UpgradeIInv, NEW p, Processes = {p},
           CooldownEnds \/ UploadAssets \/ PublishPackage \/ \E t \in Tools : Publish(t)
    PROVE  UpgradeIInv' /\ KeepsReleases
<1>0. /\ file \in StateFiles /\ assets \in BOOLEAN /\ npm \in Nat
      /\ binary \in [Tools -> Builds] /\ released \in [Tools -> Nat \ {0}]
      /\ ProgramOK(p) /\ procs[p] \in Programs
  BY DEF UpgradeIInv, UpgradeTypeOK
<1>1. CASE PublishPackage
  <2>1. /\ npm' = npm + 1
        /\ UNCHANGED <<file, machine, binary, staged, released, assets, procs, commands>>
    BY <1>1 DEF PublishPackage
  <2>2. UpgradeTypeOK' /\ \A t \in Tools : Sane(t)'
    BY <1>0, <2>1 DEF UpgradeIInv, UpgradeTypeOK, Sane
  <2>3. SuccessIsInstalled'
    BY <2>1 DEF UpgradeIInv, SuccessIsInstalled, Vouched, Ownership
  <2>4. ProgramOK(p)'
    BY <1>0, <2>1 DEF ProgramOK, Promised, Fetched, In, Hand, Owned, Ownership
  <2>5. KeepsReleases
    BY <1>0, <2>1 DEF KeepsReleases, Builds
  <2>6. binary'["plugin"].v <= npm'
    <3>1. binary["plugin"].v <= npm /\ binary["plugin"].v \in Nat
      BY <1>0, ToolNames DEF UpgradeIInv, Builds
    <3> QED BY <1>0, <2>1, <3>1
  <2> QED BY <2>2, <2>3, <2>4, <2>5, <2>6 DEF UpgradeIInv
<1>2. CASE CooldownEnds \/ UploadAssets
  <2>1. file' \in StateFiles /\ assets' \in BOOLEAN
    BY <1>0, <1>2 DEF CooldownEnds, UploadAssets, Write, Readable, InstallState, StateFiles
  <2>2. UNCHANGED <<machine, binary, staged, released, npm, procs, commands>>
    BY <1>2 DEF CooldownEnds, UploadAssets
  <2>3. UpgradeTypeOK' /\ \A t \in Tools : Sane(t)'
    BY <2>1, <2>2 DEF UpgradeIInv, UpgradeTypeOK, Sane
  <2>4. SuccessIsInstalled'
    BY <2>2 DEF UpgradeIInv, SuccessIsInstalled, Vouched, Ownership
  <2>5. ProgramOK(p)'
    BY <1>0, <2>2 DEF ProgramOK, Promised, Fetched, In, Hand, Owned, Ownership
  <2>6. KeepsReleases
    BY <1>0, <2>2 DEF KeepsReleases, Builds
  <2> QED BY <2>2, <2>3, <2>4, <2>5, <2>6 DEF UpgradeIInv
<1>3. ASSUME NEW u \in Tools, Publish(u) PROVE UpgradeIInv' /\ KeepsReleases
  <2>1. /\ released' = [released EXCEPT ![u] = released[u] + 1] /\ assets' \in BOOLEAN
        /\ UNCHANGED <<file, machine, binary, staged, npm, procs, commands>>
    BY <1>0, <1>3 DEF Publish
  <2>2. /\ released' \in [Tools -> Nat \ {0}]
        /\ \A t \in Tools : released[t] <= released'[t] /\ released[t] \in Nat /\ released'[t] \in Nat
        /\ \A t \in Tools : binary[t].v \in Nat
    BY <1>0, <2>1 DEF Builds
  <2>3. UpgradeTypeOK'
    BY <2>1, <2>2 DEF UpgradeIInv, UpgradeTypeOK
  <2>4. ASSUME NEW t \in Tools PROVE Sane(t)'
    <3>1. Sane(t)
      BY DEF UpgradeIInv
    <3> QED BY <2>1, <2>2, <3>1 DEF Sane
  <2>5. SuccessIsInstalled'
    BY <2>1 DEF UpgradeIInv, SuccessIsInstalled, Vouched, Ownership
  <2>6. binary'["plugin"].v <= npm'
    BY <2>1 DEF UpgradeIInv
  <2>7. ASSUME NEW ts, Promised(p, ts), ts \subseteq DOMAIN procs[p].found
        PROVE  \A t \in ts :
                  /\ t \in DOMAIN procs[p].found
                  /\ procs[p].found[t].latest <= released'[t]
                  /\ IF procs[p].found[t].main
                     THEN t = Product /\ binary[t].v <= released'[t]
                     ELSE binary[t].v < procs[p].found[t].latest
    <3>1. PICK ds \in SUBSET Tools : procs[p].found \in [ds -> Findings]
      BY <1>0 DEF Programs
    <3>2. ASSUME NEW t \in ts PROVE t \in Tools /\ procs[p].found[t].latest \in Nat
      BY <2>7, <3>1, <3>2 DEF Findings
    <3> QED BY <2>2, <2>7, <3>2 DEF Promised
  <2>8. /\ Promised(p, procs[p].todo)'
        /\ procs[p].pc \in {"offer", "execute"} => Promised(p, Are(procs[p].found, Offered))'
    <3>1. ASSUME NEW ts, Promised(p, ts) PROVE ts \subseteq DOMAIN procs[p].found
      BY <3>1 DEF Promised
    <3> QED BY <1>0, <2>1, <2>7, <3>1 DEF Promised, ProgramOK
  <2>9. ProgramOK(p)'
    BY <1>0, <2>1, <2>8 DEF ProgramOK, Fetched, In, Hand, Owned, Ownership
  <2>10. KeepsReleases
    BY <2>1, <2>2 DEF KeepsReleases
  <2> QED BY <2>1, <2>3, <2>4, <2>5, <2>6, <2>9, <2>10 DEF UpgradeIInv
<1> QED BY <1>1, <1>2, <1>3

---------------------------------------------------------------------------
(* The programs: the theorems. *)

LEMMA UpgradeStarts == UpgradeInit => UpgradeIInv
<1> SUFFICES ASSUME UpgradeInit PROVE UpgradeIInv
  OBVIOUS
<1>1. /\ machine \in Computers /\ binary = machine.tools
      /\ released \in [Tools -> Nat \ {0}] /\ \A t \in Tools : released[t] = 1
  BY UpgradesAssumption DEF UpgradeInit
<1>2. binary \in [Tools -> Builds] /\ \A t \in Tools : Whole(binary[t])
  BY <1>1 DEF Computers
<1>3. procs \in [Processes -> Programs] /\ \A p \in Processes : procs[p] = NoProcess
  BY NoProgram DEF UpgradeInit
<1>n. npm \in Nat /\ binary["plugin"].v <= npm
  <2>1. binary["plugin"].v \in Nat
    BY <1>2, ToolNames DEF Builds
  <2> QED BY <1>1, <2>1 DEF UpgradeInit
<1>4. UpgradeTypeOK
  BY <1>1, <1>2, <1>3, <1>n, NoProgram, StateValues DEF UpgradeInit, UpgradeTypeOK
<1>5. ASSUME NEW t \in Tools PROVE Sane(t)
  BY <1>1, <1>2 DEF Sane, Whole
<1>6. SuccessIsInstalled
  BY <1>3, NoProgram DEF SuccessIsInstalled
<1>7. ASSUME NEW p \in Processes PROVE ProgramOK(p)
  BY <1>3, NoProgram DEF ProgramOK, Promised, Fetched, In
<1> QED BY <1>n, <1>4, <1>5, <1>6, <1>7 DEF UpgradeInit, UpgradeIInv

LEMMA UpgradeStep ==
    ASSUME UpgradeIInv, NEW p, Processes = {p}, [UpgradeNext]_upgradeVars
    PROVE  UpgradeIInv' /\ KeepsReleases
<1>1. CASE UNCHANGED upgradeVars
  <2>1. UpgradeTypeOK' /\ \A t \in Tools : Sane(t)'
    BY <1>1 DEF upgradeVars, UpgradeIInv, UpgradeTypeOK, Sane
  <2>2. SuccessIsInstalled'
    BY <1>1 DEF upgradeVars, UpgradeIInv, SuccessIsInstalled, Vouched, Ownership
  <2>3. ProgramOK(p)'
    BY <1>1 DEF upgradeVars, UpgradeIInv, ProgramOK, Promised, Fetched, In, Hand, Owned, Ownership
  <2>4. KeepsReleases
    BY <1>1 DEF upgradeVars, KeepsReleases, UpgradeIInv, UpgradeTypeOK, Builds
  <2> QED BY <1>1, <2>1, <2>2, <2>3, <2>4 DEF upgradeVars, UpgradeIInv
<1>2. CASE UpgradeNext
  <2>1. {Tools, {Product}, Tools \ {Product}} \subseteq SUBSET Tools
    BY ToolNames
  <2> QED BY <1>2, <2>1, CheckKeeps, BrewKeeps, FetchKeeps, WorldKeeps DEF UpgradeNext
<1> QED BY <1>1, <1>2

(* What every reachable state of one program that upgrades satisfies: what *)
(* is still to be upgraded is older than what was promised, and what is    *)
(* renamed is what was verified.                                           *)
THEOREM UpgradeInvariance ==
    ASSUME NEW p, Processes = {p}
    PROVE  UpgradeSpec => []UpgradeIInv
<1>1. ASSUME UpgradeIInv, [UpgradeNext]_upgradeVars PROVE UpgradeIInv'
  BY <1>1, UpgradeStep
<1> QED BY <1>1, UpgradeStarts, PTL DEF UpgradeSpec

(* With one program at a time the executable on PATH is a whole one,       *)
(* wherever an upgrade fails or is killed, for any computer and releases.  *)
THEOREM WholeBinary ==
    ASSUME NEW p, Processes = {p}
    PROVE  UpgradeSpec => []BinaryIsWhole
<1>1. UpgradeIInv => BinaryIsWhole
  BY DEF UpgradeIInv, Sane, BinaryIsWhole
<1> QED BY <1>1, UpgradeInvariance, PTL

(* What is reported as upgraded is, and nothing older is installed.        *)
THEOREM SoundUpgrades ==
    ASSUME NEW p, Processes = {p}
    PROVE  UpgradeSpec => UpgradesAreSound
<1>1. ASSUME UpgradeIInv, [UpgradeNext]_upgradeVars
      PROVE  [SuccessIsInstalled' /\ KeepsReleases]_upgradeVars
  BY <1>1, UpgradeStep DEF UpgradeIInv
<1> QED BY <1>1, UpgradeInvariance, PTL DEF UpgradeSpec, UpgradesAreSound

---------------------------------------------------------------------------
(* The removal of a plugin: the inductive invariant. *)

FileContents == {Absent, Broken} \cup Texts
Entries == [data : FileContents, after : FileContents, changed : BOOLEAN]
Stagings == [layer : Dirs, made : 0 .. MaxTouches]

Finds ==
    [files : [Files -> FileContents], dirs : [Dirs -> {Absent} \cup 0 .. MaxTouches],
     aside : SUBSET Stagings]

OfFile == {"capture", "edit", "compare", "replace"}
Forward == OfFile \cup {"stage"}
Undoing == {"restore", "rewrite"}
Removal == Forward \cup {"commit", "unstage"} \cup Undoing
Adding == {"add logo", "add read", "add write"}

Operations ==
    [pc : Over \cup Removal \cup Adding, kind : Kinds, at : 1 .. 4,
     journal : UNION {[S -> Entries] : S \in SUBSET Files}, next : FileContents,
     staged : Seq(Stagings), undo : SUBSET Files, left : SUBSET Stagings, trouble : BOOLEAN,
     found : {<<>>} \cup Finds, late : BOOLEAN, touched : SUBSET (Files \cup Dirs),
     noticeable : SUBSET (Files \cup Dirs)]

PluginTypes ==
    /\ files \in [Files -> FileContents]
    /\ edits \in 0 .. MaxTouches
    /\ dirs \in [Dirs -> {Absent} \cup 0 .. edits]
    /\ aside \in SUBSET [layer : Dirs, made : 0 .. edits]
    /\ run \in Operations
    /\ run.pc \notin {"idle", "killed"} => run.found \in Finds

(* The layers of a plugin have a rank; the ones already visited come first. *)
Of(kind) ==
    IF kind = "npm" THEN {"tui", "package", "node_modules", "cache"} ELSE {"tui", "logo"}

Rank(layer) ==
    IF layer = "tui" THEN 1
    ELSE IF layer \in {"package", "logo"} THEN 2
    ELSE IF layer = "node_modules" THEN 3 ELSE 4

Visited == {l \in Of(run.kind) : Rank(l) < run.at \/ run.pc \in {"commit", "removed"}}

(* What the operation works on at each step.                               *)
Placed ==
    /\ run.pc \in Forward => Layer \in Of(run.kind) /\ Rank(Layer) = run.at
    /\ run.pc \in OfFile => Layer \in Files
    /\ run.pc = "stage" => Layer \in Dirs
    /\ run.pc \in Forward \cup {"commit", "removed"} => ~run.late /\ ~run.trouble
    /\ run.pc \in Forward => run.left = {}
    /\ run.pc \in Undoing => run.undo \subseteq ToRestore(run.journal)
    /\ run.pc = "rewrite" => run.undo # {}
    /\ run.pc \in Adding \cup {"failed"} => run.undo = {}
    /\ run.pc \in Undoing \cup Adding \cup {"failed", "removed"} => run.staged = <<>>

(* An installation is never in two places.                                 *)
Unique == \A d \in Dirs : [layer |-> d, made |-> dirs[d]] \notin aside

(* The journal: what was changed was changed by taking the plugin out; and *)
(* it holds what was found, unless others touched it.                      *)
Journalled ==
    run.pc \in Removal =>
        /\ DOMAIN run.journal \subseteq Of(run.kind)
        /\ \A f \in DOMAIN run.journal :
              /\ run.journal[f].changed =>
                    /\ NamesPlugin(f, run.kind, run.journal[f].data)
                    /\ run.journal[f].after = WithoutPlugin(f, run.kind, run.journal[f].data)
              /\ f \notin run.touched => run.journal[f].data = run.found.files[f]
              /\ run.pc \in Forward =>
                    \/ Rank(f) < run.at
                    \/ run.pc \in {"edit", "compare", "replace"} /\ f = Layer /\ ~run.journal[f].changed
        /\ run.pc \in {"edit", "compare", "replace"} => Layer \in DOMAIN run.journal

(* What is about to be written was made of what was captured, and an edit  *)
(* that can still be noticed is not overwritten.                           *)
Expected ==
    LET data == run.journal[Layer].data
        path == Foremost(run.undo)
    IN  /\ run.pc = "compare" /\ files[Layer] = data =>
              NamesPlugin(Layer, run.kind, data) /\ run.next = WithoutPlugin(Layer, run.kind, data)
        /\ run.pc = "replace" =>
              /\ NamesPlugin(Layer, run.kind, data)
              /\ run.next = WithoutPlugin(Layer, run.kind, data)
              /\ Layer \in run.noticeable => files[Layer] = data
        /\ run.pc = "rewrite" /\ path \in run.noticeable => files[path] = run.journal[path].after

(* The files nobody else touched.                                          *)
FilesAsKnown ==
    \A f \in Files \ run.touched :
        /\ run.pc \in Forward \cup {"commit", "removed", "unstage"} /\ ~run.late =>
              files[f] = IF f \in ToRestore(run.journal)
                         THEN WithoutPlugin(f, run.kind, run.found.files[f])
                         ELSE run.found.files[f]
        /\ run.pc \in Undoing \cup {"failed"} /\ ~run.late /\ ~run.trouble /\ f \notin run.undo =>
              files[f] = run.found.files[f]
        /\ run.pc \in Forward \cup {"commit", "removed"} /\ f \in Visited =>
              \/ f \in ToRestore(run.journal) /\ NamesPlugin(f, run.kind, run.found.files[f])
              \/ f \notin ToRestore(run.journal) /\ ~NamesPlugin(f, run.kind, run.found.files[f])

(* The directories, and what lies aside.                                   *)
StagedLayers == {run.staged[i].layer : i \in DOMAIN run.staged}

DirsAsKnown ==
    \A d \in Dirs \ run.touched :
        /\ run.pc \in Forward \cup {"unstage"} \cup Undoing \cup {"failed"} /\ ~run.trouble =>
              dirs[d] = IF d \in StagedLayers THEN Absent ELSE run.found.dirs[d]
        /\ run.pc \in Forward \cup {"unstage"} =>
              \A i \in DOMAIN run.staged : run.staged[i].layer = d => run.staged[i].made = run.found.dirs[d]
        /\ run.pc \in Forward \cup {"commit", "removed"} /\ d \in Visited => dirs[d] = Absent

Staged == {run.staged[i] : i \in DOMAIN run.staged}

AsideAsKnown ==
    run.pc \notin {"idle", "killed"} =>
        /\ aside = run.found.aside \cup Staged \cup run.left
        /\ Staged \cap run.left = {} /\ (Staged \cup run.left) \cap run.found.aside = {}
        /\ \A i, j \in DOMAIN run.staged : run.staged[i].layer = run.staged[j].layer => i = j
        /\ run.pc \in Forward => \A i \in DOMAIN run.staged : Rank(run.staged[i].layer) < run.at
        /\ run.pc = "unstage" /\ ~run.trouble => run.left = {}
        /\ run.pc \in Undoing \cup {"failed"} /\ ~run.trouble => run.left = {}

PluginIInv ==
    /\ PluginTypes /\ Placed /\ Unique /\ Journalled /\ Expected
    /\ FilesAsKnown /\ DirsAsKnown /\ AsideAsKnown

---------------------------------------------------------------------------
(* Lemmas. *)

(* The n-th layer has rank n.                                              *)
LEMMA RankOfLayer ==
    ASSUME NEW kind \in Kinds, NEW n \in DOMAIN Layers(kind)
    PROVE  /\ Layers(kind)[n] \in Of(kind) /\ Rank(Layers(kind)[n]) = n
           /\ n \in 1 .. 4
  BY DEF Kinds, Layers, Of, Rank

(* No two layers of a plugin have the same rank.                           *)
LEMMA RankInjective ==
    ASSUME NEW kind \in Kinds, NEW a \in Of(kind), NEW b \in Of(kind), Rank(a) = Rank(b)
    PROVE  a = b
  BY DEF Kinds, Of, Rank

LEMMA RankRange == \A layer : Rank(layer) \in 1 .. 4
  BY DEF Rank

(* What is read of a file can be written without the plugin.               *)
LEMMA ReadableWithout ==
    ASSUME NEW path \in Files, NEW kind \in Kinds, NEW content \in FileContents,
           NamesPlugin(path, kind, content)
    PROVE  /\ WithoutPlugin(path, kind, content) \in FileContents
           /\ path # "logo" =>
                 Note(WithoutPlugin(path, kind, content)) = Note(content)
  <1>1. content \in Texts
    BY DEF NamesPlugin, Parsed, FileContents
  <1>2. CASE path = "tui"
    BY <1>1, <1>2, PluginAssumption DEF WithoutPlugin, StringSlice, Texts, FileContents, Note, Parsed
  <1>3. CASE path = "package"
    BY <1>1, <1>3, PluginAssumption DEF WithoutPlugin, Texts, FileContents, Note, Parsed
  <1>4. CASE path = "logo"
    BY <1>4 DEF WithoutPlugin, FileContents
  <1>5. QED
    BY <1>2, <1>3, <1>4 DEF Files

(* What is written of it has the plugin taken out, and only the plugin.    *)
LEMMA WithoutIsTakenOut ==
    ASSUME NEW path \in Files, NEW kind \in Kinds, NEW content \in FileContents,
           NEW after,
           after = IF NamesPlugin(path, kind, content)
                   THEN WithoutPlugin(path, kind, content) ELSE content
    PROVE  TakenOut(path, kind, content, after)
  <1>1. CASE ~ NamesPlugin(path, kind, content)
    BY <1>1 DEF TakenOut
  <1>2. CASE NamesPlugin(path, kind, content)
    <2>1. content \in Texts /\ after = WithoutPlugin(path, kind, content)
      BY <1>2 DEF NamesPlugin, Parsed, FileContents
    <2>2. CASE path = "tui"
      <3>1. after = [StringSlice(content) EXCEPT !.names = @ \ {kind}]
        BY <2>1, <2>2 DEF WithoutPlugin
      <3>2. after \in Texts /\ after.names = content.names \ {kind} /\ after.note = content.note
        BY <2>1, <3>1 DEF Texts, StringSlice
      <3>3. Parsed(after) /\ Parsed(content)
        BY <2>1, <3>2, PluginAssumption DEF Parsed
      <3>4. QED
        BY <1>2, <2>2, <3>2, <3>3 DEF TakenOut, NamesPlugin, Note
    <2>3. CASE path = "package"
      <3>1. after = [content EXCEPT !.names = {}, !.odd = {}]
        BY <2>1, <2>3 DEF WithoutPlugin
      <3>2. after \in Texts /\ after.names = {} /\ after.note = content.note
        BY <2>1, <3>1 DEF Texts
      <3>3. Parsed(after) /\ Parsed(content)
        BY <2>1, <3>2, PluginAssumption DEF Parsed
      <3>4. QED
        BY <1>2, <2>3, <3>2, <3>3 DEF TakenOut, NamesPlugin, Note
    <2>4. CASE path = "logo"
      <3>1. after = Absent
        BY <2>1, <2>4 DEF WithoutPlugin
      <3>2. QED
        BY <1>2, <2>4, <3>1 DEF TakenOut, NamesPlugin, Parsed
    <2>5. QED
      BY <2>2, <2>3, <2>4 DEF Files
  <1>3. QED
    BY <1>1, <1>2

(* The first step after a layer is done.                                   *)
LEMMA Advancing ==
    ASSUME NEW r \in Operations, r.at \in DOMAIN Layers(r.kind)
    PROVE  /\ Advance(r) \in Operations
           /\ Advance(r) = [r EXCEPT !.pc = Advance(r).pc, !.at = Advance(r).at]
           /\ \/ Advance(r).pc = "commit" /\ Advance(r).at = r.at /\ r.at = Len(Layers(r.kind))
              \/ /\ Advance(r).pc \in {"capture", "stage"} /\ Advance(r).at = r.at + 1
                 /\ r.at + 1 \in DOMAIN Layers(r.kind)
                 /\ Advance(r).pc = "stage" <=> Layers(r.kind)[r.at + 1] \in Dirs
  <1>1. CASE r.at = Len(Layers(r.kind))
    <2>1. Advance(r) = [r EXCEPT !.pc = "commit"]
      BY <1>1 DEF Advance
    <2>2. QED
      BY <1>1, <2>1 DEF Operations, Removal
  <1>2. CASE r.at # Len(Layers(r.kind))
    <2> DEFINE next == IF Layers(r.kind)[r.at + 1] \in Dirs THEN "stage" ELSE "capture"
    <2>1. Advance(r) = [r EXCEPT !.at = @ + 1, !.pc = next]
      BY <1>2 DEF Advance
    <2>2. r.at + 1 \in DOMAIN Layers(r.kind) /\ r.at + 1 \in 1 .. 4
      BY <1>2 DEF Layers, Operations, Kinds
    <2>3. QED
      BY <2>1, <2>2 DEF Operations, Removal, Forward, OfFile
  <1>3. QED
    BY <1>1, <1>2

(* Capturing a file.                                                       *)
LEMMA Capturing ==
    ASSUME NEW S \in SUBSET Files, NEW journal \in [S -> Entries], NEW path \in Files \ S,
           NEW content \in FileContents
    PROVE  /\ Captured(journal, path, content) \in [S \cup {path} -> Entries]
           /\ Captured(journal, path, content)[path] =
                 [data |-> content, after |-> Absent, changed |-> FALSE]
           /\ \A f \in S : Captured(journal, path, content)[f] = journal[f]
  BY DEF Captured, Entries, FileContents

LEMMA Writing ==
    ASSUME NEW S \in SUBSET Files, NEW journal \in [S -> Entries], NEW path \in S,
           NEW content \in FileContents
    PROVE  /\ Wrote(journal, path, content) \in [S -> Entries]
           /\ Wrote(journal, path, content)[path] =
                 [data |-> journal[path].data, after |-> content, changed |-> TRUE]
           /\ \A f \in S \ {path} : Wrote(journal, path, content)[f] = journal[f]
  BY DEF Wrote, Entries, FileContents

(* A fresh operation.                                                      *)
LEMMA NothingYet ==
    /\ <<>> \in UNION {[S -> Entries] : S \in SUBSET Files}
    /\ <<>> \in Seq(Stagings) /\ DOMAIN <<>> = {}
  <1>1. <<>> \in [{} -> Entries]
    OBVIOUS
  <1>2. <<>> \in UNION {[S -> Entries] : S \in SUBSET Files}
    BY <1>1
  <1>3. QED
    BY <1>2

Fresh(pc, kind, found) ==
    [pc |-> pc, kind |-> kind, at |-> 1, journal |-> <<>>, next |-> Absent,
     staged |-> <<>>, undo |-> {}, left |-> {}, trouble |-> FALSE,
     found |-> found, late |-> FALSE, touched |-> {}, noticeable |-> {}]

LEMMA FreshOperation ==
    ASSUME NEW pc \in Over \cup Removal \cup Adding, NEW kind \in Kinds,
           NEW found \in {<<>>} \cup Finds
    PROVE  Fresh(pc, kind, found) \in Operations
  BY NothingYet DEF Fresh, Operations, FileContents

LEMMA InitialPlugin == PluginInit => PluginIInv
  <1> SUFFICES ASSUME PluginInit PROVE PluginIInv
    OBVIOUS
  <1> USE DEF PluginInit
  <1>1. PluginTypes
    <2>1. files \in [Files -> FileContents]
      <3>1. EmptyText \in Texts
        BY PluginAssumption DEF EmptyText, Texts
      <3>2. \A text \in TuiTexts \cup PackageTexts : Noted(text, 0) \in Texts
        BY PluginAssumption DEF Noted, Texts
      <3>3. QED
        BY <3>1, <3>2 DEF Contents, Files, FileContents
    <2>2. run \in Operations
      <3>1. run = Fresh("idle", "npm", <<>>)
        BY DEF NoOperation, NoJournal, Fresh
      <3>2. QED
        BY <3>1, FreshOperation DEF Over, Kinds
    <2>3. QED
      BY <2>1, <2>2, PluginAssumption DEF PluginTypes, NoOperation
  <1>2. QED
    BY <1>1 DEF PluginIInv, Placed, Unique, Journalled, Expected, FilesAsKnown, DirsAsKnown,
                AsideAsKnown, NoOperation, Forward, OfFile, Undoing, Removal, Adding

---------------------------------------------------------------------------
(* The removal. *)

(* A step of it is given up: nothing has happened but that.                *)
LEMMA AbandonKeeps ==
    ASSUME PluginIInv, run.pc \in Forward, run' = Abandon(run), UNCHANGED <<files, dirs, aside, edits>>
    PROVE  PluginIInv'
  <1>0. /\ run' = [run EXCEPT !.pc = "unstage"] /\ run \in Operations
        /\ run'.pc = "unstage" /\ run'.kind = run.kind /\ run'.at = run.at
        /\ run'.journal = run.journal /\ run'.staged = run.staged /\ run'.undo = run.undo
        /\ run'.left = run.left /\ run'.trouble = run.trouble /\ run'.found = run.found
        /\ run'.late = run.late /\ run'.touched = run.touched
    BY DEF PluginIInv, PluginTypes, Operations, Abandon
  <1>1. PluginTypes'
    <2>1. run' \in Operations
      BY <1>0 DEF Operations, Removal
    <2>2. QED
      BY <1>0, <2>1 DEF PluginIInv, PluginTypes, Forward, OfFile
  <1>2. Placed'
    BY <1>0 DEF PluginIInv, Placed, Forward, OfFile, Undoing, Adding
  <1>3. Unique'
    BY DEF PluginIInv, Unique
  <1>4. Journalled'
    BY <1>0 DEF PluginIInv, Journalled, Removal, Forward, OfFile
  <1>5. Expected'
    BY <1>0 DEF Expected
  <1>6. FilesAsKnown'
    BY <1>0 DEF PluginIInv, FilesAsKnown, Forward, OfFile, Undoing, ToRestore, Placed
  <1>7. DirsAsKnown'
    BY <1>0 DEF PluginIInv, DirsAsKnown, StagedLayers, Forward, OfFile, Undoing, Placed
  <1>8. AsideAsKnown'
    BY <1>0 DEF PluginIInv, AsideAsKnown, Staged, Forward, OfFile, Undoing, Placed
  <1>9. QED
    BY <1>1, <1>2, <1>3, <1>4, <1>5, <1>6, <1>7, <1>8 DEF PluginIInv

LEMMA CaptureKeeps == PluginIInv /\ Capture => PluginIInv'
  <1> SUFFICES ASSUME PluginIInv, Capture PROVE PluginIInv'
    OBVIOUS
  <1>1. CASE run' = Abandon(run)
    BY <1>1, AbandonKeeps DEF Capture, Goes, Forward, OfFile
  <1>2. CASE run' = [run EXCEPT !.pc = "edit", !.journal = Captured(run.journal, Layer, files[Layer])]
    <2> DEFINE journal == Captured(run.journal, Layer, files[Layer])
    <2>1. /\ run.pc = "capture" /\ run \in Operations
          /\ UNCHANGED <<files, dirs, aside, edits>>
          /\ Layer \in Files /\ Layer \in Of(run.kind) /\ Rank(Layer) = run.at
          /\ files[Layer] \in FileContents
      BY DEF Capture, Goes, PluginIInv, PluginTypes, Placed, Forward, OfFile
    <2>2. PICK S \in SUBSET Files : run.journal \in [S -> Entries]
      BY <2>1 DEF Operations
    <2>3. Layer \notin S
      <3>1. DOMAIN run.journal = S /\ run.at \in 1 .. 4
        BY <2>1, <2>2 DEF Operations
      <3>2. \A f \in DOMAIN run.journal : Rank(f) < run.at
        BY <2>1 DEF PluginIInv, Journalled, Removal, Forward, OfFile
      <3>3. QED
        BY <2>1, <3>1, <3>2
    <2>4. /\ journal \in [S \cup {Layer} -> Entries]
          /\ journal[Layer] = [data |-> files[Layer], after |-> Absent, changed |-> FALSE]
          /\ \A f \in S : journal[f] = run.journal[f]
      <3>1. /\ S \in SUBSET Files /\ Layer \in Files \ S
            /\ run.journal \in [S -> Entries] /\ files[Layer] \in FileContents
        BY <2>1, <2>2, <2>3
      <3> QED
        BY <3>1 DEF Captured, Entries, FileContents
    <2>5. ToRestore(journal) = ToRestore(run.journal)
      BY <2>2, <2>3, <2>4 DEF ToRestore
    <2> HIDE DEF journal
    <2>0. /\ run' = [run EXCEPT !.pc = "edit", !.journal = journal]
          /\ run'.pc = "edit" /\ run'.kind = run.kind /\ run'.at = run.at
          /\ run'.journal = journal /\ run'.staged = run.staged /\ run'.undo = run.undo
          /\ run'.left = run.left /\ run'.trouble = run.trouble /\ run'.found = run.found
          /\ run'.late = run.late /\ run'.touched = run.touched /\ Layer' = Layer
      BY <1>2, <2>1 DEF Operations, journal, Layer
    <2>6. PluginTypes'
      <3>1. journal \in UNION {[T -> Entries] : T \in SUBSET Files}
        BY <2>1, <2>4
      <3>2. run' \in Operations
        BY <2>0, <2>1, <3>1 DEF Operations, Removal, Forward, OfFile
      <3>3. QED
        BY <2>0, <2>1, <3>2 DEF PluginIInv, PluginTypes
    <2>7. Placed'
      BY <2>0, <2>1 DEF PluginIInv, Placed, Forward, OfFile, Undoing, Adding
    <2>8. Unique'
      BY <2>1 DEF PluginIInv, Unique
    <2>9. Journalled'
      <3>1. Layer \notin run.touched => files[Layer] = run.found.files[Layer]
        BY <2>1, <2>2, <2>3 DEF PluginIInv, Placed, FilesAsKnown, Forward, OfFile, ToRestore
      <3>2. QED
        BY <2>0, <2>1, <2>2, <2>3, <2>4, <3>1 DEF PluginIInv, Journalled, Removal, Forward, OfFile
    <2>10. Expected'
      BY <2>0 DEF Expected
    <2>11. FilesAsKnown'
      BY <2>0, <2>1, <2>5 DEF PluginIInv, FilesAsKnown, Forward, OfFile, Undoing, Visited
    <2>12. DirsAsKnown'
      BY <2>0, <2>1 DEF PluginIInv, DirsAsKnown, StagedLayers, Forward, OfFile, Undoing, Visited
    <2>13. AsideAsKnown'
      BY <2>0, <2>1 DEF PluginIInv, AsideAsKnown, Staged, Forward, OfFile, Undoing
    <2>14. QED
      BY <2>6, <2>7, <2>8, <2>9, <2>10, <2>11, <2>12, <2>13 DEF PluginIInv
  <1>3. QED
    BY <1>1, <1>2 DEF Capture, Goes

(* What the end of a layer changes, and what it does not.                  *)
LEMMA Advanced ==
    ASSUME PluginIInv, run.pc \in Forward, NEW r \in Operations,
           r.kind = run.kind, r.at = run.at, run' = Advance(r)
    PROVE  /\ run' \in Operations
           /\ run'.kind = run.kind
           /\ run'.journal = r.journal /\ run'.staged = r.staged /\ run'.undo = r.undo
           /\ run'.left = r.left /\ run'.trouble = r.trouble /\ run'.found = r.found
           /\ run'.late = r.late /\ run'.touched = r.touched
           /\ run'.noticeable = r.noticeable
           /\ run'.pc \in {"capture", "stage", "commit"}
           /\ run'.pc \in {"capture", "stage"} =>
                 /\ run'.at = run.at + 1
                 /\ Layer' \in Of(run.kind) /\ Rank(Layer') = run'.at
           /\ run'.pc = "capture" => Layer' \in Files
           /\ run'.pc = "stage" => Layer' \in Dirs
           /\ \A l : l \in Visited' <=> l \in Of(run.kind) /\ (l \in Visited \/ l = Layer)
  <1>1. /\ run.at \in 1 .. 4 /\ run.kind \in Kinds
        /\ Layer \in Of(run.kind) /\ Rank(Layer) = run.at
        /\ run.at \in DOMAIN Layers(run.kind)
    <2>1. /\ run.at \in 1 .. 4 /\ run.kind \in Kinds
          /\ Layer \in Of(run.kind) /\ Rank(Layer) = run.at
      BY DEF PluginIInv, PluginTypes, Placed, Operations
    <2>2. QED
      BY <2>1 DEF Kinds, Layers, Of, Rank
  <1>2. /\ run' \in Operations /\ run' = [r EXCEPT !.pc = run'.pc, !.at = run'.at]
        /\ \/ run'.pc = "commit" /\ run'.at = run.at /\ run.at = Len(Layers(run.kind))
           \/ /\ run'.pc \in {"capture", "stage"} /\ run'.at = run.at + 1
              /\ run.at + 1 \in DOMAIN Layers(run.kind)
              /\ run'.pc = "stage" <=> Layers(run.kind)[run.at + 1] \in Dirs
    BY <1>1, Advancing
  <1>3. /\ run'.kind = run.kind
        /\ run'.journal = r.journal /\ run'.staged = r.staged /\ run'.undo = r.undo
        /\ run'.left = r.left /\ run'.trouble = r.trouble /\ run'.found = r.found
        /\ run'.late = r.late /\ run'.touched = r.touched
        /\ run'.noticeable = r.noticeable
    BY <1>2 DEF Operations
  <1>4. run'.pc \in {"capture", "stage"} =>
           /\ run'.at = run.at + 1
           /\ Layer' \in Of(run.kind) /\ Rank(Layer') = run'.at
    BY <1>1, <1>2, <1>3, RankOfLayer DEF Layer
  <1>5. /\ run'.pc = "capture" => Layer' \in Files
        /\ run'.pc = "stage" => Layer' \in Dirs
    BY <1>1, <1>2, <1>3 DEF Layer, Layers, Kinds, Dirs, Files
  <1>6. \A l : l \in Visited' <=> l \in Of(run.kind) /\ (l \in Visited \/ l = Layer)
    <2>1. \A l \in Of(run.kind) : Rank(l) = run.at <=> l = Layer
      BY <1>1, RankInjective
    <2>2. \A l \in Of(run.kind) : Rank(l) \in 1 .. 4 /\ Rank(l) <= Len(Layers(run.kind))
      BY <1>1 DEF Of, Rank, Layers, Kinds
    <2>3. QED
      BY <1>1, <1>2, <1>3, <2>1, <2>2 DEF Visited, Forward, OfFile
  <1>7. QED
    BY <1>2, <1>3, <1>4, <1>5, <1>6

LEMMA EditKeeps == PluginIInv /\ EditLayer => PluginIInv'
  <1> SUFFICES ASSUME PluginIInv, EditLayer PROVE PluginIInv'
    OBVIOUS
  <1>0. /\ run.pc = "edit" /\ run \in Operations /\ run.at \in 1 .. 4
        /\ UNCHANGED <<files, dirs, aside, edits>>
        /\ Layer \in Files /\ Layer \in Of(run.kind) /\ Rank(Layer) = run.at
        /\ files[Layer] \in FileContents /\ run.kind \in Kinds
        /\ Layer \in DOMAIN run.journal /\ ~run.journal[Layer].changed
        /\ run.at \in DOMAIN Layers(run.kind)
    <2>1. /\ run.pc = "edit" /\ run \in Operations /\ run.at \in 1 .. 4
          /\ UNCHANGED <<files, dirs, aside, edits>>
          /\ Layer \in Files /\ Layer \in Of(run.kind) /\ Rank(Layer) = run.at
          /\ files[Layer] \in FileContents /\ run.kind \in Kinds
      BY DEF EditLayer, Goes, PluginIInv, PluginTypes, Placed, Forward, OfFile, Operations
    <2>2. Layer \in DOMAIN run.journal /\ ~run.journal[Layer].changed
      BY <2>1 DEF PluginIInv, Journalled, Removal, Forward, OfFile
    <2>3. run.at \in DOMAIN Layers(run.kind)
      BY <2>1 DEF Kinds, Layers, Of, Rank
    <2>4. QED
      BY <2>1, <2>2, <2>3
  <1>1. CASE run' = Abandon(run)
    BY <1>0, <1>1, AbandonKeeps DEF Forward, OfFile
  <1>2. CASE ~NamesPlugin(Layer, run.kind, files[Layer]) /\ run' = Advance(run)
    <2>0. /\ run' \in Operations
          /\ run'.kind = run.kind
          /\ run'.journal = run.journal /\ run'.staged = run.staged /\ run'.undo = run.undo
          /\ run'.left = run.left /\ run'.trouble = run.trouble /\ run'.found = run.found
          /\ run'.late = run.late /\ run'.touched = run.touched
          /\ run'.pc \in {"capture", "stage", "commit"}
          /\ run'.pc \in {"capture", "stage"} =>
                /\ run'.at = run.at + 1
                /\ Layer' \in Of(run.kind) /\ Rank(Layer') = run'.at
          /\ run'.pc = "capture" => Layer' \in Files
          /\ run'.pc = "stage" => Layer' \in Dirs
          /\ \A l : l \in Visited' <=> l \in Of(run.kind) /\ (l \in Visited \/ l = Layer)
      <3>1. run.pc \in Forward
        BY <1>0 DEF Forward, OfFile
      <3>2. QED
        BY <1>0, <1>2, <3>1, Advanced
    <2>1. PluginTypes'
      BY <1>0, <2>0 DEF PluginIInv, PluginTypes
    <2>4. Placed'
      BY <1>0, <2>0 DEF PluginIInv, Placed, Forward, OfFile, Undoing, Adding
    <2>5. Unique'
      BY <1>0 DEF PluginIInv, Unique
    <2>6. Journalled'
      BY <1>0, <2>0, RankRange DEF PluginIInv, Journalled, Removal, Forward, OfFile
    <2>7. Expected'
      BY <2>0 DEF Expected
    <2>8. FilesAsKnown'
      <3>1. Layer \notin ToRestore(run.journal)
        BY <1>0 DEF ToRestore
      <3>2. Layer \notin run.touched => files[Layer] = run.found.files[Layer]
        BY <1>0, <3>1 DEF PluginIInv, Placed, FilesAsKnown, Forward, OfFile
      <3>3. QED
        BY <1>0, <1>2, <2>0, <3>1, <3>2
        DEF PluginIInv, FilesAsKnown, Forward, OfFile, Undoing
    <2>9. DirsAsKnown'
      <3>1. Layer \notin Dirs
        BY <1>0 DEF Dirs, Files
      <3>2. QED
        BY <1>0, <2>0, <3>1 DEF PluginIInv, DirsAsKnown, StagedLayers, Forward, OfFile, Undoing
    <2>10. AsideAsKnown'
      BY <1>0, <2>0, RankRange DEF PluginIInv, AsideAsKnown, Staged, Forward, OfFile, Undoing, Placed
    <2>11. QED
      BY <2>1, <2>4, <2>5, <2>6, <2>7, <2>8, <2>9, <2>10 DEF PluginIInv
  <1>3. CASE /\ NamesPlugin(Layer, run.kind, files[Layer])
             /\ run' = [run EXCEPT !.pc = "compare",
                                   !.next = WithoutPlugin(Layer, run.kind, files[Layer])]
    <2>0. /\ run' \in Operations
          /\ run'.pc = "compare" /\ run'.kind = run.kind /\ run'.at = run.at
          /\ run'.journal = run.journal /\ run'.staged = run.staged /\ run'.undo = run.undo
          /\ run'.left = run.left /\ run'.trouble = run.trouble /\ run'.found = run.found
          /\ run'.late = run.late /\ run'.touched = run.touched /\ Layer' = Layer
          /\ run'.next = WithoutPlugin(Layer, run.kind, files[Layer])
      <3>1. WithoutPlugin(Layer, run.kind, files[Layer]) \in FileContents
        BY <1>0, <1>3, ReadableWithout
      <3>2. QED
        BY <1>0, <1>3, <3>1 DEF Operations, Removal, Forward, OfFile, Layer
    <2>1. PluginTypes'
      BY <1>0, <2>0 DEF PluginIInv, PluginTypes
    <2>2. Placed'
      BY <1>0, <2>0 DEF PluginIInv, Placed, Forward, OfFile, Undoing, Adding
    <2>3. Unique'
      BY <1>0 DEF PluginIInv, Unique
    <2>4. Journalled'
      BY <1>0, <2>0 DEF PluginIInv, Journalled, Removal, Forward, OfFile
    <2>5. Expected'
      BY <1>0, <1>3, <2>0 DEF Expected
    <2>6. FilesAsKnown'
      BY <1>0, <2>0 DEF PluginIInv, FilesAsKnown, Forward, OfFile, Undoing, Visited
    <2>7. DirsAsKnown'
      BY <1>0, <2>0 DEF PluginIInv, DirsAsKnown, StagedLayers, Forward, OfFile, Undoing, Visited
    <2>8. AsideAsKnown'
      BY <1>0, <2>0 DEF PluginIInv, AsideAsKnown, Staged, Forward, OfFile, Undoing
    <2>9. QED
      BY <2>1, <2>2, <2>3, <2>4, <2>5, <2>6, <2>7, <2>8 DEF PluginIInv
  <1>4. QED
    BY <1>1, <1>2, <1>3 DEF EditLayer, Goes

LEMMA CompareKeeps == PluginIInv /\ Compare => PluginIInv'
  <1> SUFFICES ASSUME PluginIInv, Compare PROVE PluginIInv'
    OBVIOUS
  <1>0. /\ run.pc = "compare" /\ run \in Operations /\ UNCHANGED <<files, dirs, aside, edits>>
    BY DEF Compare, Goes, PluginIInv, PluginTypes
  <1>1. CASE run' = Abandon(run)
    BY <1>0, <1>1, AbandonKeeps DEF Forward, OfFile
  <1>2. CASE files[Layer] = run.journal[Layer].data /\ run' = [run EXCEPT !.pc = "replace"]
    <2>0. /\ run' \in Operations
          /\ run'.pc = "replace" /\ run'.kind = run.kind /\ run'.at = run.at
          /\ run'.journal = run.journal /\ run'.staged = run.staged /\ run'.undo = run.undo
          /\ run'.left = run.left /\ run'.trouble = run.trouble /\ run'.found = run.found
          /\ run'.late = run.late /\ run'.touched = run.touched /\ Layer' = Layer
          /\ run'.next = run.next
      BY <1>0, <1>2 DEF Operations, Removal, Forward, OfFile, Layer
    <2>1. PluginTypes'
      BY <1>0, <2>0 DEF PluginIInv, PluginTypes
    <2>2. Placed'
      BY <1>0, <2>0 DEF PluginIInv, Placed, Forward, OfFile, Undoing, Adding
    <2>3. Unique'
      BY <1>0 DEF PluginIInv, Unique
    <2>4. Journalled'
      BY <1>0, <2>0 DEF PluginIInv, Journalled, Removal, Forward, OfFile
    <2>5. Expected'
      BY <1>0, <1>2, <2>0 DEF PluginIInv, Expected
    <2>6. FilesAsKnown'
      BY <1>0, <2>0 DEF PluginIInv, FilesAsKnown, Forward, OfFile, Undoing, Visited
    <2>7. DirsAsKnown'
      BY <1>0, <2>0 DEF PluginIInv, DirsAsKnown, StagedLayers, Forward, OfFile, Undoing, Visited
    <2>8. AsideAsKnown'
      BY <1>0, <2>0 DEF PluginIInv, AsideAsKnown, Staged, Forward, OfFile, Undoing
    <2>9. QED
      BY <2>1, <2>2, <2>3, <2>4, <2>5, <2>6, <2>7, <2>8 DEF PluginIInv
  <1>3. QED
    BY <1>1, <1>2 DEF Compare, Goes, MayReplace

LEMMA ReplaceKeeps == PluginIInv /\ Replace => PluginIInv'
  <1> SUFFICES ASSUME PluginIInv, Replace PROVE PluginIInv'
    OBVIOUS
  <1>0. /\ run.pc = "replace" /\ run \in Operations /\ run.at \in 1 .. 4
        /\ UNCHANGED <<dirs, aside, edits>>
        /\ files \in [Files -> FileContents]
        /\ Layer \in Files /\ Layer \in Of(run.kind) /\ Rank(Layer) = run.at
        /\ run.next \in FileContents /\ run.kind \in Kinds
        /\ Layer \in DOMAIN run.journal /\ ~run.journal[Layer].changed
        /\ NamesPlugin(Layer, run.kind, run.journal[Layer].data)
        /\ run.next = WithoutPlugin(Layer, run.kind, run.journal[Layer].data)
        /\ Layer \notin run.touched => run.journal[Layer].data = run.found.files[Layer]
        /\ ~run.late /\ ~run.trouble
    <2>1. /\ run.pc = "replace" /\ run \in Operations /\ run.at \in 1 .. 4
          /\ UNCHANGED <<dirs, aside, edits>>
          /\ files \in [Files -> FileContents]
          /\ Layer \in Files /\ Layer \in Of(run.kind) /\ Rank(Layer) = run.at
          /\ run.next \in FileContents /\ run.kind \in Kinds /\ ~run.late /\ ~run.trouble
      BY DEF Replace, Goes, PluginIInv, PluginTypes, Placed, Forward, OfFile, Operations
    <2>2. /\ Layer \in DOMAIN run.journal /\ ~run.journal[Layer].changed
          /\ Layer \notin run.touched => run.journal[Layer].data = run.found.files[Layer]
      BY <2>1 DEF PluginIInv, Journalled, Removal, Forward, OfFile
    <2>3. /\ NamesPlugin(Layer, run.kind, run.journal[Layer].data)
          /\ run.next = WithoutPlugin(Layer, run.kind, run.journal[Layer].data)
      BY <2>1 DEF PluginIInv, Expected
    <2>4. QED
      BY <2>1, <2>2, <2>3
  <1>1. CASE run' = Abandon(run) /\ UNCHANGED files
    BY <1>0, <1>1, AbandonKeeps DEF Forward, OfFile
  <1>2. CASE /\ files' = [files EXCEPT ![Layer] = run.next]
             /\ run' = Advance([run EXCEPT !.journal = Wrote(run.journal, Layer, run.next)])
    <2> DEFINE journal == Wrote(run.journal, Layer, run.next)
               r == [run EXCEPT !.journal = journal]
    <2>1. PICK S \in SUBSET Files : run.journal \in [S -> Entries]
      BY <1>0 DEF Operations
    <2>2. /\ journal \in [S -> Entries] /\ Layer \in S
          /\ journal[Layer] = [data |-> run.journal[Layer].data, after |-> run.next, changed |-> TRUE]
          /\ \A f \in S \ {Layer} : journal[f] = run.journal[f]
      <3>1. /\ S \in SUBSET Files /\ Layer \in S /\ run.journal \in [S -> Entries]
            /\ run.next \in FileContents
        BY <1>0, <2>1
      <3>2. QED
        BY <3>1 DEF Wrote, Entries, FileContents
    <2>3. ToRestore(journal) = ToRestore(run.journal) \cup {Layer}
      BY <2>1, <2>2 DEF ToRestore
    <2> HIDE DEF journal
    <2>4. /\ r \in Operations /\ r.kind = run.kind /\ r.at = run.at /\ r.journal = journal
          /\ r.staged = run.staged /\ r.undo = run.undo
          /\ r.left = run.left /\ r.trouble = run.trouble /\ r.found = run.found
          /\ r.late = run.late /\ r.touched = run.touched
      <3>1. journal \in UNION {[T -> Entries] : T \in SUBSET Files}
        BY <2>1, <2>2
      <3>2. QED
        BY <1>0, <3>1 DEF Operations
    <2>5. run' = Advance(r)
      BY <1>2 DEF journal
    <2> HIDE DEF r
    <2>6. /\ run' \in Operations
          /\ run'.kind = run.kind
          /\ run'.journal = journal /\ run'.staged = run.staged /\ run'.undo = run.undo
          /\ run'.left = run.left /\ run'.trouble = run.trouble /\ run'.found = run.found
          /\ run'.late = run.late /\ run'.touched = run.touched
          /\ run'.pc \in {"capture", "stage", "commit"}
          /\ run'.pc \in {"capture", "stage"} =>
                /\ run'.at = run.at + 1
                /\ Layer' \in Of(run.kind) /\ Rank(Layer') = run'.at
          /\ run'.pc = "capture" => Layer' \in Files
          /\ run'.pc = "stage" => Layer' \in Dirs
          /\ \A l : l \in Visited' <=> l \in Of(run.kind) /\ (l \in Visited \/ l = Layer)
      <3>1. run.pc \in Forward
        BY <1>0 DEF Forward, OfFile
      <3>2. QED
        BY <3>1, <2>4, <2>5, Advanced
    <2>7. PluginTypes'
      <3>1. files' \in [Files -> FileContents]
        BY <1>0, <1>2
      <3>2. QED
        BY <1>0, <2>6, <3>1 DEF PluginIInv, PluginTypes
    <2>8. Placed'
      BY <1>0, <2>6 DEF PluginIInv, Placed, Forward, OfFile, Undoing, Adding
    <2>9. Unique'
      BY <1>0 DEF PluginIInv, Unique
    <2>10. Journalled'
      BY <1>0, <2>1, <2>2, <2>6, RankRange DEF PluginIInv, Journalled, Removal, Forward, OfFile
    <2>11. Expected'
      BY <2>6 DEF Expected
    <2>12. FilesAsKnown'
      BY <1>0, <1>2, <2>3, <2>6 DEF PluginIInv, FilesAsKnown, Forward, OfFile, Undoing
    <2>13. DirsAsKnown'
      <3>1. Layer \notin Dirs
        BY <1>0 DEF Dirs, Files
      <3>2. QED
        BY <1>0, <2>6, <3>1 DEF PluginIInv, DirsAsKnown, StagedLayers, Forward, OfFile, Undoing
    <2>14. AsideAsKnown'
      BY <1>0, <2>6, RankRange DEF PluginIInv, AsideAsKnown, Staged, Forward, OfFile, Undoing, Placed
    <2>15. QED
      BY <2>7, <2>8, <2>9, <2>10, <2>11, <2>12, <2>13, <2>14 DEF PluginIInv
  <1>3. CASE /\ files' = [files EXCEPT ![Layer] = run.next]
             /\ run' = Abandon([run EXCEPT !.late = TRUE])
    <2>0. /\ run' \in Operations
          /\ run'.pc = "unstage" /\ run'.kind = run.kind /\ run'.at = run.at
          /\ run'.journal = run.journal /\ run'.staged = run.staged /\ run'.undo = run.undo
          /\ run'.left = run.left /\ run'.trouble = run.trouble /\ run'.found = run.found
          /\ run'.late = TRUE /\ run'.touched = run.touched
      BY <1>0, <1>3 DEF Operations, Abandon, Removal
    <2>1. PluginTypes'
      <3>1. files' \in [Files -> FileContents]
        BY <1>0, <1>3
      <3>2. QED
        BY <1>0, <2>0, <3>1 DEF PluginIInv, PluginTypes
    <2>2. Placed'
      BY <2>0 DEF PluginIInv, Placed, Forward, OfFile, Undoing, Adding
    <2>3. Unique'
      BY <1>0 DEF PluginIInv, Unique
    <2>4. Journalled'
      BY <1>0, <2>0 DEF PluginIInv, Journalled, Removal, Forward, OfFile
    <2>5. Expected'
      BY <2>0 DEF Expected
    <2>6. FilesAsKnown'
      BY <2>0 DEF FilesAsKnown, Forward, OfFile, Undoing
    <2>7. DirsAsKnown'
      BY <1>0, <2>0 DEF PluginIInv, DirsAsKnown, StagedLayers, Forward, OfFile, Undoing, Placed
    <2>8. AsideAsKnown'
      BY <1>0, <2>0 DEF PluginIInv, AsideAsKnown, Staged, Forward, OfFile, Undoing, Placed
    <2>9. QED
      BY <2>1, <2>2, <2>3, <2>4, <2>5, <2>6, <2>7, <2>8 DEF PluginIInv
  <1>4. QED
    BY <1>1, <1>2, <1>3 DEF Replace, Goes

---------------------------------------------------------------------------
(* The directories. *)

LEMMA Appending ==
    ASSUME NEW s \in Seq(Stagings), NEW moved \in Stagings
    PROVE  /\ Append(s, moved) \in Seq(Stagings)
           /\ DOMAIN s = 1 .. Len(s) /\ Len(s) \in Nat
           /\ DOMAIN Append(s, moved) = 1 .. Len(s) + 1
           /\ \A i \in 1 .. Len(s) : Append(s, moved)[i] = s[i]
           /\ Append(s, moved)[Len(s) + 1] = moved
  OBVIOUS

LEMMA Behead ==
    ASSUME NEW s \in Seq(Stagings), s # <<>>
    PROVE  /\ Tail(s) \in Seq(Stagings) /\ Head(s) = s[1] /\ s[1] \in Stagings
           /\ DOMAIN s = 1 .. Len(s) /\ Len(s) \in Nat /\ 1 \in DOMAIN s
           /\ DOMAIN Tail(s) = 1 .. Len(s) - 1
           /\ \A i \in 1 .. Len(s) - 1 : Tail(s)[i] = s[i + 1]
  OBVIOUS

LEMMA Curtail ==
    ASSUME NEW s \in Seq(Stagings), s # <<>>
    PROVE  /\ ButLast(s) \in Seq(Stagings) /\ s[Len(s)] \in Stagings
           /\ DOMAIN s = 1 .. Len(s) /\ Len(s) \in Nat /\ Len(s) \in DOMAIN s
           /\ DOMAIN ButLast(s) = 1 .. Len(s) - 1
           /\ \A i \in 1 .. Len(s) - 1 : ButLast(s)[i] = s[i]
  BY DEF ButLast

LEMMA StageKeeps == PluginIInv /\ Stage => PluginIInv'
  <1> SUFFICES ASSUME PluginIInv, Stage PROVE PluginIInv'
    OBVIOUS
  <1>0. /\ run.pc = "stage" /\ run \in Operations /\ run.at \in 1 .. 4
        /\ UNCHANGED <<files, edits>>
        /\ edits \in 0 .. MaxTouches /\ MaxTouches \in Nat
        /\ dirs \in [Dirs -> {Absent} \cup 0 .. edits]
        /\ Layer \in Dirs /\ Layer \in Of(run.kind) /\ Rank(Layer) = run.at
        /\ run.pc \in Forward /\ run.staged \in Seq(Stagings)
        /\ ~run.late /\ ~run.trouble /\ run.left = {}
    BY PluginAssumption
    DEF Stage, Goes, PluginIInv, PluginTypes, Placed, Forward, OfFile, Operations
  <1>1. CASE run' = Abandon(run) /\ UNCHANGED <<dirs, aside>>
    BY <1>0, <1>1, AbandonKeeps
  <1>2. CASE dirs[Layer] = Absent /\ run' = Advance(run) /\ UNCHANGED <<dirs, aside>>
    <2>0. /\ run' \in Operations
          /\ run'.kind = run.kind
          /\ run'.journal = run.journal /\ run'.staged = run.staged /\ run'.undo = run.undo
          /\ run'.left = run.left /\ run'.trouble = run.trouble /\ run'.found = run.found
          /\ run'.late = run.late /\ run'.touched = run.touched
          /\ run'.pc \in {"capture", "stage", "commit"}
          /\ run'.pc \in {"capture", "stage"} =>
                /\ run'.at = run.at + 1
                /\ Layer' \in Of(run.kind) /\ Rank(Layer') = run'.at
          /\ run'.pc = "capture" => Layer' \in Files
          /\ run'.pc = "stage" => Layer' \in Dirs
          /\ \A l : l \in Visited' <=> l \in Of(run.kind) /\ (l \in Visited \/ l = Layer)
      BY <1>0, <1>2, Advanced
    <2>1. PluginTypes'
      BY <1>0, <1>2, <2>0 DEF PluginIInv, PluginTypes
    <2>2. Placed'
      BY <1>0, <2>0 DEF PluginIInv, Placed, Forward, OfFile, Undoing, Adding
    <2>3. Unique'
      BY <1>2 DEF PluginIInv, Unique
    <2>4. Journalled'
      BY <1>0, <2>0, RankRange DEF PluginIInv, Journalled, Removal, Forward, OfFile
    <2>5. Expected'
      BY <2>0 DEF Expected
    <2>6. FilesAsKnown'
      <3>1. Layer \notin Files
        BY <1>0 DEF Dirs, Files
      <3>2. QED
        BY <1>0, <2>0, <3>1 DEF PluginIInv, FilesAsKnown, Forward, OfFile, Undoing
    <2>7. DirsAsKnown'
      BY <1>0, <1>2, <2>0 DEF PluginIInv, DirsAsKnown, StagedLayers, Forward, OfFile, Undoing
    <2>8. AsideAsKnown'
      BY <1>0, <1>2, <2>0, RankRange DEF PluginIInv, AsideAsKnown, Staged, Forward, OfFile, Undoing
    <2>9. QED
      BY <2>1, <2>2, <2>3, <2>4, <2>5, <2>6, <2>7, <2>8 DEF PluginIInv
  <1> DEFINE moved == [layer |-> Layer, made |-> dirs[Layer]]
             r == [run EXCEPT !.staged = Append(@, moved)]
  <1>3. CASE /\ dirs[Layer] # Absent
             /\ dirs' = [dirs EXCEPT ![Layer] = Absent]
             /\ aside' = aside \cup {moved}
             /\ run' = Advance(r)
    <2>1. moved \in Stagings /\ moved \in [layer : Dirs, made : 0 .. edits]
      BY <1>0, <1>3 DEF Stagings
    <2>2. /\ Append(run.staged, moved) \in Seq(Stagings)
          /\ DOMAIN run.staged = 1 .. Len(run.staged) /\ Len(run.staged) \in Nat
          /\ DOMAIN Append(run.staged, moved) = 1 .. Len(run.staged) + 1
          /\ \A i \in 1 .. Len(run.staged) : Append(run.staged, moved)[i] = run.staged[i]
          /\ Append(run.staged, moved)[Len(run.staged) + 1] = moved
      BY <1>0, <2>1, Appending
    <2>3. /\ r \in Operations /\ r.kind = run.kind /\ r.at = run.at /\ r.journal = run.journal
          /\ r.staged = Append(run.staged, moved) /\ r.undo = run.undo
          /\ r.left = run.left /\ r.trouble = run.trouble /\ r.found = run.found
          /\ r.late = run.late /\ r.touched = run.touched
      BY <1>0, <2>2 DEF Operations
    <2> HIDE DEF r
    <2>0. /\ run' \in Operations
          /\ run'.kind = run.kind
          /\ run'.journal = run.journal /\ run'.staged = Append(run.staged, moved)
          /\ run'.undo = run.undo
          /\ run'.left = run.left /\ run'.trouble = run.trouble /\ run'.found = run.found
          /\ run'.late = run.late /\ run'.touched = run.touched
          /\ run'.pc \in {"capture", "stage", "commit"}
          /\ run'.pc \in {"capture", "stage"} =>
                /\ run'.at = run.at + 1
                /\ Layer' \in Of(run.kind) /\ Rank(Layer') = run'.at
          /\ run'.pc = "capture" => Layer' \in Files
          /\ run'.pc = "stage" => Layer' \in Dirs
          /\ \A l : l \in Visited' <=> l \in Of(run.kind) /\ (l \in Visited \/ l = Layer)
      BY <1>0, <1>3, <2>3, Advanced
    <2>4. PluginTypes'
      <3>1. dirs' \in [Dirs -> {Absent} \cup 0 .. edits]
        BY <1>0, <1>3
      <3>2. aside' \in SUBSET [layer : Dirs, made : 0 .. edits]
        BY <1>0, <1>3, <2>1 DEF PluginIInv, PluginTypes
      <3>3. QED
        BY <1>0, <2>0, <3>1, <3>2 DEF PluginIInv, PluginTypes
    <2>5. Placed'
      BY <1>0, <2>0 DEF PluginIInv, Placed, Forward, OfFile, Undoing, Adding
    <2>6. Unique'
      <3>1. [layer |-> Layer, made |-> Absent] \notin aside'
        BY <1>0, <1>3, <2>1, PluginAssumption DEF PluginIInv, PluginTypes
      <3>2. \A d \in Dirs \ {Layer} : dirs'[d] = dirs[d] /\ [layer |-> d, made |-> dirs[d]] # moved
        BY <1>0, <1>3
      <3>3. dirs'[Layer] = Absent
        BY <1>0, <1>3
      <3>4. QED
        BY <1>3, <3>1, <3>2, <3>3 DEF PluginIInv, Unique
    <2>7. Journalled'
      BY <1>0, <2>0, RankRange DEF PluginIInv, Journalled, Removal, Forward, OfFile
    <2>8. Expected'
      BY <2>0 DEF Expected
    <2>9. FilesAsKnown'
      <3>1. Layer \notin Files
        BY <1>0 DEF Dirs, Files
      <3>2. QED
        BY <1>0, <2>0, <3>1 DEF PluginIInv, FilesAsKnown, Forward, OfFile, Undoing
    <2>10. \A i \in DOMAIN run.staged : Rank(run.staged[i].layer) < run.at
      BY <1>0 DEF PluginIInv, AsideAsKnown, Forward, OfFile
    <2>11. Layer \notin StagedLayers
      BY <1>0, <2>10 DEF StagedLayers
    <2>12. StagedLayers' = StagedLayers \cup {Layer}
      BY <2>0, <2>2 DEF StagedLayers
    <2>13. Layer \notin run.touched => dirs[Layer] = run.found.dirs[Layer]
      BY <1>0, <2>11 DEF PluginIInv, DirsAsKnown
    <2>14. DirsAsKnown'
      <3> SUFFICES ASSUME NEW d \in Dirs \ run.touched
                   PROVE  /\ run'.pc \in Forward =>
                                dirs'[d] = IF d \in StagedLayers' THEN Absent ELSE run.found.dirs[d]
                          /\ run'.pc \in Forward =>
                                \A i \in DOMAIN run'.staged :
                                   run'.staged[i].layer = d => run'.staged[i].made = run.found.dirs[d]
                          /\ d \in Visited' => dirs'[d] = Absent
        BY <2>0 DEF DirsAsKnown, Forward, OfFile, Undoing
      <3>1. dirs'[d] = IF d = Layer THEN Absent ELSE dirs[d]
        BY <1>0, <1>3
      <3>2. dirs'[d] = IF d \in StagedLayers' THEN Absent ELSE run.found.dirs[d]
        BY <1>0, <2>12, <3>1 DEF PluginIInv, DirsAsKnown
      <3>3. ASSUME NEW i \in DOMAIN run'.staged, run'.staged[i].layer = d
            PROVE  run'.staged[i].made = run.found.dirs[d]
        <4>1. CASE i \in DOMAIN run.staged
          BY <1>0, <2>0, <2>2, <3>3, <4>1 DEF PluginIInv, DirsAsKnown
        <4>2. CASE i = Len(run.staged) + 1
          BY <2>0, <2>2, <2>13, <3>3, <4>2
        <4>3. QED
          BY <2>0, <2>2, <3>3, <4>1, <4>2
      <3>4. d \in Visited' => dirs'[d] = Absent
        BY <1>0, <2>0, <3>1 DEF PluginIInv, DirsAsKnown
      <3>5. QED
        BY <3>2, <3>3, <3>4
    <2>15. AsideAsKnown'
      <3>1. moved \notin aside
        BY <1>0 DEF PluginIInv, Unique
      <3>2. Staged' = Staged \cup {moved}
        BY <2>0, <2>2 DEF Staged
      <3>3. ASSUME NEW i \in DOMAIN run'.staged, NEW j \in DOMAIN run'.staged,
                   run'.staged[i].layer = run'.staged[j].layer
            PROVE  i = j
        <4>1. \A k \in DOMAIN run.staged : run.staged[k].layer # Layer
          BY <2>11 DEF StagedLayers
        <4>2. \A k, n \in DOMAIN run.staged : run.staged[k].layer = run.staged[n].layer => k = n
          BY <1>0 DEF PluginIInv, AsideAsKnown
        <4>3. QED
          BY <2>0, <2>2, <3>3, <4>1, <4>2
      <3>4. run'.pc \in Forward => \A i \in DOMAIN run'.staged : Rank(run'.staged[i].layer) < run'.at
        BY <1>0, <2>0, <2>2, <2>10, RankRange DEF Forward, OfFile
      <3>5. QED
        BY <1>0, <1>3, <2>0, <3>1, <3>2, <3>3, <3>4 DEF PluginIInv, AsideAsKnown, Undoing, Forward, OfFile
    <2>16. QED
      BY <2>4, <2>5, <2>6, <2>7, <2>8, <2>9, <2>14, <2>15 DEF PluginIInv
  <1>4. QED
    BY <1>1, <1>2, <1>3 DEF Stage, Goes

LEMMA CommitKeeps == PluginIInv /\ Commit => PluginIInv'
  <1> SUFFICES ASSUME PluginIInv, Commit PROVE PluginIInv'
    OBVIOUS
  <1>0. /\ run.pc = "commit" /\ run \in Operations
        /\ UNCHANGED <<files, dirs, edits>>
        /\ run.staged \in Seq(Stagings) /\ ~run.late /\ ~run.trouble
    BY DEF Commit, Goes, PluginIInv, PluginTypes, Placed, Operations
  <1>1. CASE run.staged = <<>> /\ run' = [run EXCEPT !.pc = "removed"] /\ UNCHANGED aside
    <2>0. /\ run' \in Operations
          /\ run'.pc = "removed" /\ run'.kind = run.kind /\ run'.at = run.at
          /\ run'.journal = run.journal /\ run'.staged = run.staged /\ run'.undo = run.undo
          /\ run'.left = run.left /\ run'.trouble = run.trouble /\ run'.found = run.found
          /\ run'.late = run.late /\ run'.touched = run.touched
      BY <1>0, <1>1 DEF Operations, Over
    <2>1. PluginTypes'
      BY <1>0, <1>1, <2>0 DEF PluginIInv, PluginTypes
    <2>2. Placed'
      BY <1>0, <1>1, <2>0 DEF PluginIInv, Placed, Forward, OfFile, Undoing, Adding
    <2>3. Unique'
      BY <1>0, <1>1 DEF PluginIInv, Unique
    <2>4. Journalled' /\ Expected'
      BY <2>0 DEF Journalled, Expected, Removal, Forward, OfFile, Undoing
    <2>5. FilesAsKnown'
      BY <1>0, <2>0 DEF PluginIInv, FilesAsKnown, Forward, OfFile, Undoing, Visited
    <2>6. DirsAsKnown'
      BY <1>0, <2>0 DEF PluginIInv, DirsAsKnown, Forward, OfFile, Undoing, Visited
    <2>7. AsideAsKnown'
      BY <1>0, <1>1, <2>0 DEF PluginIInv, AsideAsKnown, Staged, Forward, OfFile, Undoing
    <2>8. QED
      BY <2>1, <2>2, <2>3, <2>4, <2>5, <2>6, <2>7 DEF PluginIInv
  <1>2. ASSUME run.staged # <<>>, NEW left,
               run' = [run EXCEPT !.staged = Tail(@), !.left = left],
               \/ left = run.left /\ aside' = aside \ {Head(run.staged)}
               \/ left = run.left \cup {Head(run.staged)} /\ UNCHANGED aside
        PROVE  PluginIInv'
    <2>1. /\ Tail(run.staged) \in Seq(Stagings)
          /\ Head(run.staged) = run.staged[1] /\ run.staged[1] \in Stagings
          /\ DOMAIN run.staged = 1 .. Len(run.staged) /\ Len(run.staged) \in Nat
          /\ 1 \in DOMAIN run.staged
          /\ DOMAIN Tail(run.staged) = 1 .. Len(run.staged) - 1
          /\ \A i \in 1 .. Len(run.staged) - 1 : Tail(run.staged)[i] = run.staged[i + 1]
      BY <1>0, <1>2, Behead
    <2>0. /\ run' \in Operations
          /\ run'.pc = "commit" /\ run'.kind = run.kind /\ run'.at = run.at
          /\ run'.journal = run.journal /\ run'.staged = Tail(run.staged) /\ run'.undo = run.undo
          /\ run'.left = left /\ run'.trouble = run.trouble /\ run'.found = run.found
          /\ run'.late = run.late /\ run'.touched = run.touched
      <3>1. left \in SUBSET Stagings
        BY <1>0, <1>2, <2>1 DEF Operations
      <3>2. QED
        BY <1>0, <1>2, <2>1, <3>1 DEF Operations
    <2>2. PluginTypes'
      <3>1. aside' \in SUBSET [layer : Dirs, made : 0 .. edits]
        BY <1>2 DEF PluginIInv, PluginTypes
      <3>2. QED
        BY <1>0, <2>0, <3>1 DEF PluginIInv, PluginTypes
    <2>3. Placed'
      BY <1>0, <2>0 DEF PluginIInv, Placed, Forward, OfFile, Undoing, Adding
    <2>4. Unique'
      BY <1>0, <1>2 DEF PluginIInv, Unique
    <2>5. Journalled'
      BY <1>0, <2>0 DEF PluginIInv, Journalled, Removal, Forward, OfFile
    <2>6. Expected'
      BY <2>0 DEF Expected
    <2>7. FilesAsKnown'
      BY <1>0, <2>0 DEF PluginIInv, FilesAsKnown, Forward, OfFile, Undoing, Visited
    <2>8. DirsAsKnown'
      BY <1>0, <2>0 DEF PluginIInv, DirsAsKnown, Forward, OfFile, Undoing, Visited
    <2>9. AsideAsKnown'
      <3>1. \A i, j \in DOMAIN run.staged : run.staged[i].layer = run.staged[j].layer => i = j
        BY <1>0 DEF PluginIInv, AsideAsKnown
      <3>2. Staged = Staged' \cup {Head(run.staged)}
        <4>1. \A i \in DOMAIN run.staged :
                 i = 1 \/ (i - 1 \in DOMAIN run'.staged /\ run'.staged[i - 1] = run.staged[i])
          BY <2>0, <2>1
        <4>2. \A i \in DOMAIN run'.staged :
                 i + 1 \in DOMAIN run.staged /\ run'.staged[i] = run.staged[i + 1]
          BY <2>0, <2>1
        <4>3. Staged \subseteq Staged' \cup {Head(run.staged)}
          BY <2>1, <4>1 DEF Staged
        <4>4. Staged' \subseteq Staged
          BY <4>2 DEF Staged
        <4>5. Head(run.staged) \in Staged
          BY <2>1 DEF Staged
        <4>6. QED
          BY <4>3, <4>4, <4>5
      <3>3. Head(run.staged) \notin Staged'
        <4> SUFFICES ASSUME NEW i \in DOMAIN run'.staged, run'.staged[i] = Head(run.staged)
                     PROVE  FALSE
          BY DEF Staged
        <4>1. i + 1 \in DOMAIN run.staged /\ run.staged[i + 1] = run.staged[1] /\ i + 1 # 1
          BY <2>0, <2>1
        <4>2. QED
          BY <2>1, <3>1, <4>1
      <3>4. \A i, j \in DOMAIN run'.staged : run'.staged[i].layer = run'.staged[j].layer => i = j
        <4> SUFFICES ASSUME NEW i \in DOMAIN run'.staged, NEW j \in DOMAIN run'.staged,
                            run'.staged[i].layer = run'.staged[j].layer
                     PROVE  i = j
          OBVIOUS
        <4>1. /\ i \in Nat /\ j \in Nat /\ i + 1 \in DOMAIN run.staged /\ j + 1 \in DOMAIN run.staged
              /\ run.staged[i + 1].layer = run.staged[j + 1].layer
          BY <2>0, <2>1
        <4>2. i + 1 = j + 1
          BY <3>1, <4>1
        <4>3. QED
          BY <4>1, <4>2
      <3>5. /\ aside = run.found.aside \cup Staged \cup run.left
            /\ Staged \cap run.left = {} /\ (Staged \cup run.left) \cap run.found.aside = {}
        BY <1>0 DEF PluginIInv, AsideAsKnown
      <3>6. /\ aside' = run.found.aside \cup Staged' \cup left
            /\ Staged' \cap left = {} /\ (Staged' \cup left) \cap run.found.aside = {}
        BY <1>2, <3>2, <3>3, <3>5
      <3>7. QED
        BY <2>0, <3>4, <3>6 DEF AsideAsKnown, Forward, OfFile, Undoing
    <2>10. QED
      BY <2>2, <2>3, <2>4, <2>5, <2>6, <2>7, <2>8, <2>9 DEF PluginIInv
  <1>3. CASE /\ run.staged # <<>>
             /\ aside' = aside \ {Head(run.staged)}
             /\ run' = [run EXCEPT !.staged = Tail(@)]
    <2>1. run' = [run EXCEPT !.staged = Tail(@), !.left = run.left]
      BY <1>0, <1>3 DEF Operations
    <2>2. QED
      BY <1>2, <1>3, <2>1
  <1>4. CASE /\ run.staged # <<>>
             /\ run' = [run EXCEPT !.staged = Tail(@), !.left = @ \cup {Head(run.staged)}]
             /\ UNCHANGED aside
    BY <1>2, <1>4
  <1>5. QED
    BY <1>1, <1>3, <1>4 DEF Commit, Goes

LEMMA UnstageKeeps == PluginIInv /\ Unstage => PluginIInv'
  <1> SUFFICES ASSUME PluginIInv, Unstage PROVE PluginIInv'
    OBVIOUS
  <1>0. /\ run.pc = "unstage" /\ run \in Operations
        /\ UNCHANGED <<files, edits>>
        /\ edits \in 0 .. MaxTouches /\ MaxTouches \in Nat
        /\ dirs \in [Dirs -> {Absent} \cup 0 .. edits]
        /\ run.staged \in Seq(Stagings)
    BY PluginAssumption DEF Unstage, Goes, PluginIInv, PluginTypes, Operations
  <1>1. CASE /\ run.staged = <<>>
             /\ run' = [run EXCEPT !.pc = "restore", !.undo = ToRestore(run.journal)]
             /\ UNCHANGED <<dirs, aside>>
    <2>0. /\ run' \in Operations
          /\ run'.pc = "restore" /\ run'.kind = run.kind /\ run'.at = run.at
          /\ run'.journal = run.journal /\ run'.staged = run.staged
          /\ run'.undo = ToRestore(run.journal)
          /\ run'.left = run.left /\ run'.trouble = run.trouble /\ run'.found = run.found
          /\ run'.late = run.late /\ run'.touched = run.touched
      <3>1. ToRestore(run.journal) \in SUBSET Files
        BY <1>0 DEF Operations, ToRestore
      <3>2. QED
        BY <1>0, <1>1, <3>1 DEF Operations, Removal, Undoing
    <2>1. PluginTypes'
      BY <1>0, <1>1, <2>0 DEF PluginIInv, PluginTypes
    <2>2. Placed'
      BY <1>1, <2>0 DEF PluginIInv, Placed, Forward, OfFile, Undoing, Adding
    <2>3. Unique'
      BY <1>1 DEF PluginIInv, Unique
    <2>4. Journalled'
      BY <1>0, <2>0 DEF PluginIInv, Journalled, Removal, Forward, OfFile, Undoing
    <2>5. Expected'
      BY <2>0 DEF Expected
    <2>6. FilesAsKnown'
      BY <1>0, <2>0 DEF PluginIInv, FilesAsKnown, Forward, OfFile, Undoing
    <2>7. DirsAsKnown'
      BY <1>0, <1>1, <2>0 DEF PluginIInv, DirsAsKnown, StagedLayers, Forward, OfFile, Undoing
    <2>8. AsideAsKnown'
      BY <1>0, <1>1, <2>0 DEF PluginIInv, AsideAsKnown, Staged, Forward, OfFile, Undoing
    <2>9. QED
      BY <2>1, <2>2, <2>3, <2>4, <2>5, <2>6, <2>7, <2>8 DEF PluginIInv
  <1> DEFINE moved == run.staged[Len(run.staged)]
  <1>2. ASSUME run.staged # <<>>, NEW left, NEW trouble \in BOOLEAN,
               run' = [run EXCEPT !.staged = ButLast(@), !.trouble = trouble, !.left = left],
               \/ /\ left = run.left /\ trouble = run.trouble
                  /\ dirs[moved.layer] = Absent
                  /\ dirs' = [dirs EXCEPT ![moved.layer] = moved.made]
                  /\ aside' = aside \ {moved}
               \/ /\ left = run.left \cup {moved} /\ trouble = TRUE
                  /\ UNCHANGED <<dirs, aside>>
        PROVE  PluginIInv'
    <2>1. /\ ButLast(run.staged) \in Seq(Stagings) /\ moved \in Stagings
          /\ DOMAIN run.staged = 1 .. Len(run.staged) /\ Len(run.staged) \in Nat
          /\ Len(run.staged) \in DOMAIN run.staged
          /\ DOMAIN ButLast(run.staged) = 1 .. Len(run.staged) - 1
          /\ \A i \in 1 .. Len(run.staged) - 1 : ButLast(run.staged)[i] = run.staged[i]
      BY <1>0, <1>2, Curtail
    <2>0. /\ run' \in Operations
          /\ run'.pc = "unstage" /\ run'.kind = run.kind /\ run'.at = run.at
          /\ run'.journal = run.journal /\ run'.staged = ButLast(run.staged) /\ run'.undo = run.undo
          /\ run'.left = left /\ run'.trouble = trouble /\ run'.found = run.found
          /\ run'.late = run.late /\ run'.touched = run.touched
      <3>1. left \in SUBSET Stagings
        BY <1>0, <1>2, <2>1 DEF Operations
      <3>2. QED
        BY <1>0, <1>2, <2>1, <3>1 DEF Operations
    <2>2. \A i, j \in DOMAIN run.staged : run.staged[i].layer = run.staged[j].layer => i = j
      BY <1>0 DEF PluginIInv, AsideAsKnown
    <2>3. /\ aside = run.found.aside \cup Staged \cup run.left
          /\ Staged \cap run.left = {} /\ (Staged \cup run.left) \cap run.found.aside = {}
      BY <1>0 DEF PluginIInv, AsideAsKnown
    <2>4. Staged = Staged' \cup {moved} /\ moved \notin Staged'
      <3>1. \A i \in DOMAIN run.staged :
               i = Len(run.staged) \/ (i \in DOMAIN run'.staged /\ run'.staged[i] = run.staged[i])
        BY <2>0, <2>1
      <3>2. \A i \in DOMAIN run'.staged :
               i \in DOMAIN run.staged /\ run'.staged[i] = run.staged[i] /\ i # Len(run.staged)
        BY <2>0, <2>1
      <3>3. Staged \subseteq Staged' \cup {moved}
        BY <3>1 DEF Staged
      <3>4. Staged' \subseteq Staged /\ moved \in Staged
        BY <2>1, <3>2 DEF Staged
      <3>5. moved \notin Staged'
        BY <2>1, <2>2, <3>2 DEF Staged
      <3>6. QED
        BY <3>3, <3>4, <3>5
    <2>5. StagedLayers = StagedLayers' \cup {moved.layer} /\ moved.layer \notin StagedLayers'
      <3>1. \A i \in DOMAIN run.staged :
               i = Len(run.staged) \/ (i \in DOMAIN run'.staged /\ run'.staged[i] = run.staged[i])
        BY <2>0, <2>1
      <3>2. \A i \in DOMAIN run'.staged :
               i \in DOMAIN run.staged /\ run'.staged[i] = run.staged[i] /\ i # Len(run.staged)
        BY <2>0, <2>1
      <3>3. StagedLayers \subseteq StagedLayers' \cup {moved.layer}
        BY <3>1 DEF StagedLayers
      <3>4. StagedLayers' \subseteq StagedLayers /\ moved.layer \in StagedLayers
        BY <2>1, <3>2 DEF StagedLayers
      <3>5. moved.layer \notin StagedLayers'
        BY <2>1, <2>2, <3>2 DEF StagedLayers
      <3>6. QED
        BY <3>3, <3>4, <3>5
    <2>6. moved \in aside /\ moved.layer \in Dirs /\ moved.made \in 0 .. edits
      <3>1. moved \in aside
        BY <2>3, <2>4
      <3>2. QED
        BY <3>1 DEF PluginIInv, PluginTypes
    <2>7. PluginTypes'
      <3>1. aside' \in SUBSET [layer : Dirs, made : 0 .. edits]
        BY <1>2 DEF PluginIInv, PluginTypes
      <3>2. dirs' \in [Dirs -> {Absent} \cup 0 .. edits]
        BY <1>0, <1>2, <2>6
      <3>3. QED
        BY <1>0, <2>0, <3>1, <3>2 DEF PluginIInv, PluginTypes
    <2>8. Placed'
      BY <2>0 DEF PluginIInv, Placed, Forward, OfFile, Undoing, Adding
    <2>9. Unique'
      <3>1. CASE UNCHANGED <<dirs, aside>>
        BY <3>1 DEF PluginIInv, Unique
      <3>2. CASE /\ dirs' = [dirs EXCEPT ![moved.layer] = moved.made]
                 /\ aside' = aside \ {moved}
        <4>1. [layer |-> moved.layer, made |-> moved.made] = moved
          BY <2>1 DEF Stagings
        <4>2. QED
          BY <1>0, <2>6, <3>2, <4>1 DEF PluginIInv, Unique
      <3>3. QED
        BY <1>2, <3>1, <3>2
    <2>10. Journalled'
      BY <1>0, <2>0 DEF PluginIInv, Journalled, Removal, Forward, OfFile, Undoing
    <2>11. Expected'
      BY <2>0 DEF Expected
    <2>12. FilesAsKnown'
      BY <1>0, <2>0 DEF PluginIInv, FilesAsKnown, Forward, OfFile, Undoing
    <2>13. DirsAsKnown'
      <3>1. \A i \in DOMAIN run'.staged : i \in DOMAIN run.staged /\ run'.staged[i] = run.staged[i]
        BY <2>0, <2>1
      <3> SUFFICES ASSUME NEW d \in Dirs \ run.touched
                   PROVE  /\ ~trouble => dirs'[d] = IF d \in StagedLayers' THEN Absent ELSE run.found.dirs[d]
                          /\ \A i \in DOMAIN run'.staged :
                                run'.staged[i].layer = d => run'.staged[i].made = run.found.dirs[d]
        BY <2>0 DEF DirsAsKnown, Forward, OfFile, Undoing
      <3>2. \A i \in DOMAIN run.staged :
               run.staged[i].layer = d => run.staged[i].made = run.found.dirs[d]
        BY <1>0 DEF PluginIInv, DirsAsKnown
      <3>3. ~run.trouble => dirs[d] = IF d \in StagedLayers THEN Absent ELSE run.found.dirs[d]
        BY <1>0 DEF PluginIInv, DirsAsKnown
      <3>4. ASSUME ~trouble
            PROVE  dirs'[d] = IF d \in StagedLayers' THEN Absent ELSE run.found.dirs[d]
        <4>1. /\ ~run.trouble
              /\ dirs' = [dirs EXCEPT ![moved.layer] = moved.made]
          BY <1>2, <3>4
        <4>2. CASE d = moved.layer
          BY <1>0, <2>1, <2>5, <3>2, <4>1, <4>2
        <4>3. CASE d # moved.layer
          BY <1>0, <2>5, <3>3, <4>1, <4>3
        <4>4. QED
          BY <4>2, <4>3
      <3>5. QED
        BY <3>1, <3>2, <3>4
    <2>14. AsideAsKnown'
      <3>1. \A i, j \in DOMAIN run'.staged : run'.staged[i].layer = run'.staged[j].layer => i = j
        BY <2>0, <2>1, <2>2
      <3>2. /\ aside' = run.found.aside \cup Staged' \cup left
            /\ Staged' \cap left = {} /\ (Staged' \cup left) \cap run.found.aside = {}
        BY <1>2, <2>3, <2>4
      <3>3. ~trouble => left = {}
        BY <1>0, <1>2 DEF PluginIInv, AsideAsKnown
      <3>4. QED
        BY <2>0, <3>1, <3>2, <3>3 DEF AsideAsKnown, Forward, OfFile, Undoing
    <2>15. QED
      BY <2>7, <2>8, <2>9, <2>10, <2>11, <2>12, <2>13, <2>14 DEF PluginIInv
  <1>3. CASE /\ run.staged # <<>> /\ dirs[moved.layer] = Absent
             /\ dirs' = [dirs EXCEPT ![moved.layer] = moved.made]
             /\ aside' = aside \ {moved}
             /\ run' = [run EXCEPT !.staged = ButLast(@)]
    <2>1. /\ run' = [run EXCEPT !.staged = ButLast(@), !.trouble = run.trouble, !.left = run.left]
          /\ run.trouble \in BOOLEAN
      BY <1>0, <1>3 DEF Operations
    <2>2. QED
      BY <1>2, <1>3, <2>1
  <1>4. CASE /\ run.staged # <<>>
             /\ run' = [run EXCEPT !.staged = ButLast(@), !.trouble = TRUE, !.left = @ \cup {moved}]
             /\ UNCHANGED <<dirs, aside>>
    BY <1>2, <1>4
  <1>5. QED
    BY <1>1, <1>3, <1>4 DEF Unstage, Goes

---------------------------------------------------------------------------
(* The restoration of the files. *)

LEMMA ForemostOne ==
    ASSUME NEW undo \in SUBSET Files, undo # {}
    PROVE  Foremost(undo) \in undo
  BY DEF Files, Foremost

LEMMA CompareRestoredKeeps == PluginIInv /\ CompareRestored => PluginIInv'
  <1> SUFFICES ASSUME PluginIInv, CompareRestored PROVE PluginIInv'
    OBVIOUS
  <1> DEFINE path == Foremost(run.undo)
  <1>0. /\ run.pc = "restore" /\ run \in Operations /\ run.undo \in SUBSET Files /\ run.undo # {}
        /\ UNCHANGED <<files, dirs, aside, edits>>
    BY DEF CompareRestored, Goes, PluginIInv, PluginTypes, Operations
  <1>1. CASE files[path] = run.journal[path].after /\ run' = [run EXCEPT !.pc = "rewrite"]
    <2>0. /\ run' \in Operations
          /\ run'.pc = "rewrite" /\ run'.kind = run.kind /\ run'.at = run.at
          /\ run'.journal = run.journal /\ run'.staged = run.staged /\ run'.undo = run.undo
          /\ run'.left = run.left /\ run'.trouble = run.trouble /\ run'.found = run.found
          /\ run'.late = run.late /\ run'.touched = run.touched
      BY <1>0, <1>1 DEF Operations, Removal, Undoing
    <2>1. PluginTypes'
      BY <1>0, <2>0 DEF PluginIInv, PluginTypes
    <2>2. Placed'
      BY <1>0, <2>0 DEF PluginIInv, Placed, Forward, OfFile, Undoing, Adding
    <2>3. Unique'
      BY <1>0 DEF PluginIInv, Unique
    <2>4. Journalled'
      BY <1>0, <2>0 DEF PluginIInv, Journalled, Removal, Forward, OfFile, Undoing
    <2>5. Expected'
      BY <1>0, <1>1, <2>0 DEF Expected
    <2>6. FilesAsKnown'
      BY <1>0, <2>0 DEF PluginIInv, FilesAsKnown, Forward, OfFile, Undoing
    <2>7. DirsAsKnown'
      BY <1>0, <2>0 DEF PluginIInv, DirsAsKnown, StagedLayers, Forward, OfFile, Undoing
    <2>8. AsideAsKnown'
      BY <1>0, <2>0 DEF PluginIInv, AsideAsKnown, Staged, Forward, OfFile, Undoing
    <2>9. QED
      BY <2>1, <2>2, <2>3, <2>4, <2>5, <2>6, <2>7, <2>8 DEF PluginIInv
  <1>2. CASE run' = [run EXCEPT !.undo = @ \ {path}, !.trouble = TRUE]
    <2>0. /\ run' \in Operations
          /\ run'.pc = "restore" /\ run'.kind = run.kind /\ run'.at = run.at
          /\ run'.journal = run.journal /\ run'.staged = run.staged
          /\ run'.undo = run.undo \ {path}
          /\ run'.left = run.left /\ run'.trouble = TRUE /\ run'.found = run.found
          /\ run'.late = run.late /\ run'.touched = run.touched
      BY <1>0, <1>2 DEF Operations
    <2>1. PluginTypes'
      BY <1>0, <2>0 DEF PluginIInv, PluginTypes
    <2>2. Placed'
      BY <1>0, <2>0 DEF PluginIInv, Placed, Forward, OfFile, Undoing, Adding
    <2>3. Unique'
      BY <1>0 DEF PluginIInv, Unique
    <2>4. Journalled'
      BY <1>0, <2>0 DEF PluginIInv, Journalled, Removal, Forward, OfFile, Undoing
    <2>5. Expected'
      BY <2>0 DEF Expected
    <2>6. FilesAsKnown'
      BY <1>0, <2>0 DEF PluginIInv, FilesAsKnown, Forward, OfFile, Undoing
    <2>7. DirsAsKnown'
      BY <1>0, <2>0 DEF PluginIInv, DirsAsKnown, StagedLayers, Forward, OfFile, Undoing
    <2>8. AsideAsKnown'
      BY <1>0, <2>0 DEF PluginIInv, AsideAsKnown, Staged, Forward, OfFile, Undoing
    <2>9. QED
      BY <2>1, <2>2, <2>3, <2>4, <2>5, <2>6, <2>7, <2>8 DEF PluginIInv
  <1>3. QED
    BY <1>1, <1>2 DEF CompareRestored, Goes, MayRestore

LEMMA RewriteKeeps == PluginIInv /\ Rewrite => PluginIInv'
  <1> SUFFICES ASSUME PluginIInv, Rewrite PROVE PluginIInv'
    OBVIOUS
  <1> DEFINE path == Foremost(run.undo)
  <1>0. /\ run.pc = "rewrite" /\ run \in Operations /\ run.undo \in SUBSET Files
        /\ UNCHANGED <<dirs, aside, edits>>
        /\ files \in [Files -> FileContents] /\ path \in run.undo /\ path \in DOMAIN run.journal
        /\ run.journal[path].data \in FileContents /\ run.trouble \in BOOLEAN
        /\ path \notin run.touched => run.journal[path].data = run.found.files[path]
    <2>1. /\ run.pc = "rewrite" /\ run \in Operations /\ run.undo \in SUBSET Files
          /\ UNCHANGED <<dirs, aside, edits>>
          /\ files \in [Files -> FileContents] /\ path \in run.undo /\ path \in DOMAIN run.journal
          /\ run.trouble \in BOOLEAN
      BY ForemostOne DEF Rewrite, Goes, PluginIInv, PluginTypes, Placed, Operations, Undoing, ToRestore
    <2>2. run.journal[path].data \in FileContents
      BY <2>1 DEF Operations, Entries
    <2>3. path \notin run.touched => run.journal[path].data = run.found.files[path]
      BY <2>1 DEF PluginIInv, Journalled, Removal, Undoing
    <2>4. QED
      BY <2>1, <2>2, <2>3
  <1> HIDE DEF path
  <1>1. ASSUME NEW trouble \in BOOLEAN,
               run' = [run EXCEPT !.pc = "restore", !.undo = @ \ {path}, !.trouble = trouble],
               run.trouble => trouble,
               \/ files' = [files EXCEPT ![path] = run.journal[path].data]
               \/ UNCHANGED files /\ trouble
        PROVE  PluginIInv'
    <2>0. /\ run' \in Operations
          /\ run'.pc = "restore" /\ run'.kind = run.kind /\ run'.at = run.at
          /\ run'.journal = run.journal /\ run'.staged = run.staged
          /\ run'.undo = run.undo \ {path}
          /\ run'.left = run.left /\ run'.trouble = trouble /\ run'.found = run.found
          /\ run'.late = run.late /\ run'.touched = run.touched
      BY <1>0, <1>1 DEF Operations, Removal, Undoing
    <2>1. PluginTypes'
      <3>1. files' \in [Files -> FileContents]
        BY <1>0, <1>1
      <3>2. QED
        BY <1>0, <2>0, <3>1 DEF PluginIInv, PluginTypes
    <2>2. Placed'
      BY <1>0, <2>0 DEF PluginIInv, Placed, Forward, OfFile, Undoing, Adding
    <2>3. Unique'
      BY <1>0 DEF PluginIInv, Unique
    <2>4. Journalled'
      BY <1>0, <2>0 DEF PluginIInv, Journalled, Removal, Forward, OfFile, Undoing
    <2>5. Expected'
      BY <2>0 DEF Expected
    <2>6. FilesAsKnown'
      <3> SUFFICES ASSUME NEW f \in Files \ run.touched, ~run.late, ~trouble, f \notin run'.undo
                   PROVE  files'[f] = run.found.files[f]
        BY <2>0 DEF FilesAsKnown, Forward, OfFile, Undoing
      <3>1. files' = [files EXCEPT ![path] = run.journal[path].data] /\ ~run.trouble
        BY <1>1
      <3>2. CASE f = path
        BY <1>0, <3>1, <3>2
      <3>3. CASE f # path
        BY <1>0, <2>0, <3>1, <3>3 DEF PluginIInv, FilesAsKnown, Undoing
      <3>4. QED
        BY <3>2, <3>3
    <2>7. DirsAsKnown'
      BY <1>0, <1>1, <2>0 DEF PluginIInv, DirsAsKnown, StagedLayers, Forward, OfFile, Undoing
    <2>8. AsideAsKnown'
      BY <1>0, <1>1, <2>0 DEF PluginIInv, AsideAsKnown, Staged, Forward, OfFile, Undoing
    <2>9. QED
      BY <2>1, <2>2, <2>3, <2>4, <2>5, <2>6, <2>7, <2>8 DEF PluginIInv
  <1>2. CASE /\ files' = [files EXCEPT ![path] = run.journal[path].data]
             /\ run' = [run EXCEPT !.pc = "restore", !.undo = @ \ {path}]
    <2>1. run' = [run EXCEPT !.pc = "restore", !.undo = @ \ {path}, !.trouble = run.trouble]
      BY <1>0, <1>2 DEF Operations
    <2>2. QED
      BY <1>0, <1>1, <1>2, <2>1
  <1>3. CASE /\ \/ files' = [files EXCEPT ![path] = run.journal[path].data]
                \/ UNCHANGED files
             /\ run' = [[run EXCEPT !.pc = "restore", !.undo = @ \ {path}] EXCEPT !.trouble = TRUE]
    <2>1. run' = [run EXCEPT !.pc = "restore", !.undo = @ \ {path}, !.trouble = TRUE]
      BY <1>3
    <2>2. QED
      BY <1>1, <1>3, <2>1
  <1>4. QED
    BY <1>2, <1>3 DEF Rewrite, Goes, path

LEMMA EndRestoreKeeps == PluginIInv /\ EndRestore => PluginIInv'
  <1> SUFFICES ASSUME PluginIInv, EndRestore PROVE PluginIInv'
    OBVIOUS
  <1>0. /\ run.pc = "restore" /\ run \in Operations /\ run.undo = {}
        /\ UNCHANGED <<files, dirs, aside, edits>>
        /\ run' = [run EXCEPT !.pc = "failed"]
    BY DEF EndRestore, Goes, PluginIInv, PluginTypes
  <1>1. /\ run' \in Operations
        /\ run'.pc = "failed" /\ run'.kind = run.kind /\ run'.at = run.at
        /\ run'.journal = run.journal /\ run'.staged = run.staged /\ run'.undo = run.undo
        /\ run'.left = run.left /\ run'.trouble = run.trouble /\ run'.found = run.found
        /\ run'.late = run.late /\ run'.touched = run.touched
    BY <1>0 DEF Operations, Over
  <1>2. PluginTypes'
    BY <1>0, <1>1 DEF PluginIInv, PluginTypes
  <1>3. Placed'
    BY <1>0, <1>1 DEF PluginIInv, Placed, Forward, OfFile, Undoing, Adding
  <1>4. Unique'
    BY <1>0 DEF PluginIInv, Unique
  <1>5. Journalled' /\ Expected'
    BY <1>1 DEF Journalled, Expected, Removal, Forward, OfFile, Undoing
  <1>6. FilesAsKnown'
    BY <1>0, <1>1 DEF PluginIInv, FilesAsKnown, Forward, OfFile, Undoing
  <1>7. DirsAsKnown'
    BY <1>0, <1>1 DEF PluginIInv, DirsAsKnown, StagedLayers, Forward, OfFile, Undoing
  <1>8. AsideAsKnown'
    BY <1>0, <1>1 DEF PluginIInv, AsideAsKnown, Staged, Forward, OfFile, Undoing
  <1>9. QED
    BY <1>2, <1>3, <1>4, <1>5, <1>6, <1>7, <1>8 DEF PluginIInv

---------------------------------------------------------------------------
(* Beginnings, installations, kills. *)

LEMMA RankPositive == \A layer : ~(Rank(layer) < 1)
  BY DEF Rank

LEMMA Within ==
    ASSUME NEW n \in Nat, NEW e \in 0 .. n
    PROVE  0 .. e \subseteq 0 .. n
  OBVIOUS

LEMMA FirstLayer == \A kind \in Kinds : Layers(kind)[1] = "tui"
  BY DEF Kinds, Layers

LEMMA BeginKeeps ==
    ASSUME PluginIInv, NEW kind \in Kinds, NEW pc \in {"capture", "add logo", "add read"},
           BeginOperation(kind, pc)
    PROVE  PluginIInv'
  <1> DEFINE found == [files |-> files, dirs |-> dirs, aside |-> aside]
  <1>0. /\ files \in [Files -> FileContents] /\ edits \in 0 .. MaxTouches /\ MaxTouches \in Nat
        /\ dirs \in [Dirs -> {Absent} \cup 0 .. edits]
        /\ aside \in SUBSET [layer : Dirs, made : 0 .. edits]
        /\ UNCHANGED <<files, dirs, aside, edits>>
    BY PluginAssumption DEF PluginIInv, PluginTypes, BeginOperation
  <1>1. found \in Finds
    <2>0. edits \in 0 .. MaxTouches /\ MaxTouches \in Nat
      BY <1>0
    <2>1. 0 .. edits \subseteq 0 .. MaxTouches
      BY <2>0, Within
    <2>2. dirs \in [Dirs -> {Absent} \cup 0 .. MaxTouches]
      BY <1>0, <2>1
    <2>3. aside \in SUBSET Stagings
      BY <1>0, <2>1 DEF Stagings
    <2>4. QED
      BY <1>0, <2>2, <2>3 DEF Finds
  <1>2. /\ found.files = files /\ found.dirs = dirs /\ found.aside = aside
    OBVIOUS
  <1> HIDE DEF found
  <1>3. run' = Fresh(pc, kind, found)
    BY DEF BeginOperation, NoOperation, NoJournal, Fresh, found
  <1>4. run' \in Operations
    <2>1. pc \in Over \cup Removal \cup Adding
      BY DEF Removal, Forward, OfFile, Adding
    <2>2. QED
      BY <1>1, <1>3, <2>1, FreshOperation
  <1>15. /\ run'.pc \in {"capture", "add logo", "add read"} /\ run'.kind \in Kinds
        /\ run'.at = 1 /\ run'.journal = <<>> /\ run'.staged = <<>> /\ run'.undo = {}
        /\ run'.left = {} /\ run'.trouble = FALSE /\ run'.found = found
        /\ run'.late = FALSE /\ run'.touched = {}
    BY <1>3 DEF Fresh
  <1>5. PluginTypes'
    BY <1>0, <1>1, <1>15, <1>4 DEF PluginTypes
  <1>6. Layer' = "tui"
    BY <1>15, FirstLayer DEF Layer
  <1>7. Placed'
    BY <1>15, <1>6 DEF Placed, Forward, OfFile, Undoing, Adding, Of, Rank, Files
  <1>8. Unique'
    BY <1>0 DEF PluginIInv, Unique
  <1>9. Journalled' /\ Expected'
    BY <1>15, NothingYet DEF Journalled, Expected
  <1>10. \A l : l \notin Visited' /\ l \notin StagedLayers' /\ l \notin ToRestore(run'.journal)
    <2>1. \A l : l \notin Visited'
      <3>1. run'.at = 1 /\ run'.pc \notin {"commit", "removed"}
        BY <1>15
      <3>2. QED
        BY <3>1, RankPositive DEF Visited
    <2>2. \A l : l \notin StagedLayers'
      BY <1>15, NothingYet DEF StagedLayers
    <2>3. \A l : l \notin ToRestore(run'.journal)
      BY <1>15, NothingYet DEF ToRestore
    <2>4. QED
      BY <2>1, <2>2, <2>3
  <1>11. FilesAsKnown'
    BY <1>0, <1>2, <1>15, <1>10 DEF FilesAsKnown, Forward, OfFile, Undoing
  <1>12. DirsAsKnown'
    BY <1>0, <1>2, <1>15, <1>10, NothingYet DEF DirsAsKnown, Forward, OfFile, Undoing
  <1>13. AsideAsKnown'
    BY <1>0, <1>2, <1>15, NothingYet DEF AsideAsKnown, Staged
  <1>14. QED
    BY <1>5, <1>7, <1>8, <1>9, <1>11, <1>12, <1>13 DEF PluginIInv

(* An installation makes no promise of what a failure leaves behind.       *)
LEMMA InstallingKeeps == PluginIInv /\ Installing => PluginIInv'
  <1> SUFFICES ASSUME PluginIInv, Installing PROVE PluginIInv'
    OBVIOUS
  <1>0. /\ run.pc \in Adding /\ run \in Operations /\ UNCHANGED <<dirs, aside, edits>>
        /\ files \in [Files -> FileContents] /\ run.next \in FileContents /\ run.kind \in Kinds
        /\ files["tui"] \in FileContents
    BY DEF Installing, AddLogo, AddRead, AddWrite, Goes, PluginIInv, PluginTypes, Adding,
           Operations, Files
  <1> DEFINE Same(r) ==
             /\ r \in Operations /\ r.kind = run.kind /\ r.at = run.at
             /\ r.journal = run.journal /\ r.staged = run.staged /\ r.undo = run.undo
             /\ r.left = run.left /\ r.found = run.found
             /\ r.late = run.late /\ r.touched = run.touched
             /\ r.pc \in {"add read", "add write", "added", "failed"}
             /\ r.pc = "failed" => r.trouble
  <1>1. Same(run')
    <2>1. CASE AddLogo
      <3>1. \/ run' = [run EXCEPT !.pc = "add read"]
            \/ run' = [run EXCEPT !.pc = "failed", !.trouble = TRUE]
        BY <2>1 DEF AddLogo, Goes
      <3>2. QED
        BY <1>0, <3>1 DEF Operations, Over, Adding
    <2>2. CASE AddRead
      <3> DEFINE tui == files["tui"]
                 list == IF Parsed(tui) THEN tui ELSE EmptyText
                 content == [StringSlice(list) EXCEPT !.names = @ \cup {run.kind}]
      <3>1. tui # Broken => content \in FileContents
        <4>1. tui # Broken => list \in Texts
          BY <1>0, PluginAssumption DEF Parsed, FileContents, Texts, EmptyText
        <4> HIDE DEF list
        <4>2. run.kind \in PluginEntries
          BY <1>0 DEF Kinds, PluginEntries
        <4>3. QED
          BY <1>0, <4>1, <4>2 DEF FileContents, Texts, StringSlice
      <3>2. \/ run' = [run EXCEPT !.pc = "failed", !.trouble = TRUE]
            \/ run' = [run EXCEPT !.pc = "added"]
            \/ tui # Broken /\ run' = [run EXCEPT !.pc = "add write", !.next = content]
        BY <2>2 DEF AddRead, Goes
      <3> HIDE DEF content, tui
      <3>3. QED
        BY <1>0, <3>1, <3>2 DEF Operations, Over, Adding
    <2>3. CASE AddWrite
      <3>1. \/ run' = [run EXCEPT !.pc = "added"]
            \/ run' = [run EXCEPT !.pc = "failed", !.trouble = TRUE]
        BY <2>3 DEF AddWrite, Goes
      <3>2. QED
        BY <1>0, <3>1 DEF Operations, Over, Adding
    <2>4. QED
      BY <2>1, <2>2, <2>3 DEF Installing
  <1>2. files' \in [Files -> FileContents]
    <2>1. EmptyText \in FileContents
      BY PluginAssumption DEF FileContents, Texts, EmptyText
    <2>2. QED
      BY <1>0, <2>1 DEF Installing, AddLogo, AddRead, AddWrite
  <1>3. PluginTypes'
    BY <1>0, <1>1, <1>2 DEF PluginIInv, PluginTypes, Adding
  <1>4. Placed'
    BY <1>0, <1>1 DEF PluginIInv, Placed, Forward, OfFile, Undoing, Adding
  <1>5. Unique'
    BY <1>0 DEF PluginIInv, Unique
  <1>6. Journalled' /\ Expected' /\ FilesAsKnown' /\ DirsAsKnown'
    BY <1>1 DEF Journalled, Expected, FilesAsKnown, DirsAsKnown, Removal, Forward, OfFile, Undoing
  <1>7. AsideAsKnown'
    <2>1. run.pc \notin {"idle", "killed"} /\ run'.pc \notin Forward \cup {"unstage"} \cup Undoing
      BY <1>0, <1>1 DEF Adding, Forward, OfFile, Undoing
    <2>2. run'.staged = run.staged /\ run'.left = run.left /\ run'.found = run.found
      BY <1>1
    <2>3. run'.pc = "failed" => run'.trouble
      BY <1>1
    <2>4. QED
      BY <1>0, <2>1, <2>2, <2>3 DEF PluginIInv, AsideAsKnown, Staged
  <1>8. QED
    BY <1>3, <1>4, <1>5, <1>6, <1>7 DEF PluginIInv

LEMMA CrashKeeps == PluginIInv /\ Crash => PluginIInv'
  <1> SUFFICES ASSUME PluginIInv, Crash PROVE PluginIInv'
    OBVIOUS
  <1>0. /\ UNCHANGED <<files, dirs, aside, edits>>
        /\ run' = Fresh("killed", "npm", <<>>)
    BY DEF Crash, Goes, NoOperation, NoJournal, Fresh
  <1>1. run' \in Operations
    BY <1>0, FreshOperation DEF Over, Kinds
  <1>2. run'.pc = "killed"
    BY <1>0 DEF Fresh
  <1>3. PluginTypes'
    BY <1>0, <1>1, <1>2 DEF PluginIInv, PluginTypes
  <1>4. Placed' /\ Journalled' /\ Expected' /\ FilesAsKnown' /\ DirsAsKnown' /\ AsideAsKnown'
    BY <1>2 DEF Placed, Journalled, Expected, FilesAsKnown, DirsAsKnown, AsideAsKnown,
                Removal, Forward, OfFile, Undoing, Adding
  <1>5. Unique'
    BY <1>0 DEF PluginIInv, Unique
  <1>6. QED
    BY <1>3, <1>4, <1>5 DEF PluginIInv

---------------------------------------------------------------------------
(* The others. *)

LEMMA Touching ==
    ASSUME PluginIInv, NEW layer \in Files \cup Dirs, Touch(layer)
    PROVE  /\ run' \in Operations
           /\ run'.pc = run.pc /\ run'.kind = run.kind /\ run'.at = run.at
           /\ run'.journal = run.journal /\ run'.next = run.next /\ run'.staged = run.staged
           /\ run'.undo = run.undo /\ run'.left = run.left /\ run'.trouble = run.trouble
           /\ run'.found = run.found /\ run'.late = run.late
           /\ run'.touched = run.touched \cup {layer}
           /\ \A l : l \in run'.noticeable => IF l = layer THEN ~Unnoticed(layer) ELSE l \in run.noticeable
           /\ edits' = edits + 1 /\ edits' \in 0 .. MaxTouches
  <1>1. run \in Operations /\ edits \in 0 .. MaxTouches /\ MaxTouches \in Nat
    BY PluginAssumption DEF PluginIInv, PluginTypes
  <1>2. edits' = edits + 1 /\ edits' \in 0 .. MaxTouches
    BY <1>1 DEF Touch
  <1> DEFINE seen == IF Unnoticed(layer) THEN run.noticeable \ {layer}
                                         ELSE run.noticeable \cup {layer}
  <1>3. seen \in SUBSET (Files \cup Dirs)
    BY <1>1 DEF Operations
  <1>4. \A l : l \in seen => IF l = layer THEN ~Unnoticed(layer) ELSE l \in run.noticeable
    OBVIOUS
  <1> HIDE DEF seen
  <1>5. run' = [run EXCEPT !.touched = run.touched \cup {layer}, !.noticeable = seen]
    BY <1>1 DEF Touch, Operations, seen
  <1>6. QED
    BY <1>1, <1>2, <1>3, <1>4, <1>5 DEF Operations

(* What an edit leaves alone: all but the expectations, and what is known  *)
(* of what was not touched.                                                *)
LEMMA TouchKeeps ==
    ASSUME PluginIInv, NEW layer \in Files \cup Dirs, Touch(layer), UNCHANGED aside,
           files' \in [Files -> FileContents], dirs' \in [Dirs -> {Absent} \cup 0 .. edits'],
           \A f \in Files \ {layer} : files'[f] = files[f],
           \A d \in Dirs \ {layer} : dirs'[d] = dirs[d],
           Unique', Expected'
    PROVE  PluginIInv'
  <1>0. /\ run' \in Operations
        /\ run'.pc = run.pc /\ run'.kind = run.kind /\ run'.at = run.at
        /\ run'.journal = run.journal /\ run'.staged = run.staged
        /\ run'.undo = run.undo /\ run'.left = run.left /\ run'.trouble = run.trouble
        /\ run'.found = run.found /\ run'.late = run.late
        /\ run'.touched = run.touched \cup {layer}
        /\ edits' = edits + 1 /\ edits' \in 0 .. MaxTouches
    BY Touching
  <1>1. PluginTypes'
    <2>1. 0 .. edits \subseteq 0 .. edits'
      BY <1>0 DEF PluginIInv, PluginTypes
    <2>2. aside' \in SUBSET [layer : Dirs, made : 0 .. edits']
      BY <2>1 DEF PluginIInv, PluginTypes
    <2>3. QED
      BY <1>0, <2>2 DEF PluginIInv, PluginTypes
  <1>2. Placed'
    BY <1>0 DEF PluginIInv, Placed, Layer
  <1>3. Journalled'
    BY <1>0 DEF PluginIInv, Journalled, Layer
  <1>4. FilesAsKnown'
    BY <1>0 DEF PluginIInv, FilesAsKnown, Visited
  <1>5. DirsAsKnown'
    BY <1>0 DEF PluginIInv, DirsAsKnown, Visited, StagedLayers
  <1>6. AsideAsKnown'
    BY <1>0 DEF PluginIInv, AsideAsKnown, Staged
  <1>7. QED
    BY <1>1, <1>2, <1>3, <1>4, <1>5, <1>6 DEF PluginIInv

LEMMA EditFileKeeps ==
    ASSUME PluginIInv, NEW path \in {"tui", "package"},
           NEW texts \in SUBSET [names : SUBSET PluginEntries, odd : SUBSET PluginEntries],
           EditFile(path, texts)
    PROVE  PluginIInv'
  <1>1. /\ path \in Files \cup Dirs /\ path \in Files /\ Touch(path) /\ UNCHANGED <<dirs, aside>>
        /\ files \in [Files -> FileContents] /\ dirs \in [Dirs -> {Absent} \cup 0 .. edits]
    BY DEF EditFile, Files, PluginIInv, PluginTypes
  <1>2. /\ run'.pc = run.pc /\ Layer' = Layer /\ run'.journal = run.journal
        /\ run'.undo = run.undo /\ run'.next = run.next /\ run'.kind = run.kind
        /\ \A l : l \in run'.noticeable => IF l = path THEN ~Unnoticed(path) ELSE l \in run.noticeable
        /\ edits' = edits + 1 /\ edits' \in 0 .. MaxTouches
    BY <1>1, Touching DEF Layer
  <1>3. PICK content \in {Absent, Broken} \cup {Noted(text, edits + 1) : text \in texts} :
           /\ path \in DOMAIN run.journal => content # run.journal[path].data
           /\ files' = [files EXCEPT ![path] = content]
    BY DEF EditFile
  <1>4. content \in FileContents
    <2>1. edits + 1 \in 0 .. MaxTouches
      BY <1>2
    <2>2. \A text \in texts : Noted(text, edits + 1) \in Texts
      BY <2>1 DEF Texts, Noted
    <2>3. QED
      BY <1>3, <2>2 DEF FileContents
  <1>5. files' \in [Files -> FileContents] /\ \A f \in Files \ {path} : files'[f] = files[f]
    BY <1>1, <1>3, <1>4
  <1>6. dirs' \in [Dirs -> {Absent} \cup 0 .. edits']
    <2>1. 0 .. edits \subseteq 0 .. edits'
      BY <1>2 DEF PluginIInv, PluginTypes
    <2>2. QED
      BY <1>1, <2>1
  <1>7. Unique'
    BY <1>1 DEF PluginIInv, Unique
  <1>8. Expected'
    <2>1. ASSUME run.pc = "compare", files'[Layer] = run.journal[Layer].data
          PROVE  /\ NamesPlugin(Layer, run.kind, run.journal[Layer].data)
                 /\ run.next = WithoutPlugin(Layer, run.kind, run.journal[Layer].data)
      <3>1. Layer \in Files /\ Layer \in DOMAIN run.journal
        BY <2>1 DEF PluginIInv, Placed, Journalled, Removal, Forward, OfFile
      <3>2. Layer # path
        BY <1>1, <1>3, <2>1, <3>1
      <3>3. files[Layer] = run.journal[Layer].data
        BY <1>5, <2>1, <3>1, <3>2
      <3>4. QED
        BY <2>1, <3>3 DEF PluginIInv, Expected
    <2>2. ASSUME run.pc = "replace"
          PROVE  /\ NamesPlugin(Layer, run.kind, run.journal[Layer].data)
                 /\ run.next = WithoutPlugin(Layer, run.kind, run.journal[Layer].data)
                 /\ Layer \in run'.noticeable => files'[Layer] = run.journal[Layer].data
      <3>1. Layer \in Files
        BY <2>2 DEF PluginIInv, Placed, OfFile
      <3>2. Layer \in run'.noticeable => Layer # path /\ Layer \in run.noticeable
        BY <1>2, <2>2 DEF Unnoticed
      <3>3. QED
        BY <1>5, <2>2, <3>1, <3>2 DEF PluginIInv, Expected
    <2>3. ASSUME run.pc = "rewrite", Foremost(run.undo) \in run'.noticeable
          PROVE  files'[Foremost(run.undo)] = run.journal[Foremost(run.undo)].after
      <3>1. Foremost(run.undo) \in Files
        BY DEF Foremost, Files
      <3>2. Foremost(run.undo) # path /\ Foremost(run.undo) \in run.noticeable
        BY <1>2, <2>3 DEF Unnoticed
      <3>3. QED
        BY <1>5, <2>3, <3>1, <3>2 DEF PluginIInv, Expected
    <2>4. QED
      BY <1>2, <2>1, <2>2, <2>3 DEF Expected
  <1>9. QED
    BY <1>1, <1>5, <1>6, <1>7, <1>8, TouchKeeps

LEMMA OpenCodeInstallsKeeps ==
    ASSUME PluginIInv, NEW dir \in Dirs, OpenCodeInstalls(dir)
    PROVE  PluginIInv'
  <1>1. /\ dir \in Files \cup Dirs /\ dir \notin Files /\ Touch(dir) /\ UNCHANGED <<files, aside>>
        /\ files \in [Files -> FileContents] /\ dirs \in [Dirs -> {Absent} \cup 0 .. edits]
        /\ dirs' = [dirs EXCEPT ![dir] = edits + 1] /\ edits \in 0 .. MaxTouches
        /\ aside \in SUBSET [layer : Dirs, made : 0 .. edits] /\ MaxTouches \in Nat
    BY PluginAssumption DEF OpenCodeInstalls, Files, Dirs, PluginIInv, PluginTypes
  <1>2. /\ run'.pc = run.pc /\ Layer' = Layer /\ run'.journal = run.journal
        /\ run'.undo = run.undo /\ run'.next = run.next /\ run'.kind = run.kind
        /\ \A l : l \in run'.noticeable => IF l = dir THEN ~Unnoticed(dir) ELSE l \in run.noticeable
        /\ edits' = edits + 1 /\ edits' \in 0 .. MaxTouches
    BY <1>1, Touching DEF Layer
  <1>3. dirs' \in [Dirs -> {Absent} \cup 0 .. edits'] /\ \A d \in Dirs \ {dir} : dirs'[d] = dirs[d]
    <2>1. 0 .. edits \subseteq 0 .. edits' /\ edits + 1 \in 0 .. edits'
      BY <1>1, <1>2
    <2>2. QED
      BY <1>1, <2>1
  <1>4. Unique'
    <2>1. \A d \in Dirs \ {dir} : [layer |-> d, made |-> dirs'[d]] \notin aside
      BY <1>3 DEF PluginIInv, Unique
    <2>2. edits + 1 \notin 0 .. edits
      BY <1>1
    <2>3. [layer |-> dir, made |-> edits + 1] \notin aside
      BY <1>1, <2>2
    <2>4. dirs'[dir] = edits + 1
      BY <1>1
    <2>5. QED
      BY <1>1, <2>1, <2>3, <2>4 DEF Unique
  <1>5. Expected'
    <2>1. run.pc \in {"compare", "replace"} => Layer \in Files
      BY DEF PluginIInv, Placed, OfFile
    <2>2. Foremost(run.undo) \in Files
      BY DEF Foremost, Files
    <2>3. \A f \in Files : f \in run'.noticeable => f \in run.noticeable
      BY <1>1, <1>2
    <2>4. QED
      BY <1>1, <1>2, <2>1, <2>2, <2>3 DEF PluginIInv, Expected
  <1>6. QED
    BY <1>1, <1>3, <1>4, <1>5, TouchKeeps

LEMMA OthersKeep == PluginIInv /\ Others => PluginIInv'
  <1>1. ASSUME PluginIInv, EditFile("tui", TuiTexts) PROVE PluginIInv'
    BY <1>1, EditFileKeeps, PluginAssumption
  <1>2. ASSUME PluginIInv, EditFile("package", PackageTexts) PROVE PluginIInv'
    BY <1>2, EditFileKeeps, PluginAssumption
  <1>3. ASSUME PluginIInv, NEW dir \in Dirs, OpenCodeInstalls(dir) PROVE PluginIInv'
    BY <1>3, OpenCodeInstallsKeeps
  <1>4. QED
    BY <1>1, <1>2, <1>3 DEF Others

LEMMA NextPlugin == PluginIInv /\ [PluginNext]_pluginVars => PluginIInv'
  <1> SUFFICES ASSUME PluginIInv, [PluginNext]_pluginVars PROVE PluginIInv'
    OBVIOUS
  <1>1. CASE BeginUninstall
    BY <1>1, BeginKeeps DEF BeginUninstall
  <1>2. CASE Uninstalling
    BY <1>2, CaptureKeeps, EditKeeps, CompareKeeps, ReplaceKeeps, StageKeeps, CommitKeeps,
       UnstageKeeps, CompareRestoredKeeps, RewriteKeeps, EndRestoreKeeps DEF Uninstalling
  <1>3. CASE BeginInstall
    BY <1>3, BeginKeeps DEF BeginInstall
  <1>4. CASE Installing
    BY <1>4, InstallingKeeps
  <1>5. CASE Crash
    BY <1>5, CrashKeeps
  <1>6. CASE Others
    BY <1>6, OthersKeep
  <1>7. CASE UNCHANGED pluginVars
    <2>1. UNCHANGED <<files, dirs, aside, run, edits>>
      BY <1>7 DEF pluginVars
    <2>2. PluginTypes' /\ Placed' /\ Unique'
      BY <2>1 DEF PluginIInv, PluginTypes, Placed, Layer, Unique
    <2>3. Journalled' /\ Expected'
      BY <2>1 DEF PluginIInv, Journalled, Expected, Layer
    <2>4. FilesAsKnown' /\ DirsAsKnown' /\ AsideAsKnown'
      BY <2>1 DEF PluginIInv, FilesAsKnown, DirsAsKnown, AsideAsKnown, Visited, StagedLayers, Staged
    <2>5. QED
      BY <2>2, <2>3, <2>4 DEF PluginIInv
  <1>8. QED
    BY <1>1, <1>2, <1>3, <1>4, <1>5, <1>6, <1>7 DEF PluginNext

(* Whatever fails, whoever writes, wherever the program is killed.         *)
THEOREM PluginInvariance == PluginSpec => []PluginIInv
  BY InitialPlugin, NextPlugin, PTL DEF PluginSpec

---------------------------------------------------------------------------
(* What the invariant says of a removal that is over. *)

LEMMA RemovalAtomic == PluginIInv => UninstallIsAtomic
  <1> SUFFICES ASSUME PluginIInv PROVE UninstallIsAtomic
    OBVIOUS
  <1> DEFINE mine == {f \in Files : \E i \in DOMAIN Layers(run.kind) : Layers(run.kind)[i] = f}
             gone == {d \in Dirs : \E i \in DOMAIN Layers(run.kind) : Layers(run.kind)[i] = d}
  <1>0. run \in Operations /\ run.kind \in Kinds
    BY DEF PluginIInv, PluginTypes, Operations
  <1>1. mine \subseteq Of(run.kind) /\ gone \subseteq Of(run.kind)
    BY <1>0, RankOfLayer
  <1>2. ASSUME run.pc = "removed"
        PROVE  /\ \A f \in mine \ run.touched :
                     TakenOut(f, run.kind, run.found.files[f], files[f])
               /\ \A d \in gone \ run.touched : dirs[d] = Absent
               /\ aside \ run.found.aside = run.left
    <2>1. ~run.late /\ run.staged = <<>>
      BY <1>2 DEF PluginIInv, Placed
    <2>2. \A l \in mine \cup gone : l \in Visited
      BY <1>1, <1>2 DEF Visited
    <2>3. \A f \in mine \ run.touched :
             files[f] = IF NamesPlugin(f, run.kind, run.found.files[f])
                        THEN WithoutPlugin(f, run.kind, run.found.files[f])
                        ELSE run.found.files[f]
      BY <1>2, <2>1, <2>2 DEF PluginIInv, FilesAsKnown
    <2>8. \A f \in mine \ run.touched : TakenOut(f, run.kind, run.found.files[f], files[f])
      <3>1. run.found \in Finds
        BY <1>2 DEF PluginIInv, PluginTypes
      <3>2. QED
        BY <1>0, <2>3, <3>1, WithoutIsTakenOut DEF Finds
    <2>4. \A d \in gone \ run.touched : dirs[d] = Absent
      BY <1>2, <2>2 DEF PluginIInv, DirsAsKnown
    <2>5. Staged = {}
      BY <2>1, NothingYet DEF Staged
    <2>6. aside \ run.found.aside = run.left
      BY <1>2, <2>5 DEF PluginIInv, AsideAsKnown
    <2>7. QED
      BY <2>8, <2>4, <2>6
  <1>3. ASSUME run.pc = "failed", ~run.trouble, ~run.late
        PROVE  /\ \A f \in Files \ run.touched : files[f] = run.found.files[f]
               /\ \A d \in Dirs \ run.touched : dirs[d] = run.found.dirs[d]
               /\ aside = run.found.aside
    <2>1. run.undo = {} /\ run.staged = <<>>
      BY <1>3 DEF PluginIInv, Placed
    <2>2. \A f \in Files \ run.touched : files[f] = run.found.files[f]
      BY <1>3, <2>1 DEF PluginIInv, FilesAsKnown
    <2>3. StagedLayers = {} /\ Staged = {}
      BY <2>1, NothingYet DEF StagedLayers, Staged
    <2>4. \A d \in Dirs \ run.touched : dirs[d] = run.found.dirs[d]
      BY <1>3, <2>3 DEF PluginIInv, DirsAsKnown
    <2>5. aside = run.found.aside
      BY <1>3, <2>3 DEF PluginIInv, AsideAsKnown, Undoing
    <2>6. QED
      BY <2>2, <2>4, <2>5
  <1>4. QED
    BY <1>2, <1>3 DEF UninstallIsAtomic, Untouched

(* Only two steps of a removal write a file: the replacement of a file by  *)
(* what was made of its before-image, and the restoration of that image.   *)
LEMMA EditsKept == PluginIInv /\ Uninstalling => KeepsForeignEdits
  <1> SUFFICES ASSUME PluginIInv, Uninstalling,
                      NEW f \in run.noticeable \cap {"tui", "package"}
               PROVE  Note(files'[f]) = Note(files[f])
    BY DEF KeepsForeignEdits
  <1>0. /\ run \in Operations /\ run.kind \in Kinds /\ files \in [Files -> FileContents]
        /\ f \in Files /\ f # "logo" /\ files[f] \in FileContents
    BY DEF PluginIInv, PluginTypes, Operations, Files
  <1>1. CASE UNCHANGED files
    BY <1>1
  <1>2. CASE Replace /\ files' = [files EXCEPT ![Layer] = run.next]
    <2>1. CASE f = Layer
      <3>1. /\ NamesPlugin(f, run.kind, files[f])
            /\ run.next = WithoutPlugin(f, run.kind, files[f])
        BY <1>2, <2>1 DEF Replace, PluginIInv, Expected
      <3>2. files'[f] = run.next
        BY <1>0, <1>2, <2>1
      <3>3. QED
        BY <1>0, <3>1, <3>2, ReadableWithout
    <2>2. CASE f # Layer
      BY <1>0, <1>2, <2>2
    <2>3. QED
      BY <2>1, <2>2
  <1>3. CASE Rewrite /\ files' = [files EXCEPT ![Foremost(run.undo)] =
                                     run.journal[Foremost(run.undo)].data]
    <2> DEFINE data == run.journal[f].data
    <2>1. CASE f = Foremost(run.undo)
      <3>1. run.pc = "rewrite" /\ run.undo # {} /\ run.undo \subseteq ToRestore(run.journal)
        BY <1>3 DEF Rewrite, PluginIInv, Placed, Undoing
      <3>2. run.undo \subseteq Files
        BY <1>0 DEF Operations
      <3>3. f \in ToRestore(run.journal)
        BY <2>1, <3>1, <3>2 DEF Foremost, Files
      <3>4. /\ NamesPlugin(f, run.kind, data)
            /\ run.journal[f].after = WithoutPlugin(f, run.kind, data)
        BY <3>1, <3>3 DEF PluginIInv, Journalled, Removal, Undoing, ToRestore
      <3>5. data \in FileContents
        <4>1. PICK S \in SUBSET Files : run.journal \in [S -> Entries]
          BY <1>0 DEF Operations
        <4>2. run.journal[f] \in Entries
          BY <3>3, <4>1 DEF ToRestore
        <4>3. QED
          BY <4>2 DEF Entries
      <3>6. files[f] = WithoutPlugin(f, run.kind, data)
        BY <2>1, <3>1, <3>4 DEF PluginIInv, Expected
      <3>7. files'[f] = data
        BY <1>0, <1>3, <2>1
      <3>8. QED
        BY <1>0, <3>4, <3>5, <3>6, <3>7, ReadableWithout
    <2>2. CASE f # Foremost(run.undo)
      BY <1>0, <1>3, <2>2
    <2>3. QED
      BY <2>1, <2>2
  <1>4. QED
    BY <1>1, <1>2, <1>3 DEF Uninstalling, Capture, EditLayer, Compare, Replace, Stage, Commit,
                            Unstage, CompareRestored, Rewrite, EndRestore

(* A removal takes the plugin from all of its layers or reports, and what  *)
(* others write meanwhile is not overwritten (Uninstall, verifyCurrent),   *)
(* for any number of operations and of edits.                              *)
THEOREM RemovalSafety == PluginSpec => RemovalIsClean
  <1>1. PluginIInv /\ PluginIInv' /\ [PluginNext]_pluginVars
           => [UninstallIsAtomic' /\ KeepsForeignEdits]_pluginVars
    <2> SUFFICES ASSUME PluginIInv, PluginIInv' PROVE UninstallIsAtomic' /\ KeepsForeignEdits
      OBVIOUS
    <2>1. UninstallIsAtomic'
      BY RemovalAtomic, PTL
    <2>2. KeepsForeignEdits
      BY EditsKept DEF KeepsForeignEdits
    <2>3. QED
      BY <2>1, <2>2
  <1>2. QED
    BY <1>1, PluginInvariance, PTL DEF PluginSpec, RemovalIsClean

---------------------------------------------------------------------------
(* Pi's CodeGraph integration. *)

FileOf(p, notes) == IF p = "mcp" THEN McpFiles(notes) ELSE ChildTexts(notes)
MaybeFile(p, notes) == {NoFile} \cup FileOf(p, notes)

(* What the user had in an original is in a content of the same path. An   *)
(* mcp.json that is not the user's has no note.                            *)
Keeps(p, o, content) ==
    /\ o # NoFile =>
         /\ content # NoFile /\ content.note = o.note
         /\ p = "mcp" => /\ o.codegraph = "other" => content.codegraph = "other"
                         /\ o.servers => content.servers
    /\ o = NoFile /\ p = "mcp" => content = NoFile \/ content.note = 0

(* A record of an owned file: what was there and what was made of it hold  *)
(* the same notes, and the same entries of the others.                     *)
IsOwned(p, r, notes) ==
    /\ r = [before |-> r.before, after |-> r.after]
    /\ r.before \in MaybeFile(p, notes) /\ r.after \in FileOf(p, notes)
    /\ r.before # NoFile => r.after.note = r.before.note
    /\ p = "mcp" =>
        /\ r.after.codegraph = "ours"
        /\ IF r.before = NoFile THEN ~ r.after.servers /\ r.after.note = 0
           ELSE r.after.servers = r.before.servers

(* A file that was not there before is not given back over one that the    *)
(* user, or another component, has made since.                             *)
Differs(p, o, r) ==
    o # NoFile /\ r.before = NoFile =>
        r.after.note # o.note \/ (p = "mcp" /\ o.servers)

IsLedger(os, book, notes) ==
    /\ book = [mcp |-> book.mcp, children |-> book.children]
    /\ book.children = [p \in DOMAIN book.children |-> book.children[p]]
    /\ DOMAIN book.children \subseteq ChildFiles
    /\ \A r \in book.mcp : IsOwned("mcp", r, notes) /\ \A o \in os : Differs("mcp", o["mcp"], r)
    /\ \A p \in DOMAIN book.children :
          /\ IsOwned(p, book.children[p], notes)
          /\ \A o \in os : Differs(p, o[p], book.children[p])

IsManifest(os, book, notes) == book = NoFile \/ IsLedger(os, book, notes)

IsHome(os, f, notes) ==
    /\ f = [p \in Paths |-> f[p]]
    /\ \A p \in Paths : f[p] \in MaybeFile(p, notes) /\ \A o \in os : Keeps(p, o[p], f[p])

IsLog(os, j, notes) ==
    /\ DOMAIN j \subseteq Paths \cup {"manifest"}
    /\ \A p \in Paths : p \in DOMAIN j =>
          j[p] \in MaybeFile(p, notes) /\ \A o \in os : Keeps(p, o[p], j[p])
    /\ "manifest" \in DOMAIN j => IsManifest(os, j["manifest"], notes)

IsOriginal(o, notes) ==
    o = [p \in Paths |-> o[p]] /\ \A p \in Paths : o[p] \in MaybeFile(p, notes)

(* A command that may be rolled back remembers what it found.              *)
Recalls(c) == c.pc # "ended" /\ c.kind # "uninstall"
Origins(c, o) == {o} \cup (IF Recalls(c) THEN {c.found.original} ELSE {})

Remembers(c, notes) ==
    Recalls(c) =>
        /\ IsOriginal(c.found.original, notes)
        /\ IsHome({c.found.original}, c.found.files, notes)
        /\ IsManifest({c.found.original}, c.found.manifest, notes)
        /\ c.found.covered \subseteq Paths /\ "mcp" \in c.found.covered
        /\ c.found.manifest # NoFile => DOMAIN c.found.manifest.children \subseteq c.found.covered
        /\ \A p \in Paths \ c.found.covered : c.found.original[p] = NoFile

Reconciles == {"mcp", "missing", "child"}
Holders == Reconciles \cup {"verify", "manifest", "remove"}

InStep(c, f, s) ==
    /\ c.pc \in {"ended", "phase", "mcp"} => DOMAIN c.journal = {}
    /\ c.pc \in Reconciles =>
         \A p \in ChildFiles \cap DOMAIN c.journal :
            c.journal[p] # NoFile => f[p] # NoFile /\ f[p].note = c.journal[p].note
    /\ c.pc = "child" =>
         \A p \in c.queue : p \in ChildFiles /\ (f[p] = NoFile => p = "overlay" /\ s # NoFile)

Todos ==
    {<<"packages", "reconcile", "components", "reconcile">>,
     <<"reconcile", "components", "reconcile">>, <<"components", "reconcile">>, <<"reconcile">>,
     <<"packages", "components", "remove">>, <<"components", "remove">>, <<"remove">>,
     <<"components", "refresh">>, <<"refresh">>, <<"remove", "restore">>, <<"restore">>, <<>>}

(* An uninstall cleans up when the manifest is gone.                       *)
Agenda(c, book) ==
    IF c.kind = "uninstall"
    THEN /\ c.collect = FALSE
         /\ \/ c.todo = <<"remove", "cleanup">> /\ c.pc \in {"phase", "remove", "undo"}
            \/ c.todo = <<"cleanup">> /\ c.pc = "phase" /\ book = NoFile
            \/ c.todo = <<>> /\ c.pc \in {"phase", "ended"}
    ELSE c.todo \in Todos /\ (c.pc \notin {"phase", "ended"} => c.todo # <<>>)

Fields ==
    {"kind", "collect", "pc", "todo", "held", "journal", "queue", "bad", "worked",
     "failed", "rolling", "trouble", "found", "begun"}

IsCommand(c, os, f, book, s, notes) ==
    /\ DOMAIN c = Fields
    /\ c.pc \in Holders => IsLedger(os, c.held, notes)
    /\ IsLog(os, c.journal, notes)
    /\ InStep(c, f, s) /\ Agenda(c, book) /\ Remembers(c, notes)

Notes == 0 .. piEdits
Known == Origins(pi, original)

PiIInv ==
    /\ piEdits \in Nat
    /\ IsOriginal(original, Notes)
    /\ IsHome(Known, piFiles, Notes)
    /\ IsManifest(Known, manifest, Notes)
    /\ source \in MaybeFile("user", Notes)
    /\ IsCommand(pi, Known, piFiles, manifest, source, Notes)

---------------------------------------------------------------------------
(* Lemmas. *)

LEMMA FileIsThere ==
    ASSUME NEW n \in Nat, NEW p, NEW content \in FileOf(p, 0 .. n)
    PROVE  content # NoFile /\ content.note \in 0 .. n
  <1>1. McpFiles(0 .. n) \subseteq McpFiles(Nat) /\ ChildTexts(0 .. n) \subseteq ChildTexts(Nat)
    BY DEF McpFiles, ChildTexts
  <1>2. content # NoFile
    BY <1>1, PiAssumption DEF FileOf
  <1>3. content.note \in 0 .. n
    BY DEF FileOf, McpFiles, ChildTexts
  <1> QED
    BY <1>2, <1>3

LEMMA LedgerIsThere ==
    ASSUME NEW n \in Nat, NEW os, NEW book, IsLedger(os, book, 0 .. n)
    PROVE  book # NoFile
  <1> DEFINE contents == {NoFile} \cup McpFiles(Nat) \cup ChildTexts(Nat)
             records  == [before : contents, after : contents]
  <1>1. McpFiles(0 .. n) \subseteq McpFiles(Nat) /\ ChildTexts(0 .. n) \subseteq ChildTexts(Nat)
    BY DEF McpFiles, ChildTexts
  <1>2. ASSUME NEW p, NEW r, IsOwned(p, r, 0 .. n)
        PROVE  r \in records
    BY <1>1, <1>2 DEF IsOwned, MaybeFile, FileOf
  <1> HIDE DEF records
  <1>3. book.mcp \in SUBSET records /\ book.children \in [DOMAIN book.children -> records]
    BY <1>2 DEF IsLedger
  <1>4. book \in Manifests(Nat)
    BY <1>3 DEF IsLedger, Manifests, records
  <1> QED
    BY <1>4, PiAssumption

LEMMA MoreNotes ==
    ASSUME NEW n \in Nat, NEW p
    PROVE  /\ FileOf(p, 0 .. n) \subseteq FileOf(p, 0 .. n + 1)
           /\ MaybeFile(p, 0 .. n) \subseteq MaybeFile(p, 0 .. n + 1)
  BY DEF FileOf, MaybeFile, McpFiles, ChildTexts

LEMMA MoreNotesKept ==
    ASSUME NEW n \in Nat, NEW os, NEW x
    PROVE  /\ IsHome(os, x, 0 .. n) => IsHome(os, x, 0 .. n + 1)
           /\ IsManifest(os, x, 0 .. n) => IsManifest(os, x, 0 .. n + 1)
           /\ IsLedger(os, x, 0 .. n) => IsLedger(os, x, 0 .. n + 1)
           /\ IsLog(os, x, 0 .. n) => IsLog(os, x, 0 .. n + 1)
           /\ IsOriginal(x, 0 .. n) => IsOriginal(x, 0 .. n + 1)
           /\ Remembers(x, 0 .. n) => Remembers(x, 0 .. n + 1)
  <1>1. \A p : MaybeFile(p, 0 .. n) \subseteq MaybeFile(p, 0 .. n + 1)
               /\ FileOf(p, 0 .. n) \subseteq FileOf(p, 0 .. n + 1)
    BY MoreNotes
  <1>2. \A p, r : IsOwned(p, r, 0 .. n) => IsOwned(p, r, 0 .. n + 1)
    BY <1>1 DEF IsOwned
  <1>3. \A os2, book : IsLedger(os2, book, 0 .. n) => IsLedger(os2, book, 0 .. n + 1)
    BY <1>2 DEF IsLedger
  <1>4. \A os2, book : IsManifest(os2, book, 0 .. n) => IsManifest(os2, book, 0 .. n + 1)
    BY <1>3 DEF IsManifest
  <1>5. \A os2, f : IsHome(os2, f, 0 .. n) => IsHome(os2, f, 0 .. n + 1)
    BY <1>1 DEF IsHome
  <1>6. IsLog(os, x, 0 .. n) => IsLog(os, x, 0 .. n + 1)
    BY <1>1, <1>4 DEF IsLog
  <1>7. \A o : IsOriginal(o, 0 .. n) => IsOriginal(o, 0 .. n + 1)
    BY <1>1 DEF IsOriginal
  <1>8. Remembers(x, 0 .. n) => Remembers(x, 0 .. n + 1)
    BY <1>4, <1>5, <1>7 DEF Remembers
  <1> QED
    BY <1>3, <1>4, <1>5, <1>6, <1>7, <1>8

(* A record of a file whose before-image keeps what the user had.          *)
LEMMA FreshDiffers ==
    ASSUME NEW p, NEW o, NEW r, Keeps(p, o, r.before)
    PROVE  Differs(p, o, r)
  BY DEF Keeps, Differs

(* Giving back what was there before keeps what the user had.              *)
LEMMA GivingBackKeeps ==
    ASSUME NEW n \in Nat, NEW p \in Paths, NEW o, NEW r,
           IsOwned(p, r, 0 .. n), Differs(p, o, r), Keeps(p, o, r.after)
    PROVE  Keeps(p, o, r.before)
  <1>1. r.after # NoFile
    BY FileIsThere DEF IsOwned
  <1>2. CASE r.before = NoFile
    BY <1>1, <1>2 DEF Keeps, Differs, IsOwned
  <1>3. CASE r.before # NoFile
    BY <1>1, <1>3 DEF Keeps, Differs, IsOwned
  <1> QED
    BY <1>2, <1>3

LEMMA RenderedChild ==
    ASSUME NEW notes, NEW child \in ChildTexts(notes)
    PROVE  Rendered(child) \in ChildTexts(notes) /\ Rendered(child).note = child.note
  BY DEF Rendered, Compatible, ChildTexts

LEMMA LogGrows ==
    ASSUME NEW os, NEW n \in Nat, NEW j, NEW p \in Paths, NEW content,
           IsLog(os, j, 0 .. n), content \in MaybeFile(p, 0 .. n),
           \A o \in os : Keeps(p, o[p], content)
    PROVE  LET k == WithNew(j, p, content)
           IN  /\ IsLog(os, k, 0 .. n)
               /\ p \in DOMAIN k /\ k[p] = IF p \in DOMAIN j THEN j[p] ELSE content
               /\ k[p] \in MaybeFile(p, 0 .. n) /\ \A o \in os : Keeps(p, o[p], k[p])
  <1> DEFINE k == WithNew(j, p, content)
  <1>1. /\ DOMAIN k = DOMAIN j \cup {p}
        /\ \A q \in DOMAIN k : k[q] = IF q \in DOMAIN j THEN j[q] ELSE content
    BY DEF WithNew
  <1>2. p # "manifest"
    BY DEF Paths, ChildFiles
  <1> HIDE DEF k
  <1>3. IsLog(os, k, 0 .. n)
    BY <1>1, <1>2 DEF IsLog
  <1>4. k[p] \in MaybeFile(p, 0 .. n) /\ \A o \in os : Keeps(p, o[p], k[p])
    BY <1>1 DEF IsLog
  <1> QED
    BY <1>1, <1>3, <1>4 DEF k

LEMMA HomeChanges ==
    ASSUME NEW os, NEW n \in Nat, NEW f, NEW p \in Paths, NEW content,
           IsHome(os, f, 0 .. n), content \in MaybeFile(p, 0 .. n),
           \A o \in os : Keeps(p, o[p], content)
    PROVE  IsHome(os, [f EXCEPT ![p] = content], 0 .. n)
  BY DEF IsHome

LEMMA NextTodo ==
    ASSUME NEW todo \in Todos, todo # <<>>
    PROVE  Tail(todo) \in Todos /\ Head(todo) # "cleanup"
  <1>2. \A a, b, c, d : Tail(<<a, b, c, d>>) = <<b, c, d>> /\ Head(<<a, b, c, d>>) = a
    OBVIOUS
  <1>3. \A a, b, c : Tail(<<a, b, c>>) = <<b, c>> /\ Head(<<a, b, c>>) = a
    OBVIOUS
  <1>4. \A a, b : Tail(<<a, b>>) = <<b>> /\ Head(<<a, b>>) = a
    OBVIOUS
  <1>5. \A a : Tail(<<a>>) = <<>> /\ Head(<<a>>) = a
    OBVIOUS
  <1>6. CASE todo = <<"packages", "reconcile", "components", "reconcile">>
    BY <1>2, <1>6 DEF Todos
  <1>7. CASE todo = <<"reconcile", "components", "reconcile">>
    BY <1>3, <1>7 DEF Todos
  <1>8. CASE todo = <<"components", "reconcile">>
    BY <1>4, <1>8 DEF Todos
  <1>9. CASE todo = <<"reconcile">>
    BY <1>5, <1>9 DEF Todos
  <1>10. CASE todo = <<"packages", "components", "remove">>
    BY <1>3, <1>10 DEF Todos
  <1>11. CASE todo = <<"components", "remove">>
    BY <1>4, <1>11 DEF Todos
  <1>12. CASE todo = <<"remove">>
    BY <1>5, <1>12 DEF Todos
  <1>13. CASE todo = <<"components", "refresh">>
    BY <1>4, <1>13 DEF Todos
  <1>14. CASE todo = <<"refresh">>
    BY <1>5, <1>14 DEF Todos
  <1>15. CASE todo = <<"remove", "restore">>
    BY <1>4, <1>15 DEF Todos
  <1>16. CASE todo = <<"restore">>
    BY <1>5, <1>16 DEF Todos
  <1> QED
    BY <1>6, <1>7, <1>8, <1>9, <1>10, <1>11, <1>12, <1>13, <1>14, <1>15, <1>16 DEF Todos

LEMMA UndoPhaseFields ==
    ASSUME NEW c, DOMAIN c = Fields
    PROVE  LET u == UndoPhase(c)
           IN  /\ DOMAIN u = Fields /\ u.pc = "undo" /\ u.kind = c.kind /\ u.todo = c.todo
               /\ u.collect = c.collect /\ u.found = c.found /\ u.journal = c.journal
  BY DEF UndoPhase, Fields

LEMMA OverFields ==
    ASSUME NEW c, DOMAIN c = Fields
    PROVE  LET u == PhaseOver(c)
           IN  /\ DOMAIN u = Fields /\ u.pc = "phase" /\ u.kind = c.kind /\ u.todo = Tail(c.todo)
               /\ u.collect = c.collect /\ u.found = c.found /\ u.journal = NoEntries
  BY DEF PhaseOver, Fields

LEMMA FailedFields ==
    ASSUME NEW c, DOMAIN c = Fields
    PROVE  LET u == PhaseFailed(c)
           IN  /\ DOMAIN u = Fields /\ u.pc = "phase" /\ u.kind = c.kind
               /\ u.todo = IF c.collect THEN Tail(c.todo) ELSE <<>>
               /\ u.collect = c.collect /\ u.found = c.found /\ u.journal = NoEntries
  <1>1. DOMAIN PhaseOver(c) = Fields
    BY OverFields
  <1> QED
    BY <1>1, OverFields DEF PhaseFailed, Fields

LEMMA NoEntriesLog ==
    ASSUME NEW os, NEW notes
    PROVE  DOMAIN NoEntries = {} /\ IsLog(os, NoEntries, notes)
  BY DEF NoEntries, IsLog

(* The end of a phase that worked, of one that did not, and a phase that   *)
(* is about to be undone.                                                  *)
LEMMA OverOK ==
    ASSUME NEW c, NEW os, NEW f, NEW book, NEW s, NEW notes, IsCommand(c, os, f, book, s, notes),
           c.pc # "ended", c.todo # <<>>,
           NEW os2, NEW f2, NEW book2, NEW s2, NEW notes2, Remembers(c, notes2),
           c.kind = "uninstall" /\ Head(c.todo) = "remove" => book2 = NoFile
    PROVE  /\ IsCommand(PhaseOver(c), os2, f2, book2, s2, notes2)
           /\ \A o : Origins(PhaseOver(c), o) = Origins(c, o)
  <1> DEFINE u == PhaseOver(c)
  <1>1. /\ DOMAIN u = Fields /\ u.pc = "phase" /\ u.kind = c.kind /\ u.todo = Tail(c.todo)
        /\ u.collect = c.collect /\ u.found = c.found /\ u.journal = NoEntries
    BY OverFields DEF IsCommand
  <1> HIDE DEF u
  <1>2. Agenda(u, book2)
    <2>1. CASE c.kind = "uninstall"
      <3>1. Tail(<<"remove", "cleanup">>) = <<"cleanup">> /\ Head(<<"remove", "cleanup">>) = "remove"
            /\ Tail(<<"cleanup">>) = <<>>
        OBVIOUS
      <3> QED
        BY <1>1, <2>1, <3>1 DEF IsCommand, Agenda
    <2>2. CASE c.kind # "uninstall"
      BY <1>1, <2>2, NextTodo DEF IsCommand, Agenda
    <2> QED
      BY <2>1, <2>2
  <1>3. Recalls(u) <=> Recalls(c)
    BY <1>1 DEF Recalls
  <1>4. Remembers(u, notes2) /\ \A o : Origins(u, o) = Origins(c, o)
    BY <1>1, <1>3 DEF Remembers, Origins
  <1>5. InStep(u, f2, s2) /\ u.pc \notin Holders
    BY <1>1, NoEntriesLog DEF InStep, Reconciles, Holders
  <1>6. IsLog(os2, u.journal, notes2)
    BY <1>1, NoEntriesLog
  <1> QED
    BY <1>1, <1>2, <1>4, <1>5, <1>6 DEF IsCommand, u

LEMMA FailedOK ==
    ASSUME NEW c, NEW os, NEW f, NEW book, NEW s, NEW notes, IsCommand(c, os, f, book, s, notes),
           c.pc # "ended", c.todo # <<>>,
           NEW os2, NEW f2, NEW book2, NEW s2, NEW notes2, Remembers(c, notes2)
    PROVE  /\ IsCommand(PhaseFailed(c), os2, f2, book2, s2, notes2)
           /\ \A o : Origins(PhaseFailed(c), o) = Origins(c, o)
  <1> DEFINE u == PhaseFailed(c)
  <1>1. /\ DOMAIN u = Fields /\ u.pc = "phase" /\ u.kind = c.kind
        /\ u.todo = IF c.collect THEN Tail(c.todo) ELSE <<>>
        /\ u.collect = c.collect /\ u.found = c.found /\ u.journal = NoEntries
    BY FailedFields DEF IsCommand
  <1> HIDE DEF u
  <1>2. Agenda(u, book2)
    <2>1. CASE c.kind = "uninstall"
      BY <1>1, <2>1 DEF IsCommand, Agenda
    <2>2. CASE c.kind # "uninstall"
      <3>1. <<>> \in Todos
        BY DEF Todos
      <3> QED
        BY <1>1, <2>2, <3>1, NextTodo DEF IsCommand, Agenda
    <2> QED
      BY <2>1, <2>2
  <1>3. Recalls(u) <=> Recalls(c)
    BY <1>1 DEF Recalls
  <1>4. Remembers(u, notes2) /\ \A o : Origins(u, o) = Origins(c, o)
    BY <1>1, <1>3 DEF Remembers, Origins
  <1>5. InStep(u, f2, s2) /\ u.pc \notin Holders
    BY <1>1, NoEntriesLog DEF InStep, Reconciles, Holders
  <1>6. IsLog(os2, u.journal, notes2)
    BY <1>1, NoEntriesLog
  <1> QED
    BY <1>1, <1>2, <1>4, <1>5, <1>6 DEF IsCommand, u

LEMMA UndoOK ==
    ASSUME NEW c, NEW os, NEW book, NEW notes,
           DOMAIN c = Fields, c.pc \in Holders,
           IsLog(os, c.journal, notes), Agenda(c, book), Remembers(c, notes),
           NEW f2, NEW book2, NEW s2
    PROVE  /\ IsCommand(UndoPhase(c), os, f2, book2, s2, notes)
           /\ \A o : Origins(UndoPhase(c), o) = Origins(c, o)
  <1> DEFINE u == UndoPhase(c)
  <1>1. /\ DOMAIN u = Fields /\ u.pc = "undo" /\ u.kind = c.kind /\ u.todo = c.todo
        /\ u.collect = c.collect /\ u.found = c.found /\ u.journal = c.journal
    BY UndoPhaseFields
  <1> HIDE DEF u
  <1>2. Agenda(u, book2)
    BY <1>1 DEF Agenda, Holders, Reconciles
  <1>3. Recalls(u) <=> Recalls(c)
    BY <1>1 DEF Recalls, Holders, Reconciles
  <1>4. Remembers(u, notes) /\ \A o : Origins(u, o) = Origins(c, o)
    BY <1>1, <1>3 DEF Remembers, Origins
  <1>5. InStep(u, f2, s2) /\ u.pc \notin Holders
    BY <1>1 DEF InStep, Reconciles, Holders
  <1> QED
    BY <1>1, <1>2, <1>4, <1>5 DEF IsCommand, u

(* A step of a command that leaves the originals, and what they are, as    *)
(* they were.                                                              *)
LEMMA CommandStep ==
    ASSUME PiIInv, piEdits' = piEdits, original' = original, source' = source,
           Origins(pi', original) = Known,
           IsHome(Known, piFiles', Notes), IsManifest(Known, manifest', Notes),
           IsCommand(pi', Known, piFiles', manifest', source, Notes)
    PROVE  PiIInv'
  <1>1. Notes' = Notes /\ Known' = Known
    BY DEF Notes, Known
  <1> QED
    BY <1>1 DEF PiIInv

(* A write of a content that keeps what the user had, whatever becomes of  *)
(* it.                                                                     *)
LEMMA WriteKeeps ==
    ASSUME PiIInv, NEW path \in Paths, NEW content \in MaybeFile(path, Notes), NEW after,
           WriteHome(path, content, after), UNCHANGED observed, pi.pc \in Holders,
           \A o \in Known : Keeps(path, o[path], content),
           Origins(after, original) = Known,
           IsCommand(after, Known, [piFiles EXCEPT ![path] = content], manifest, source, Notes)
    PROVE  PiIInv'
  <1> DEFINE written == [piFiles EXCEPT ![path] = content]
             c == [pi EXCEPT !.journal = Journaled(path)]
  <1>1. /\ piEdits' = piEdits /\ original' = original /\ source' = source /\ manifest' = manifest
        /\ \/ piFiles' = written /\ pi' = after
           \/ piFiles' \in {piFiles, written} /\ pi' = UndoPhase(c)
    BY DEF WriteHome, PiGoes, observed, counted
  <1>2. IsHome(Known, piFiles, Notes) /\ IsHome(Known, written, Notes)
    BY HomeChanges DEF PiIInv, Notes
  <1>3. IsCommand(UndoPhase(c), Known, piFiles', manifest', source, Notes)
        /\ Origins(UndoPhase(c), original) = Known
    <2>1. /\ DOMAIN c = Fields /\ c.pc = pi.pc /\ c.kind = pi.kind /\ c.todo = pi.todo
          /\ c.collect = pi.collect /\ c.found = pi.found /\ c.journal = Journaled(path)
      BY DEF PiIInv, IsCommand, Fields
    <2>2. IsLog(Known, Journaled(path), Notes)
      <3>1. piFiles[path] \in MaybeFile(path, Notes) /\ \A o \in Known : Keeps(path, o[path], piFiles[path])
        BY <1>2 DEF IsHome
      <3> QED
        BY <3>1, LogGrows DEF PiIInv, IsCommand, Journaled, Notes
    <2> HIDE DEF c
    <2>3. Agenda(c, manifest) /\ Remembers(c, Notes) /\ Origins(c, original) = Known
      BY <2>1 DEF PiIInv, IsCommand, Agenda, Remembers, Origins, Known, Recalls
    <2> QED
      BY <2>1, <2>2, <2>3, UndoOK
  <1>4. IsManifest(Known, manifest', Notes)
    BY <1>1 DEF PiIInv
  <1> HIDE DEF written, c
  <1>5. CASE piFiles' = written /\ pi' = after
    BY <1>1, <1>2, <1>4, <1>5, CommandStep DEF written
  <1>6. CASE piFiles' \in {piFiles, written} /\ pi' = UndoPhase(c)
    BY <1>1, <1>2, <1>3, <1>4, <1>6, CommandStep
  <1> QED
    BY <1>1, <1>5, <1>6

(* The rest of a command, from a step of its present phase to another.     *)
LEMMA SameTask ==
    ASSUME PiIInv, NEW c, pi.pc # "ended", c.pc # "ended", pi.todo # <<>>,
           c.kind = pi.kind, c.todo = pi.todo, c.collect = pi.collect, c.found = pi.found,
           pi.kind = "uninstall" => c.pc \in {pi.pc, "remove"} /\ Head(pi.todo) = "remove"
    PROVE  /\ Agenda(c, manifest) /\ Remembers(c, Notes) /\ Origins(c, original) = Known
           /\ c.pc # "phase" => \A book : Agenda(c, book)
  <1>1. Recalls(c) <=> Recalls(pi)
    BY DEF Recalls
  <1>2. Remembers(c, Notes) /\ Origins(c, original) = Known
    BY <1>1 DEF PiIInv, IsCommand, Remembers, Origins, Known
  <1>3. Head(<<"cleanup">>) = "cleanup"
    OBVIOUS
  <1>4. Agenda(c, manifest)
    BY <1>3 DEF PiIInv, IsCommand, Agenda
  <1>5. c.pc # "phase" => \A book : Agenda(c, book)
    BY <1>4 DEF Agenda
  <1> QED
    BY <1>2, <1>4, <1>5

LEMMA PhaseEnds ==
    ASSUME PiIInv, pi.pc # "ended", pi.todo # <<>>,
           piEdits' = piEdits, original' = original, source' = source,
           IsHome(Known, piFiles', Notes), IsManifest(Known, manifest', Notes),
           \/ pi' = PhaseFailed(pi)
           \/ /\ pi' = PhaseOver(pi)
              /\ pi.kind = "uninstall" /\ Head(pi.todo) = "remove" => manifest' = NoFile
    PROVE  PiIInv'
  <1>1. IsCommand(pi, Known, piFiles, manifest, source, Notes) /\ Remembers(pi, Notes)
    BY DEF PiIInv, IsCommand
  <1>2. /\ IsCommand(pi', Known, piFiles', manifest', source, Notes)
        /\ Origins(pi', original) = Origins(pi, original)
    BY <1>1, OverOK, FailedOK
  <1> QED
    BY <1>2, CommandStep DEF Known

LEMMA Abandoned ==
    ASSUME PiIInv, pi.pc \in Holders, AbandonPhase, UNCHANGED observed
    PROVE  PiIInv'
  <1>1. /\ piEdits' = piEdits /\ original' = original /\ source' = source /\ manifest' = manifest
        /\ piFiles' = piFiles /\ pi' = UndoPhase(pi)
    BY DEF AbandonPhase, PiGoes, observed, counted
  <1>2. /\ IsCommand(pi', Known, piFiles', manifest', source, Notes)
        /\ Origins(pi', original) = Origins(pi, original)
    BY <1>1, UndoOK DEF PiIInv, IsCommand
  <1> QED
    BY <1>1, <1>2, CommandStep DEF Known, PiIInv

---------------------------------------------------------------------------
(* Commands begin and end. *)

LEMMA PhasesAreTodos ==
    /\ Phases("install") \in Todos /\ Phases("deselect") \in Todos /\ Phases("sync") \in Todos
    /\ Phases("uninstall") = <<"remove", "cleanup">>
  BY DEF Phases, Todos

LEMMA RecordedLedger ==
    ASSUME PiIInv
    PROVE  IsLedger(Known, Recorded, Notes)
  BY DEF PiIInv, IsManifest, IsLedger, Recorded, NoEntries

LEMMA BeginPiKeeps ==
    ASSUME PiIInv, NEW kind \in {"install", "deselect", "sync", "uninstall"},
           NEW collect \in BOOLEAN, kind = "uninstall" => collect = FALSE, BeginPi(kind, collect)
    PROVE  PiIInv'
  <1>1. /\ pi.pc = "ended" /\ piEdits' = piEdits /\ original' = original /\ source' = source
        /\ manifest' = manifest /\ piFiles' = piFiles
    BY DEF BeginPi, observed
  <1>2. /\ DOMAIN pi' = Fields /\ pi'.kind = kind /\ pi'.collect = collect /\ pi'.pc = "phase"
        /\ pi'.todo = Phases(kind) /\ pi'.journal = NoEntries /\ pi'.found = Snapshot
    BY DEF BeginPi, PiIdle, Fields
  <1>3. Known = {original} /\ Snapshot.original = original /\ Origins(pi', original) = Known
    BY <1>1, <1>2 DEF Known, Origins, Recalls, Snapshot
  <1>4. Remembers(pi', Notes)
    <2>1. /\ Snapshot.files = piFiles /\ Snapshot.manifest = manifest
          /\ Snapshot.covered = {"mcp"} \cup DOMAIN Recorded.children \cup Discovered
      BY DEF Snapshot
    <2>2. DOMAIN Recorded.children \subseteq ChildFiles /\ Discovered \subseteq ChildFiles
      BY RecordedLedger DEF IsLedger, Discovered
    <2>3. ASSUME NEW p \in Paths \ Snapshot.covered
          PROVE  original[p] = NoFile
      <3>1. p \in ChildFiles /\ Found(p) = NoFile
        BY <2>1, <2>3 DEF Discovered, Paths
      <3>2. piFiles[p] = NoFile
        BY <3>1 DEF Found
      <3>3. Keeps(p, original[p], piFiles[p])
        BY <1>3 DEF PiIInv, IsHome
      <3> QED
        BY <3>2, <3>3 DEF Keeps
    <2>4. manifest # NoFile => Recorded = manifest
      BY DEF Recorded
    <2> QED
      BY <1>2, <1>3, <2>1, <2>2, <2>3, <2>4 DEF Remembers, PiIInv, Paths
  <1>5. Agenda(pi', manifest)
    BY <1>2, PhasesAreTodos DEF Agenda
  <1>6. IsCommand(pi', Known, piFiles', manifest', source, Notes)
    BY <1>1, <1>2, <1>4, <1>5, NoEntriesLog DEF IsCommand, InStep, Holders, Reconciles
  <1> QED
    BY <1>1, <1>3, <1>6, CommandStep DEF PiIInv

(* Between two commands.                                                   *)
LEMMA IdleOK ==
    ASSUME NEW kind, NEW os, NEW f, NEW book, NEW s, NEW notes, NEW o
    PROVE  LET c == [PiIdle EXCEPT !.kind = kind]
           IN  IsCommand(c, os, f, book, s, notes) /\ Origins(c, o) = {o} /\ c.pc = "ended"
  <1> DEFINE c == [PiIdle EXCEPT !.kind = kind]
  <1>1. /\ DOMAIN c = Fields /\ c.collect = FALSE /\ c.pc = "ended" /\ c.todo = <<>>
        /\ c.journal = NoEntries /\ c.kind = kind
    BY DEF PiIdle, Fields
  <1> HIDE DEF c
  <1>2. <<>> \in Todos
    BY DEF Todos
  <1> QED
    BY <1>1, <1>2, NoEntriesLog
    DEF c, IsCommand, InStep, Holders, Reconciles, Agenda, Remembers, Recalls, Origins

LEMMA FewerOrigins ==
    ASSUME NEW os, NEW os2, os2 \subseteq os, NEW notes, NEW x
    PROVE  /\ IsHome(os, x, notes) => IsHome(os2, x, notes)
           /\ IsLedger(os, x, notes) => IsLedger(os2, x, notes)
           /\ IsManifest(os, x, notes) => IsManifest(os2, x, notes)
  BY DEF IsHome, IsLedger, IsManifest

LEMMA EndKeeps ==
    ASSUME PiIInv, EndPi \/ KillPi
    PROVE  PiIInv'
  <1>1. /\ piEdits' = piEdits /\ original' = original /\ source' = source
        /\ manifest' = manifest /\ piFiles' = piFiles
        /\ pi' = [PiIdle EXCEPT !.kind = pi.kind]
    BY DEF EndPi, KillPi, PiGoes, observed, counted
  <1>2. Notes' = Notes /\ Known' = {original} /\ {original} \subseteq Known
    BY <1>1, IdleOK DEF Notes, Known, Origins
  <1>3. IsCommand(pi', {original}, piFiles, manifest, source, Notes)
    BY <1>1, IdleOK
  <1> QED
    BY <1>1, <1>2, <1>3, FewerOrigins DEF PiIInv

LEMMA RollbackKeeps ==
    ASSUME PiIInv, Rollback
    PROVE  PiIInv'
  <1>1. /\ piEdits' = piEdits /\ original' = original /\ source' = source
        /\ manifest' = manifest /\ piFiles' = piFiles
        /\ pi.kind # "uninstall" /\ pi.pc = "phase"
    BY DEF Rollback, PiGoes, NoPhaseLeft, observed, counted
  <1>2. /\ DOMAIN pi' = Fields /\ pi'.kind = pi.kind /\ pi'.pc = "phase"
        /\ pi'.todo \in {<<"remove", "restore">>, <<"restore">>}
        /\ pi'.journal = pi.journal /\ pi'.found = pi.found
    BY DEF Rollback, PiGoes, NoPhaseLeft, PiIInv, IsCommand, Fields
  <1>3. Recalls(pi') /\ Recalls(pi)
    BY <1>1, <1>2 DEF Recalls
  <1>4. Remembers(pi', Notes) /\ Origins(pi', original) = Known
    BY <1>2, <1>3 DEF PiIInv, IsCommand, Remembers, Origins, Known
  <1>5. Agenda(pi', manifest)
    BY <1>1, <1>2 DEF Agenda, Todos
  <1>6. IsCommand(pi', Known, piFiles', manifest', source, Notes)
    BY <1>1, <1>2, <1>4, <1>5 DEF PiIInv, IsCommand, InStep, Holders, Reconciles
  <1> QED
    BY <1>1, <1>4, <1>6, CommandStep DEF PiIInv

---------------------------------------------------------------------------
(* A reconciliation. *)

(* The reconciling steps belong to an install or a sync.                   *)
LEMMA Underway ==
    ASSUME PiIInv, pi.pc \notin {"phase", "ended"}
    PROVE  /\ pi.todo # <<>>
           /\ pi.pc \notin {"remove", "undo"} => pi.kind # "uninstall"
           /\ pi.kind = "uninstall" => Head(pi.todo) = "remove"
  <1>1. Head(<<"remove", "cleanup">>) = "remove" /\ <<"remove", "cleanup">> # <<>>
    OBVIOUS
  <1> QED
    BY <1>1 DEF PiIInv, IsCommand, Agenda

LEMMA BeginReconcileKeeps ==
    ASSUME PiIInv, BeginReconcile
    PROVE  PiIInv'
  <1>1. /\ piEdits' = piEdits /\ original' = original /\ source' = source
        /\ manifest' = manifest /\ piFiles' = piFiles
        /\ pi.pc = "phase" /\ pi.todo # <<>> /\ Head(pi.todo) \in {"reconcile", "refresh"}
    BY DEF BeginReconcile, InPhase, PiGoes, observed, counted
  <1>2. /\ DOMAIN pi' = Fields /\ pi'.kind = pi.kind /\ pi'.pc = "mcp" /\ pi'.held = Recorded
        /\ pi'.todo = pi.todo /\ pi'.journal = pi.journal /\ pi'.found = pi.found
        /\ pi'.collect = pi.collect
    BY DEF BeginReconcile, PiGoes, PiIInv, IsCommand, Fields
  <1>3. pi.kind # "uninstall"
    <2>1. Head(<<"remove", "cleanup">>) = "remove" /\ Head(<<"cleanup">>) = "cleanup"
      OBVIOUS
    <2> QED
      BY <1>1, <2>1 DEF PiIInv, IsCommand, Agenda
  <1>4. Agenda(pi', manifest) /\ Remembers(pi', Notes) /\ Origins(pi', original) = Known
    BY <1>1, <1>2, <1>3, SameTask
  <1>5. DOMAIN pi.journal = {}
    BY <1>1 DEF PiIInv, IsCommand, InStep
  <1>6. IsCommand(pi', Known, piFiles', manifest', source, Notes)
    BY <1>1, <1>2, <1>4, <1>5, RecordedLedger DEF PiIInv, IsCommand, InStep, Holders, Reconciles
  <1> QED
    BY <1>1, <1>4, <1>6, CommandStep DEF PiIInv

LEMMA NothingToRefreshKeeps ==
    ASSUME PiIInv, NothingToRefresh
    PROVE  PiIInv'
  <1>1. /\ piEdits' = piEdits /\ original' = original /\ source' = source
        /\ manifest' = manifest /\ piFiles' = piFiles /\ manifest = NoFile
        /\ pi.pc = "phase" /\ pi.todo # <<>> /\ pi' = PhaseOver(pi)
    BY DEF NothingToRefresh, InPhase, PiGoes, observed, counted
  <1> QED
    BY <1>1, PhaseEnds DEF PiIInv

(* An entry added to mcp.json leaves it as the user and the others had it. *)
LEMMA WiredKeeps ==
    ASSUME NEW n \in Nat, NEW content \in MaybeFile("mcp", 0 .. n), NEW mcp, NEW wired,
           mcp = IF content = NoFile THEN EmptyMcp ELSE content, mcp.codegraph = "none",
           wired = [mcp EXCEPT !.codegraph = "ours"]
    PROVE  /\ wired \in FileOf("mcp", 0 .. n) /\ wired # NoFile
           /\ IsOwned("mcp", [before |-> content, after |-> wired], 0 .. n)
           /\ \A o : Keeps("mcp", o, content) => Keeps("mcp", o, wired)
  <1>1. mcp \in FileOf("mcp", 0 .. n)
    BY DEF MaybeFile, FileOf, EmptyMcp, McpFiles
  <1>2. /\ wired \in FileOf("mcp", 0 .. n) /\ wired.note = mcp.note
        /\ wired.servers = mcp.servers /\ wired.codegraph = "ours"
    BY <1>1 DEF FileOf, McpFiles
  <1>3. wired # NoFile
    BY <1>2, FileIsThere
  <1>4. content = NoFile => mcp.note = 0 /\ mcp.servers = FALSE
    BY DEF EmptyMcp
  <1>5. IsOwned("mcp", [before |-> content, after |-> wired], 0 .. n)
    BY <1>2, <1>4 DEF IsOwned
  <1>6. ASSUME NEW o, Keeps("mcp", o, content)
        PROVE  Keeps("mcp", o, wired)
    <2>1. CASE content = NoFile
      BY <1>2, <1>3, <1>4, <1>6, <2>1 DEF Keeps
    <2>2. CASE content # NoFile
      BY <1>2, <1>3, <1>6, <2>2 DEF Keeps
    <2> QED
      BY <2>1, <2>2
  <1> QED
    BY <1>2, <1>3, <1>5, <1>6

LEMMA ReconcileMcpKeeps ==
    ASSUME PiIInv, ReconcileMcp
    PROVE  PiIInv'
  <1> DEFINE mcp == IF piFiles["mcp"] = NoFile THEN EmptyMcp ELSE piFiles["mcp"]
             wired == [mcp EXCEPT !.codegraph = "ours"]
             log == Journaled("mcp")
             after == [pi EXCEPT !.pc = "missing", !.journal = log,
                                 !.held.mcp = {OwnedFile(log, "mcp", wired)}]
  <1>1. /\ pi.pc = "mcp" /\ pi.todo # <<>> /\ pi.kind # "uninstall" /\ DOMAIN pi.journal = {}
        /\ pi.pc \in Holders /\ "mcp" \in Paths
    BY Underway DEF ReconcileMcp, AtStep, Holders, Reconciles, PiIInv, IsCommand, InStep, Paths
  <1>2. CASE AbandonPhase
    BY <1>1, <1>2, Abandoned DEF ReconcileMcp
  <1>3. CASE PiGoes([pi EXCEPT !.pc = "missing"]) /\ UNCHANGED <<piFiles, source, manifest>>
    <2>1. /\ piEdits' = piEdits /\ original' = original /\ source' = source
          /\ manifest' = manifest /\ piFiles' = piFiles
      BY <1>3 DEF ReconcileMcp, PiGoes, observed, counted
    <2>2. /\ DOMAIN pi' = Fields /\ pi'.kind = pi.kind /\ pi'.pc = "missing" /\ pi'.held = pi.held
          /\ pi'.todo = pi.todo /\ pi'.journal = pi.journal /\ pi'.found = pi.found
          /\ pi'.collect = pi.collect
      BY <1>3 DEF PiGoes, PiIInv, IsCommand, Fields
    <2>3. Agenda(pi', manifest) /\ Remembers(pi', Notes) /\ Origins(pi', original) = Known
      BY <1>1, <2>2, SameTask
    <2>4. IsCommand(pi', Known, piFiles', manifest', source, Notes)
      BY <1>1, <2>1, <2>2, <2>3 DEF PiIInv, IsCommand, InStep, Holders, Reconciles
    <2> QED
      BY <2>1, <2>3, <2>4, CommandStep DEF PiIInv
  <1>4. CASE mcp.codegraph = "none" /\ WriteHome("mcp", wired, after)
    <2>1. /\ piFiles["mcp"] \in MaybeFile("mcp", 0 .. piEdits)
          /\ \A o \in Known : Keeps("mcp", o["mcp"], piFiles["mcp"])
      BY <1>1 DEF PiIInv, IsHome, Notes
    <2>2. /\ wired \in MaybeFile("mcp", Notes)
          /\ IsOwned("mcp", [before |-> piFiles["mcp"], after |-> wired], Notes)
          /\ \A o \in Known : Keeps("mcp", o["mcp"], wired)
      BY <1>4, <2>1, WiredKeeps DEF PiIInv, Notes, MaybeFile
    <2>3. /\ IsLog(Known, log, Notes) /\ log["mcp"] = piFiles["mcp"]
          /\ DOMAIN log = {"mcp"}
      <3>1. IsLog(Known, log, Notes)
        BY <1>1, <2>1, LogGrows DEF PiIInv, IsCommand, Journaled, Notes
      <3>2. log["mcp"] = piFiles["mcp"] /\ DOMAIN log = {"mcp"}
        BY <1>1 DEF Journaled, WithNew
      <3> QED
        BY <3>1, <3>2
    <2> HIDE DEF log, wired
    <2>4. /\ DOMAIN after = Fields /\ after.kind = pi.kind /\ after.pc = "missing"
          /\ after.held = [pi.held EXCEPT !.mcp = {OwnedFile(log, "mcp", wired)}]
          /\ after.todo = pi.todo /\ after.journal = log /\ after.found = pi.found
          /\ after.collect = pi.collect
      BY DEF PiIInv, IsCommand, Fields
    <2> HIDE DEF after
    <2>5. Agenda(after, manifest) /\ Remembers(after, Notes) /\ Origins(after, original) = Known
      BY <1>1, <2>4, SameTask
    <2>6. IsLedger(Known, after.held, Notes)
      <3>1. IsLedger(Known, pi.held, Notes)
        BY <1>1 DEF PiIInv, IsCommand
      <3>2. OwnedFile(log, "mcp", wired) = [before |-> piFiles["mcp"], after |-> wired]
        BY <2>3 DEF OwnedFile
      <3>3. \A o \in Known : Differs("mcp", o["mcp"], OwnedFile(log, "mcp", wired))
        BY <2>1, <3>2, FreshDiffers
      <3>4. after.held = [mcp |-> {OwnedFile(log, "mcp", wired)}, children |-> pi.held.children]
        BY <2>4, <3>1 DEF IsLedger
      <3>5. after.held.mcp = {OwnedFile(log, "mcp", wired)} /\ after.held.children = pi.held.children
        BY <3>4
      <3> QED
        BY <2>2, <3>1, <3>2, <3>3, <3>4, <3>5 DEF IsLedger
    <2>7. IsCommand(after, Known, [piFiles EXCEPT !["mcp"] = wired], manifest, source, Notes)
      BY <2>3, <2>4, <2>5, <2>6 DEF IsCommand, InStep, Reconciles, ChildFiles
    <2> QED
      BY <1>1, <1>4, <2>2, <2>5, <2>7, WriteKeeps DEF ReconcileMcp
  <1> QED
    BY <1>2, <1>3, <1>4 DEF ReconcileMcp

LEMMA RestoreMissingKeeps ==
    ASSUME PiIInv, RestoreMissing
    PROVE  PiIInv'
  <1>1. /\ pi.pc = "missing" /\ pi.todo # <<>> /\ pi.kind # "uninstall" /\ pi.pc \in Holders
        /\ IsLedger(Known, pi.held, Notes) /\ DOMAIN pi = Fields
    BY Underway DEF RestoreMissing, AtStep, Holders, Reconciles, PiIInv, IsCommand
  <1>2. ASSUME NEW path \in MissingChildren,
               WriteHome(path, pi.held.children[path].after,
                         [pi EXCEPT !.journal = Journaled(path)])
        PROVE  PiIInv'
    <2> DEFINE content == pi.held.children[path].after
               log == Journaled(path)
               after == [pi EXCEPT !.journal = log]
    <2>1. /\ path \in DOMAIN pi.held.children /\ piFiles[path] = NoFile
          /\ path \in ChildFiles /\ path \in Paths /\ path # "mcp"
      BY <1>1 DEF MissingChildren, IsLedger, Paths, ChildFiles
    <2>2. content \in MaybeFile(path, Notes) /\ content # NoFile
      BY <1>1, <2>1, FileIsThere DEF IsLedger, IsOwned, MaybeFile, Notes, PiIInv
    <2>3. /\ piFiles[path] \in MaybeFile(path, 0 .. piEdits)
          /\ \A o \in Known : Keeps(path, o[path], piFiles[path])
          /\ \A o \in Known : Keeps(path, o[path], content)
      BY <2>1 DEF PiIInv, IsHome, Notes, Keeps
    <2>4. /\ IsLog(Known, log, Notes) /\ DOMAIN log = DOMAIN pi.journal \cup {path}
          /\ \A p \in DOMAIN log :
                log[p] = IF p \in DOMAIN pi.journal THEN pi.journal[p] ELSE NoFile
      <3>1. IsLog(Known, log, Notes)
        BY <2>1, <2>3, LogGrows DEF PiIInv, IsCommand, Journaled, Notes
      <3> QED
        BY <2>1, <3>1 DEF Journaled, WithNew
    <2> HIDE DEF log
    <2>5. /\ DOMAIN after = Fields /\ after.kind = pi.kind /\ after.pc = pi.pc
          /\ after.held = pi.held /\ after.todo = pi.todo /\ after.journal = log
          /\ after.found = pi.found /\ after.collect = pi.collect
      BY <1>1 DEF Fields
    <2> HIDE DEF after
    <2>6. Agenda(after, manifest) /\ Remembers(after, Notes) /\ Origins(after, original) = Known
      BY <1>1, <2>5, SameTask
    <2>7. InStep(after, [piFiles EXCEPT ![path] = content], source)
      <3>1. ASSUME NEW p \in ChildFiles \cap DOMAIN log, log[p] # NoFile
            PROVE  /\ [piFiles EXCEPT ![path] = content][p] # NoFile
                   /\ [piFiles EXCEPT ![path] = content][p].note = log[p].note
        <4>1. p \in DOMAIN pi.journal /\ log[p] = pi.journal[p]
          BY <2>4, <3>1
        <4>2. piFiles[p] # NoFile /\ piFiles[p].note = log[p].note
          BY <1>1, <3>1, <4>1 DEF PiIInv, IsCommand, InStep, Reconciles
        <4> QED
          BY <2>1, <4>2
      <3> QED
        BY <1>1, <2>5, <3>1 DEF InStep, Reconciles
    <2>8. IsCommand(after, Known, [piFiles EXCEPT ![path] = content], manifest, source, Notes)
      BY <1>1, <2>4, <2>5, <2>6, <2>7 DEF IsCommand
    <2> HIDE DEF content
    <2> QED
      BY <1>1, <1>2, <2>1, <2>2, <2>3, <2>6, <2>8, WriteKeeps
      DEF RestoreMissing, content, after, log
  <1>3. CASE PiGoes([pi EXCEPT !.pc = "child", !.queue = Discovered])
             /\ UNCHANGED <<piFiles, source, manifest>>
    <2>1. /\ piEdits' = piEdits /\ original' = original /\ source' = source
          /\ manifest' = manifest /\ piFiles' = piFiles
      BY <1>3 DEF RestoreMissing, PiGoes, observed, counted
    <2>2. /\ DOMAIN pi' = Fields /\ pi'.kind = pi.kind /\ pi'.pc = "child" /\ pi'.held = pi.held
          /\ pi'.todo = pi.todo /\ pi'.journal = pi.journal /\ pi'.found = pi.found
          /\ pi'.collect = pi.collect /\ pi'.queue = Discovered
      BY <1>1, <1>3 DEF PiGoes, Fields
    <2>3. Agenda(pi', manifest) /\ Remembers(pi', Notes) /\ Origins(pi', original) = Known
      BY <1>1, <2>2, SameTask
    <2>4. InStep(pi', piFiles, source)
      <3>1. \A p \in Discovered : p \in ChildFiles /\ (piFiles[p] = NoFile => p = "overlay" /\ source # NoFile)
        BY DEF Discovered, Found
      <3> QED
        BY <1>1, <2>2, <3>1 DEF PiIInv, IsCommand, InStep, Reconciles
    <2>5. IsCommand(pi', Known, piFiles', manifest', source, Notes)
      BY <1>1, <2>1, <2>2, <2>3, <2>4 DEF PiIInv, IsCommand
    <2> QED
      BY <2>1, <2>3, <2>5, CommandStep DEF PiIInv
  <1> QED
    BY <1>2, <1>3 DEF RestoreMissing

(* A child of the queue is there, and rendering it keeps the user's notes. *)
LEMMA QueuedChild ==
    ASSUME PiIInv, pi.pc = "child", NEW path \in pi.queue
    PROVE  /\ path \in ChildFiles /\ path \in Paths /\ path # "mcp"
           /\ Rendered(Found(path)) \in FileOf(path, Notes) /\ Rendered(Found(path)) # NoFile
           /\ piFiles[path] \in MaybeFile(path, Notes)
           /\ \A o \in Known : Keeps(path, o[path], piFiles[path])
           /\ piFiles[path] # NoFile => Rendered(Found(path)).note = piFiles[path].note
           /\ \A o \in Known : Keeps(path, o[path], Rendered(Found(path)))
  <1> DEFINE child == Found(path)
             content == Rendered(child)
  <1>1. /\ path \in ChildFiles /\ path \in Paths /\ path # "mcp"
        /\ piFiles[path] = NoFile => path = "overlay" /\ source # NoFile
    BY DEF PiIInv, IsCommand, InStep, Paths, ChildFiles
  <1>2. /\ piFiles[path] \in MaybeFile(path, Notes)
        /\ \A o \in Known : Keeps(path, o[path], piFiles[path])
    BY <1>1 DEF PiIInv, IsHome
  <1>3. child \in ChildTexts(Notes) /\ (piFiles[path] # NoFile => child = piFiles[path])
    BY <1>1, <1>2 DEF Found, PiIInv, MaybeFile, FileOf
  <1> HIDE DEF child
  <1>4. content \in FileOf(path, Notes) /\ content.note = child.note
    BY <1>1, <1>3, RenderedChild DEF FileOf
  <1>5. content # NoFile
    BY <1>4, FileIsThere DEF PiIInv, Notes
  <1> HIDE DEF content
  <1>6. ASSUME NEW o \in Known
        PROVE  Keeps(path, o[path], content)
    <2>1. Keeps(path, o[path], piFiles[path])
      BY <1>2
    <2> QED
      BY <1>1, <1>3, <1>4, <1>5, <2>1 DEF Keeps
  <1> QED
    BY <1>1, <1>2, <1>3, <1>4, <1>5, <1>6 DEF content, child

(* What is recorded of a child, and the command that has recorded it.      *)
LEMMA RecordingOK ==
    ASSUME PiIInv, pi.pc = "child", NEW path \in pi.queue, NEW content, NEW log,
           content = Rendered(Found(path)),
           \/ log = Journaled(path)
           \/ log = pi.journal /\ path \in DOMAIN pi.held.children
    PROVE  /\ IsCommand(Recording(path, content, log), Known, [piFiles EXCEPT ![path] = content],
                        manifest, source, Notes)
           /\ Origins(Recording(path, content, log), original) = Known
  <1> DEFINE after == Recording(path, content, log)
             written == [piFiles EXCEPT ![path] = content]
             record == OwnedFile(log, path, content)
  <1>1. /\ pi.todo # <<>> /\ pi.kind # "uninstall" /\ IsLog(Known, pi.journal, Notes)
        /\ IsLedger(Known, pi.held, Notes) /\ DOMAIN pi = Fields /\ IsHome(Known, piFiles, Notes)
    BY Underway DEF Holders, Reconciles, PiIInv, IsCommand
  <1>2. /\ path \in ChildFiles /\ path \in Paths /\ path # "mcp"
        /\ content \in FileOf(path, Notes) /\ content # NoFile
        /\ piFiles[path] \in MaybeFile(path, Notes)
        /\ \A o \in Known : Keeps(path, o[path], piFiles[path])
        /\ piFiles[path] # NoFile => content.note = piFiles[path].note
    BY QueuedChild
  <1>3. /\ DOMAIN after = Fields /\ after.kind = pi.kind /\ after.pc = pi.pc
        /\ after.held = [pi.held EXCEPT !.children = WithNew(pi.held.children, path, record)]
        /\ after.todo = pi.todo /\ after.journal = log /\ after.found = pi.found
        /\ after.collect = pi.collect /\ after.queue = pi.queue \ {path}
    BY <1>1 DEF Recording, Fields
  <1>4. \A p \in Paths : written[p] = IF p = path THEN content ELSE piFiles[p]
    BY <1>1, <1>2 DEF IsHome
  <1> HIDE DEF after, written
  <1>5. Agenda(after, manifest) /\ Remembers(after, Notes) /\ Origins(after, original) = Known
    BY <1>1, <1>3, SameTask
  <1>6. /\ IsLog(Known, log, Notes)
        /\ \A p \in DOMAIN log : p \notin DOMAIN pi.journal => p = path /\ log[p] = piFiles[p]
        /\ \A p \in DOMAIN log : p \in DOMAIN pi.journal => log[p] = pi.journal[p]
        /\ path \notin DOMAIN pi.held.children => path \in DOMAIN log
    <2>1. IsLog(Known, Journaled(path), Notes)
      BY <1>1, <1>2, LogGrows DEF Journaled, PiIInv, Notes
    <2>2. CASE log = Journaled(path)
      <3>1. /\ \A p \in DOMAIN log : p \notin DOMAIN pi.journal => p = path /\ log[p] = piFiles[p]
            /\ \A p \in DOMAIN log : p \in DOMAIN pi.journal => log[p] = pi.journal[p]
            /\ path \in DOMAIN log
        BY <2>2 DEF Journaled, WithNew
      <3> QED
        BY <2>1, <2>2, <3>1
    <2>3. CASE log = pi.journal /\ path \in DOMAIN pi.held.children
      BY <1>1, <2>3
    <2> QED
      BY <2>2, <2>3
  <1>7. ASSUME NEW p \in ChildFiles \cap DOMAIN log, log[p] # NoFile
        PROVE  written[p] # NoFile /\ written[p].note = log[p].note
    <2>1. piFiles[p] # NoFile /\ piFiles[p].note = log[p].note
      BY <1>6, <1>7 DEF PiIInv, IsCommand, InStep, Reconciles
    <2> QED
      BY <1>2, <1>4, <2>1, <1>7 DEF Paths
  <1>8. InStep(after, written, source)
    <2>1. ASSUME NEW p \in pi.queue \ {path}
          PROVE  p \in ChildFiles /\ (written[p] = NoFile => p = "overlay" /\ source # NoFile)
      BY <1>4 DEF PiIInv, IsCommand, InStep, Paths
    <2> QED
      BY <1>3, <1>7, <2>1 DEF InStep
  <1>9. IsLedger(Known, after.held, Notes)
    <2>1. CASE path \in DOMAIN pi.held.children
      <3>1. WithNew(pi.held.children, path, record) = [p \in DOMAIN pi.held.children |-> pi.held.children[p]]
        BY <2>1 DEF WithNew
      <3>2. after.held = pi.held
        BY <1>1, <1>3, <3>1 DEF IsLedger
      <3> QED
        BY <1>1, <3>2
    <2>2. CASE path \notin DOMAIN pi.held.children
      <3>1. /\ path \in DOMAIN log /\ log[path] \in MaybeFile(path, Notes)
            /\ \A o \in Known : Keeps(path, o[path], log[path])
        BY <1>2, <1>6, <2>2 DEF IsLog
      <3>2. record = [before |-> log[path], after |-> content]
        BY DEF OwnedFile
      <3>3. log[path] # NoFile => content.note = log[path].note
        BY <1>2, <1>4, <1>7, <3>1
      <3>4. IsOwned(path, record, Notes) /\ \A o \in Known : Differs(path, o[path], record)
        BY <1>2, <3>1, <3>2, <3>3, FreshDiffers DEF IsOwned
      <3> DEFINE grown == WithNew(pi.held.children, path, record)
      <3>5. /\ DOMAIN grown = DOMAIN pi.held.children \cup {path} /\ grown[path] = record
            /\ \A p \in DOMAIN pi.held.children : grown[p] = pi.held.children[p]
            /\ grown = [p \in DOMAIN grown |-> grown[p]]
        BY <2>2 DEF WithNew
      <3> HIDE DEF record, grown
      <3>6. after.held = [mcp |-> pi.held.mcp, children |-> grown]
        BY <1>1, <1>3 DEF IsLedger, grown
      <3>7. after.held.mcp = pi.held.mcp /\ after.held.children = grown
        BY <3>6
      <3> QED
        BY <1>1, <1>2, <3>4, <3>5, <3>6, <3>7 DEF IsLedger
    <2> QED
      BY <2>1, <2>2
  <1>10. IsCommand(after, Known, written, manifest, source, Notes)
    BY <1>3, <1>5, <1>6, <1>8, <1>9 DEF IsCommand
  <1> QED
    BY <1>5, <1>10 DEF after, written

LEMMA ReconcileChildKeeps ==
    ASSUME PiIInv, ReconcileChild
    PROVE  PiIInv'
  <1>1. /\ pi.pc = "child" /\ pi.todo # <<>> /\ pi.kind # "uninstall" /\ pi.pc \in Holders
        /\ DOMAIN pi = Fields /\ UNCHANGED observed
    BY Underway DEF ReconcileChild, AtStep, Holders, Reconciles, PiIInv, IsCommand
  <1>2. ASSUME NEW path \in pi.queue, PiGoes([pi EXCEPT !.queue = @ \ {path}, !.bad = TRUE]),
               UNCHANGED <<piFiles, source, manifest>>
        PROVE  PiIInv'
    <2>1. /\ piEdits' = piEdits /\ original' = original /\ source' = source
          /\ manifest' = manifest /\ piFiles' = piFiles
      BY <1>1, <1>2 DEF PiGoes, observed, counted
    <2>2. /\ DOMAIN pi' = Fields /\ pi'.kind = pi.kind /\ pi'.pc = "child" /\ pi'.held = pi.held
          /\ pi'.todo = pi.todo /\ pi'.journal = pi.journal /\ pi'.found = pi.found
          /\ pi'.collect = pi.collect /\ pi'.queue = pi.queue \ {path}
      BY <1>1, <1>2 DEF PiGoes, Fields
    <2>3. Agenda(pi', manifest) /\ Remembers(pi', Notes) /\ Origins(pi', original) = Known
      BY <1>1, <2>2, SameTask
    <2>4. InStep(pi', piFiles, source)
      BY <1>1, <2>2 DEF PiIInv, IsCommand, InStep, Reconciles
    <2>5. IsCommand(pi', Known, piFiles', manifest', source, Notes)
      BY <1>1, <2>1, <2>2, <2>3, <2>4 DEF PiIInv, IsCommand
    <2> QED
      BY <2>1, <2>3, <2>5, CommandStep DEF PiIInv
  <1>3. CASE AbandonPhase
    BY <1>1, <1>3, Abandoned
  <1>4. ASSUME NEW path \in pi.queue, NEW content, content = Rendered(Found(path)),
               WriteHome(path, content, Recording(path, content, Journaled(path)))
        PROVE  PiIInv'
    <2>1. /\ path \in Paths /\ content \in MaybeFile(path, Notes)
          /\ \A o \in Known : Keeps(path, o[path], content)
      BY <1>1, <1>4, QueuedChild DEF MaybeFile
    <2>2. /\ IsCommand(Recording(path, content, Journaled(path)), Known,
                       [piFiles EXCEPT ![path] = content], manifest, source, Notes)
          /\ Origins(Recording(path, content, Journaled(path)), original) = Known
      BY <1>1, <1>4, RecordingOK
    <2> QED
      BY <1>1, <1>4, <2>1, <2>2, WriteKeeps
  <1>5. ASSUME NEW path \in pi.queue, NEW content, content = Rendered(Found(path)),
               ChildUnchanged(path, content)
        PROVE  PiIInv'
    <2> DEFINE log == IF path \in DOMAIN pi.held.children THEN pi.journal ELSE Journaled(path)
    <2>1. /\ piEdits' = piEdits /\ original' = original /\ source' = source
          /\ manifest' = manifest /\ piFiles' = piFiles
          /\ content = piFiles[path] /\ pi' = Recording(path, content, log)
      BY <1>1, <1>5 DEF ChildUnchanged, PiGoes, observed, counted
    <2>2. /\ IsCommand(Recording(path, content, log), Known,
                       [piFiles EXCEPT ![path] = content], manifest, source, Notes)
          /\ Origins(Recording(path, content, log), original) = Known
      BY <1>1, <1>5, RecordingOK
    <2>3. [piFiles EXCEPT ![path] = content] = piFiles
      BY <2>1 DEF PiIInv, IsHome
    <2> HIDE DEF log
    <2> QED
      BY <2>1, <2>2, <2>3, CommandStep DEF PiIInv
  <1>6. CASE PiGoes([pi EXCEPT !.pc = "verify"]) /\ UNCHANGED <<piFiles, source, manifest>>
    <2>1. /\ piEdits' = piEdits /\ original' = original /\ source' = source
          /\ manifest' = manifest /\ piFiles' = piFiles
      BY <1>1, <1>6 DEF PiGoes, observed, counted
    <2>2. /\ DOMAIN pi' = Fields /\ pi'.kind = pi.kind /\ pi'.pc = "verify" /\ pi'.held = pi.held
          /\ pi'.todo = pi.todo /\ pi'.journal = pi.journal /\ pi'.found = pi.found
          /\ pi'.collect = pi.collect
      BY <1>1, <1>6 DEF PiGoes, Fields
    <2>3. Agenda(pi', manifest) /\ Remembers(pi', Notes) /\ Origins(pi', original) = Known
      BY <1>1, <2>2, SameTask
    <2>4. IsCommand(pi', Known, piFiles', manifest', source, Notes)
      BY <1>1, <2>1, <2>2, <2>3 DEF PiIInv, IsCommand, InStep, Reconciles
    <2> QED
      BY <2>1, <2>3, <2>4, CommandStep DEF PiIInv
  <1> QED
    BY <1>2, <1>3, <1>4, <1>5, <1>6 DEF ReconcileChild

LEMMA VerifyKeeps ==
    ASSUME PiIInv, Verify
    PROVE  PiIInv'
  <1>1. /\ pi.pc = "verify" /\ pi.todo # <<>> /\ pi.kind # "uninstall" /\ pi.pc \in Holders
        /\ DOMAIN pi = Fields
        /\ piEdits' = piEdits /\ original' = original /\ source' = source
        /\ manifest' = manifest /\ piFiles' = piFiles
    BY Underway DEF Verify, AtStep, PiGoes, observed, counted, Holders, PiIInv, IsCommand
  <1>2. CASE pi' = UndoPhase(pi)
    BY <1>1, <1>2, Abandoned DEF AbandonPhase, Verify, PiGoes
  <1>3. CASE pi' = [pi EXCEPT !.pc = "manifest"]
    <2>1. /\ DOMAIN pi' = Fields /\ pi'.kind = pi.kind /\ pi'.pc = "manifest" /\ pi'.held = pi.held
          /\ pi'.todo = pi.todo /\ pi'.journal = pi.journal /\ pi'.found = pi.found
          /\ pi'.collect = pi.collect
      BY <1>1, <1>3 DEF Fields
    <2>2. Agenda(pi', manifest) /\ Remembers(pi', Notes) /\ Origins(pi', original) = Known
      BY <1>1, <2>1, SameTask
    <2>3. IsCommand(pi', Known, piFiles', manifest', source, Notes)
      BY <1>1, <2>1, <2>2 DEF PiIInv, IsCommand, InStep, Reconciles
    <2> QED
      BY <1>1, <2>2, <2>3, CommandStep DEF PiIInv
  <1> QED
    BY <1>2, <1>3 DEF Verify, PiGoes

(* The manifest may be noted in the journal too.                           *)
LEMMA LogWithManifest ==
    ASSUME NEW os, NEW notes, NEW j, NEW book, IsLog(os, j, notes), IsManifest(os, book, notes)
    PROVE  IsLog(os, WithNew(j, "manifest", book), notes)
  <1> DEFINE k == WithNew(j, "manifest", book)
  <1>1. /\ DOMAIN k = DOMAIN j \cup {"manifest"}
        /\ \A q \in DOMAIN k : k[q] = IF q \in DOMAIN j THEN j[q] ELSE book
    BY DEF WithNew
  <1>2. "manifest" \notin Paths
    BY DEF Paths, ChildFiles
  <1> HIDE DEF k
  <1> QED
    BY <1>1, <1>2 DEF IsLog, k

LEMMA WriteManifestKeeps ==
    ASSUME PiIInv, WriteManifest
    PROVE  PiIInv'
  <1>1. /\ pi.pc = "manifest" /\ pi.todo # <<>> /\ pi.kind # "uninstall" /\ pi.pc \in Holders
        /\ DOMAIN pi = Fields /\ IsLedger(Known, pi.held, Notes)
        /\ piEdits' = piEdits /\ original' = original /\ source' = source /\ piFiles' = piFiles
        /\ manifest' \in {manifest, pi.held}
    BY Underway DEF WriteManifest, AtStep, PiGoes, counted, Holders, PiIInv, IsCommand
  <1>2. IsManifest(Known, manifest', Notes)
    BY <1>1 DEF PiIInv, IsManifest
  <1>3. CASE pi' = PhaseOver(pi)
    BY <1>1, <1>2, <1>3, PhaseEnds DEF PiIInv
  <1>4. CASE pi' = UndoPhase([pi EXCEPT !.journal = WithNew(@, "manifest", manifest)])
    <2> DEFINE c == [pi EXCEPT !.journal = WithNew(@, "manifest", manifest)]
    <2>1. /\ DOMAIN c = Fields /\ c.kind = pi.kind /\ c.pc = pi.pc
          /\ c.todo = pi.todo /\ c.found = pi.found /\ c.collect = pi.collect
          /\ c.journal = WithNew(pi.journal, "manifest", manifest)
      BY <1>1 DEF Fields
    <2>2. pi' = UndoPhase(c)
      BY <1>4
    <2> HIDE DEF c
    <2>3. Agenda(c, manifest) /\ Remembers(c, Notes) /\ Origins(c, original) = Known
      BY <1>1, <2>1, SameTask
    <2>4. IsLog(Known, c.journal, Notes)
      BY <2>1, LogWithManifest DEF PiIInv, IsCommand
    <2>5. /\ IsCommand(pi', Known, piFiles', manifest', source, Notes)
          /\ Origins(pi', original) = Known
      BY <1>1, <2>1, <2>2, <2>3, <2>4, UndoOK
    <2> QED
      BY <1>1, <1>2, <2>5, CommandStep DEF PiIInv
  <1> QED
    BY <1>3, <1>4 DEF WriteManifest, PiGoes

---------------------------------------------------------------------------
(* A removal. *)

LEMMA BeginRemoveKeeps ==
    ASSUME PiIInv, BeginRemove
    PROVE  PiIInv'
  <1>1. /\ pi.pc = "phase" /\ pi.todo # <<>> /\ Head(pi.todo) = "remove" /\ DOMAIN pi = Fields
        /\ piEdits' = piEdits /\ original' = original /\ source' = source
        /\ manifest' = manifest /\ piFiles' = piFiles
    BY DEF BeginRemove, InPhase, PiGoes, observed, counted, PiIInv, IsCommand
  <1>2. CASE manifest = NoFile
    BY <1>1, <1>2, PhaseEnds DEF BeginRemove, PiGoes, PiIInv
  <1>4. CASE pi' = PhaseFailed(pi)
    BY <1>1, <1>4, PhaseEnds DEF PiIInv
  <1>3. CASE manifest # NoFile /\ pi' # PhaseFailed(pi)
    <2> DEFINE images == [p \in OwnedPaths(manifest) |-> piFiles[p]]
               log == WithNew(images, "manifest", manifest)
    <2>1. /\ DOMAIN pi' = Fields /\ pi'.kind = pi.kind /\ pi'.pc = "remove" /\ pi'.held = manifest
          /\ pi'.todo = pi.todo /\ pi'.found = pi.found /\ pi'.collect = pi.collect
          /\ pi'.journal = log
      BY <1>1, <1>3 DEF BeginRemove, PiGoes, Fields
    <2>2. IsLedger(Known, manifest, Notes) /\ OwnedPaths(manifest) \subseteq Paths
      BY <1>3 DEF PiIInv, IsManifest, IsLedger, OwnedPaths, Paths
    <2>3. IsLog(Known, images, Notes)
      <3>1. "manifest" \notin Paths
        BY DEF Paths, ChildFiles
      <3> QED
        BY <2>2, <3>1 DEF PiIInv, IsHome, IsLog
    <2> HIDE DEF images
    <2>4. IsLog(Known, log, Notes)
      BY <2>3, LogWithManifest DEF PiIInv
    <2> HIDE DEF log
    <2>5. Agenda(pi', manifest) /\ Remembers(pi', Notes) /\ Origins(pi', original) = Known
      BY <1>1, <2>1, SameTask
    <2>6. IsCommand(pi', Known, piFiles', manifest', source, Notes)
      BY <1>1, <2>1, <2>2, <2>4, <2>5 DEF IsCommand, InStep, Reconciles
    <2> QED
      BY <1>1, <2>5, <2>6, CommandStep DEF PiIInv
  <1> QED
    BY <1>2, <1>3, <1>4

LEMMA GiveBackKeeps ==
    ASSUME PiIInv, pi.pc = "remove", UNCHANGED observed, NEW path \in Paths, NEW owned,
           IsOwned(path, owned, Notes), \A o \in Known : Differs(path, o[path], owned),
           NEW rest, IsLedger(Known, rest, Notes),
           GiveBack(path, owned, [pi EXCEPT !.held = rest])
    PROVE  PiIInv'
  <1> DEFINE after == [pi EXCEPT !.held = rest]
  <1>1. pi.todo # <<>> /\ pi.pc \in Holders /\ (pi.kind = "uninstall" => Head(pi.todo) = "remove")
        /\ DOMAIN pi = Fields /\ IsLog(Known, pi.journal, Notes)
    BY Underway DEF Holders, PiIInv, IsCommand
  <1>2. /\ DOMAIN after = Fields /\ after.kind = pi.kind /\ after.pc = "remove" /\ after.held = rest
        /\ after.todo = pi.todo /\ after.found = pi.found /\ after.collect = pi.collect
        /\ after.journal = pi.journal
    BY <1>1 DEF Fields
  <1> HIDE DEF after
  <1>3. Agenda(after, manifest) /\ Remembers(after, Notes) /\ Origins(after, original) = Known
    BY <1>1, <1>2, SameTask
  <1>4. \A f : IsCommand(after, Known, f, manifest, source, Notes)
    BY <1>1, <1>2, <1>3 DEF IsCommand, InStep, Reconciles
  <1>5. CASE GivesBack(path, owned) /\ WriteHome(path, owned.before, after)
    <2>1. \A o \in Known : Keeps(path, o[path], owned.before)
      <3>1. piFiles[path] = owned.after
        BY <1>5 DEF GivesBack
      <3>2. \A o \in Known : Keeps(path, o[path], owned.after)
        BY <3>1 DEF PiIInv, IsHome
      <3> QED
        BY <3>2, GivingBackKeeps DEF PiIInv, Notes
    <2>2. owned.before \in MaybeFile(path, Notes)
      BY DEF IsOwned
    <2> QED
      BY <1>1, <1>3, <1>4, <1>5, <2>1, <2>2, WriteKeeps
  <1>6. CASE PiGoes(after) /\ UNCHANGED <<piFiles, source, manifest>>
    <2>1. /\ piEdits' = piEdits /\ original' = original /\ source' = source
          /\ manifest' = manifest /\ piFiles' = piFiles /\ pi' = after
      BY <1>6 DEF PiGoes, observed, counted
    <2> QED
      BY <1>3, <1>4, <2>1, CommandStep DEF PiIInv
  <1> QED
    BY <1>5, <1>6 DEF GiveBack, after

LEMMA RemoveChildKeeps ==
    ASSUME PiIInv, RemoveChild
    PROVE  PiIInv'
  <1>1. pi.pc = "remove" /\ UNCHANGED observed /\ IsLedger(Known, pi.held, Notes)
    BY DEF RemoveChild, AtStep, PiIInv, IsCommand, Holders
  <1>2. PICK path \in DOMAIN pi.held.children :
           GiveBack(path, pi.held.children[path],
                    [pi EXCEPT !.held.children =
                       [p \in DOMAIN @ \ {path} |-> @[p]]])
    BY DEF RemoveChild
  <1> DEFINE left == [p \in DOMAIN pi.held.children \ {path} |-> pi.held.children[p]]
             rest == [pi.held EXCEPT !.children = left]
  <1>3. GiveBack(path, pi.held.children[path], [pi EXCEPT !.held = rest])
    BY <1>2
  <1>4. IsLedger(Known, rest, Notes)
    <2>1. rest = [mcp |-> pi.held.mcp, children |-> left]
      BY <1>1 DEF IsLedger
    <2>2. rest.mcp = pi.held.mcp /\ rest.children = left
      BY <2>1
    <2> HIDE DEF rest
    <2> QED
      BY <1>1, <2>1, <2>2 DEF IsLedger
  <1>5. /\ path \in Paths /\ IsOwned(path, pi.held.children[path], Notes)
        /\ \A o \in Known : Differs(path, o[path], pi.held.children[path])
    BY <1>1 DEF IsLedger, Paths
  <1> HIDE DEF rest
  <1> QED
    BY <1>1, <1>3, <1>4, <1>5, GiveBackKeeps

LEMMA RemoveMcpKeeps ==
    ASSUME PiIInv, RemoveMcp
    PROVE  PiIInv'
  <1>1. pi.pc = "remove" /\ UNCHANGED observed /\ IsLedger(Known, pi.held, Notes)
    BY DEF RemoveMcp, AtStep, PiIInv, IsCommand, Holders
  <1>2. PICK owned \in pi.held.mcp : GiveBack("mcp", owned, [pi EXCEPT !.held.mcp = {}])
    BY DEF RemoveMcp
  <1> DEFINE rest == [pi.held EXCEPT !.mcp = {}]
  <1>3. GiveBack("mcp", owned, [pi EXCEPT !.held = rest])
    BY <1>2
  <1>4. IsLedger(Known, rest, Notes)
    <2>1. rest = [mcp |-> {}, children |-> pi.held.children]
      BY <1>1 DEF IsLedger
    <2>2. rest.mcp = {} /\ rest.children = pi.held.children
      BY <2>1
    <2> HIDE DEF rest
    <2> QED
      BY <1>1, <2>1, <2>2 DEF IsLedger
  <1>5. /\ "mcp" \in Paths /\ IsOwned("mcp", owned, Notes)
        /\ \A o \in Known : Differs("mcp", o["mcp"], owned)
    BY <1>1 DEF IsLedger, Paths
  <1> HIDE DEF rest
  <1> QED
    BY <1>1, <1>3, <1>4, <1>5, GiveBackKeeps

LEMMA RemoveManifestKeeps ==
    ASSUME PiIInv, RemoveManifest
    PROVE  PiIInv'
  <1>1. /\ pi.pc = "remove" /\ pi.todo # <<>> /\ manifest' = NoFile /\ original' = piFiles
        /\ pi' = PhaseOver(pi) /\ piFiles' = piFiles /\ source' = source /\ piEdits' = piEdits
    BY Underway DEF RemoveManifest, AtStep, PiGoes, counted
  <1>2. Notes' = Notes /\ Remembers(pi, Notes) /\ IsHome(Known, piFiles, Notes)
    BY <1>1 DEF Notes, PiIInv, IsCommand
  <1>3. /\ IsCommand(pi', Known', piFiles', manifest', source', Notes)
        /\ \A o : Origins(pi', o) = Origins(pi, o)
    BY <1>1, <1>2, OverOK DEF PiIInv
  <1>4. \A o \in Known' : o = piFiles \/ o \in Known
    BY <1>1, <1>3 DEF Known, Origins
  <1>5. IsHome(Known', piFiles, Notes)
    <2>1. \A p, content : Keeps(p, content, content)
      BY DEF Keeps
    <2> QED
      BY <1>2, <1>4, <2>1 DEF IsHome
  <1>6. IsOriginal(piFiles, Notes)
    BY <1>2 DEF IsHome, IsOriginal
  <1> QED
    BY <1>1, <1>2, <1>3, <1>5, <1>6 DEF PiIInv, IsManifest

LEMMA KeepManifestKeeps ==
    ASSUME PiIInv, KeepManifest
    PROVE  PiIInv'
  BY Abandoned DEF KeepManifest, AtStep, AbandonPhase, Holders

---------------------------------------------------------------------------
(* What a failed phase gives back. *)

LEMMA UndoKeeps ==
    ASSUME PiIInv, Undo
    PROVE  PiIInv'
  <1>1. /\ pi.pc = "undo" /\ pi.todo # <<>> /\ (pi.kind = "uninstall" => Head(pi.todo) = "remove")
        /\ DOMAIN pi = Fields /\ IsLog(Known, pi.journal, Notes) /\ IsHome(Known, piFiles, Notes)
        /\ IsManifest(Known, manifest, Notes) /\ source' = source /\ original' = original
    BY Underway DEF Undo, AtStep, PiIInv, IsCommand
  <1>2. PICK path \in DOMAIN pi.journal :
          LET rest == [pi EXCEPT !.journal = [p \in DOMAIN @ \ {path} |-> @[p]]]
          IN  \/ /\ PiGoes(rest)
                 /\ IF path = "manifest"
                    THEN manifest' = Undone(path, manifest) /\ UNCHANGED piFiles
                    ELSE /\ piFiles' = [piFiles EXCEPT ![path] = Undone(path, @)]
                         /\ UNCHANGED manifest
              \/ /\ PiGoes([rest EXCEPT !.trouble = TRUE])
                 /\ UNCHANGED <<piFiles, manifest>>
    BY DEF Undo
  <1> DEFINE log == [p \in DOMAIN pi.journal \ {path} |-> pi.journal[p]]
             rest == [pi EXCEPT !.journal = log]
  <1>3. piEdits' = piEdits /\ pi' \in {rest, [rest EXCEPT !.trouble = TRUE]}
    BY <1>2 DEF PiGoes, counted
  <1>4. /\ DOMAIN pi' = Fields /\ pi'.kind = pi.kind /\ pi'.pc = "undo" /\ pi'.todo = pi.todo
        /\ pi'.found = pi.found /\ pi'.collect = pi.collect /\ pi'.journal = log
    <2>1. /\ DOMAIN rest = Fields /\ rest.kind = pi.kind /\ rest.pc = "undo" /\ rest.todo = pi.todo
          /\ rest.found = pi.found /\ rest.collect = pi.collect /\ rest.journal = log
      BY <1>1 DEF Fields
    <2> HIDE DEF rest
    <2> QED
      BY <1>3, <2>1 DEF Fields
  <1>5. IsLog(Known, log, Notes)
    BY <1>1 DEF IsLog
  <1> HIDE DEF log, rest
  <1>6. /\ Remembers(pi', Notes) /\ Origins(pi', original) = Known
        /\ \A book : Agenda(pi', book)
    BY <1>1, <1>4, SameTask
  <1>7. IsCommand(pi', Known, piFiles', manifest', source, Notes)
    BY <1>4, <1>5, <1>6 DEF IsCommand, InStep, Holders, Reconciles
  <1>8. IsManifest(Known, manifest', Notes)
    BY <1>1, <1>2 DEF Undone, IsLog
  <1>9. IsHome(Known, piFiles', Notes)
    <2>1. CASE piFiles' = piFiles
      BY <1>1, <2>1
    <2>2. CASE path # "manifest" /\ piFiles' = [piFiles EXCEPT ![path] = pi.journal[path]]
      <3>1. /\ path \in Paths /\ pi.journal[path] \in MaybeFile(path, Notes)
            /\ \A o \in Known : Keeps(path, o[path], pi.journal[path])
        BY <1>1, <2>2 DEF IsLog
      <3> QED
        BY <1>1, <2>2, <3>1, HomeChanges DEF PiIInv, Notes
    <2> QED
      BY <1>2, <2>1, <2>2 DEF Undone
  <1> QED
    BY <1>1, <1>3, <1>6, <1>7, <1>8, <1>9, CommandStep

LEMMA EndUndoKeeps ==
    ASSUME PiIInv, EndUndo
    PROVE  PiIInv'
  <1>1. /\ pi.pc = "undo" /\ pi.todo # <<>> /\ pi' = PhaseFailed(pi)
        /\ piEdits' = piEdits /\ original' = original /\ source' = source
        /\ manifest' = manifest /\ piFiles' = piFiles
    BY Underway DEF EndUndo, AtStep, PiGoes, observed, counted
  <1> QED
    BY <1>1, PhaseEnds DEF PiIInv

(* The snapshot is restored, as far as it goes.                            *)
LEMMA RestoreKeeps ==
    ASSUME PiIInv, Restore
    PROVE  PiIInv'
  <1>1. /\ pi.pc = "phase" /\ pi.todo # <<>> /\ Head(pi.todo) = "restore" /\ DOMAIN pi = Fields
        /\ source' = source
    BY DEF Restore, InPhase, PiIInv, IsCommand
  <1>2. PICK restored \in SUBSET Covered :
          /\ piFiles' = [p \in Paths |-> IF p \in restored THEN pi.found.files[p] ELSE piFiles[p]]
          /\ manifest' = IF "manifest" \in restored THEN pi.found.manifest ELSE manifest
          /\ PiGoes([PhaseOver(pi) EXCEPT !.trouble = @ \/ restored # Covered])
    BY DEF Restore
  <1>3. original' = [p \in Paths |->
                       IF p \in pi.found.covered THEN pi.found.original[p]
                       ELSE IF manifest' # NoFile /\ p \in OwnedPaths(manifest') THEN original[p]
                       ELSE piFiles'[p]]
    BY DEF Restore
  <1> DEFINE found == pi.found
  <1>4. pi.kind # "uninstall" /\ Recalls(pi) /\ Known = {original, found.original}
    <2>1. Head(<<"remove", "cleanup">>) = "remove" /\ Head(<<"cleanup">>) = "cleanup"
      OBVIOUS
    <2> QED
      BY <1>1, <2>1 DEF PiIInv, IsCommand, Agenda, Recalls, Known, Origins
  <1>5. /\ IsOriginal(found.original, Notes)
        /\ IsHome({found.original}, found.files, Notes)
        /\ IsManifest({found.original}, found.manifest, Notes)
        /\ found.covered \subseteq Paths /\ "mcp" \in found.covered
        /\ found.manifest # NoFile => DOMAIN found.manifest.children \subseteq found.covered
        /\ \A p \in Paths \ found.covered : found.original[p] = NoFile
    BY <1>4 DEF PiIInv, IsCommand, Remembers
  <1>6. piEdits' = piEdits /\ Notes' = Notes
    BY <1>2 DEF PiGoes, counted, Notes
  <1>7. IsCommand(pi', Known', piFiles', manifest', source', Notes) /\ Known' = {original', found.original}
    <2> DEFINE over == PhaseOver(pi)
    <2>1. \A os, f, book, s : IsCommand(over, os, f, book, s, Notes)
      BY <1>1, <1>4, OverOK DEF PiIInv, IsCommand
    <2>2. over.pc = "phase" /\ over.kind = pi.kind /\ over.found = found /\ DOMAIN over = Fields
      BY <1>1, OverFields
    <2> HIDE DEF over
    <2>3. /\ DOMAIN pi' = Fields /\ pi'.pc = over.pc /\ pi'.kind = over.kind /\ pi'.todo = over.todo
          /\ pi'.collect = over.collect /\ pi'.journal = over.journal /\ pi'.found = over.found
      BY <1>2, <2>2 DEF PiGoes, Fields, over
    <2>4. IsCommand(pi', Known', piFiles', manifest', source', Notes)
      BY <2>1, <2>2, <2>3
      DEF IsCommand, InStep, Agenda, Remembers, Recalls, Holders, Reconciles
    <2>5. Known' = {original', found.original}
      BY <1>4, <2>2, <2>3 DEF Known, Origins, Recalls
    <2> QED
      BY <2>4, <2>5
  <1>8. IsHome({found.original}, piFiles', Notes)
    <2>1. IsHome({found.original}, piFiles, Notes)
      BY <1>4, FewerOrigins DEF PiIInv
    <2> QED
      BY <1>2, <1>5, <2>1 DEF IsHome
  <1>9. IsManifest({found.original}, manifest', Notes)
    <2>1. IsManifest({found.original}, manifest, Notes)
      BY <1>4, FewerOrigins DEF PiIInv
    <2> QED
      BY <1>2, <1>5, <2>1
  <1>10. IsOriginal(original', Notes)
    BY <1>3, <1>5, <1>8 DEF IsOriginal, IsHome, PiIInv
  <1>11. IsHome({original'}, piFiles', Notes)
    <2>1. ASSUME NEW p \in Paths
          PROVE  Keeps(p, original'[p], piFiles'[p])
      <3>1. CASE p \in found.covered
        BY <1>3, <1>8, <3>1 DEF IsHome
      <3>2. CASE p \notin found.covered
        <4>1. p \notin restored
          BY <1>2, <3>2 DEF Covered, Paths, ChildFiles
        <4>2. piFiles'[p] = piFiles[p] /\ Keeps(p, original[p], piFiles[p])
          BY <1>2, <1>4, <4>1 DEF PiIInv, IsHome
        <4>3. Keeps(p, piFiles'[p], piFiles'[p])
          BY DEF Keeps
        <4> QED
          BY <1>3, <3>2, <4>2, <4>3
      <3> QED
        BY <3>1, <3>2
    <2> QED
      BY <1>8, <2>1 DEF IsHome
  <1>12. IsManifest({original'}, manifest', Notes)
    <2>1. SUFFICES ASSUME manifest' # NoFile
                   PROVE  IsLedger({original'}, manifest', Notes)
      BY DEF IsManifest
    <2>2. IsLedger({found.original}, manifest', Notes)
      BY <1>9, <2>1 DEF IsManifest
    <2>3. original'["mcp"] = found.original["mcp"]
      BY <1>3, <1>5 DEF Paths
    <2>4. ASSUME NEW p \in DOMAIN manifest'.children
          PROVE  Differs(p, original'[p], manifest'.children[p])
      <3>1. p \in Paths /\ p \in OwnedPaths(manifest')
        BY <2>2 DEF IsLedger, Paths, OwnedPaths
      <3>2. CASE p \in found.covered
        BY <1>3, <2>2, <3>1, <3>2 DEF IsLedger
      <3>3. CASE p \notin found.covered
        <4>1. manifest' = manifest
          BY <1>2, <1>5, <2>1, <3>3
        <4>2. original'[p] = original[p]
          BY <1>3, <2>1, <3>1, <3>3
        <4> QED
          BY <1>4, <2>1, <4>1, <4>2 DEF PiIInv, IsManifest, IsLedger
      <3> QED
        BY <3>2, <3>3
    <2> QED
      BY <2>2, <2>3, <2>4 DEF IsLedger
  <1>13. IsHome(Known', piFiles', Notes) /\ IsManifest(Known', manifest', Notes)
    BY <1>7, <1>8, <1>9, <1>11, <1>12 DEF IsHome, IsManifest, IsLedger
  <1> QED
    BY <1>1, <1>6, <1>7, <1>10, <1>13 DEF PiIInv

---------------------------------------------------------------------------
(* The others: packages, the components with entries of their own in       *)
(* mcp.json, and the user.                                                 *)

LEMMA PackagesKeeps ==
    ASSUME PiIInv, Packages
    PROVE  PiIInv'
  <1>1. /\ pi.pc = "phase" /\ pi.todo # <<>> /\ Head(pi.todo) = "packages"
        /\ original' = original /\ manifest' = manifest /\ piFiles' = piFiles
        /\ pi' \in {PhaseOver(pi), PhaseFailed(pi)} /\ piEdits \in Nat
        /\ IsCommand(pi, Known, piFiles, manifest, source, Notes) /\ Remembers(pi, Notes)
    BY DEF Packages, InPhase, observed, PiIInv, IsCommand
  <1>2. CASE piEdits' = piEdits /\ source' = source
    BY <1>1, <1>2, PhaseEnds DEF PiIInv
  <1>3. CASE piEdits' = piEdits + 1 /\ source' \in {[c EXCEPT !.note = 0] : c \in Children}
    <2>1. Notes' = 0 .. piEdits + 1 /\ piEdits' \in Nat
      BY <1>1, <1>3 DEF Notes
    <2>2. source' \in MaybeFile("user", Notes')
      <3>1. PICK c \in Children : source' = [c EXCEPT !.note = 0]
        BY <1>3
      <3>2. c \in ChildTexts(Nat)
        BY PiAssumption
      <3>3. source' \in ChildTexts(0 .. piEdits + 1)
        BY <1>1, <3>1, <3>2 DEF ChildTexts
      <3> QED
        BY <2>1, <3>3 DEF MaybeFile, FileOf
    <2>3. Remembers(pi, 0 .. piEdits + 1)
      BY <1>1, MoreNotesKept DEF Notes
    <2>4. /\ IsCommand(pi', Known, piFiles', manifest', source', 0 .. piEdits + 1)
          /\ \A o : Origins(pi', o) = Origins(pi, o)
      BY <1>1, <2>3, OverOK, FailedOK
    <2>5. /\ IsOriginal(original, 0 .. piEdits + 1) /\ IsHome(Known, piFiles, 0 .. piEdits + 1)
          /\ IsManifest(Known, manifest, 0 .. piEdits + 1)
      BY MoreNotesKept DEF PiIInv, Notes
    <2>6. Known' = Known
      BY <1>1, <2>4 DEF Known
    <2> QED
      BY <1>1, <2>1, <2>2, <2>4, <2>5, <2>6 DEF PiIInv
  <1> QED
    BY <1>2, <1>3 DEF Packages, counted

(* What the others' entries make of an mcp.json.                           *)
LEMMA ServersWritten ==
    ASSUME NEW n \in Nat, NEW x \in MaybeFile("mcp", 0 .. n), NEW there \in BOOLEAN
    PROVE  /\ WithServers(x, there) \in MaybeFile("mcp", 0 .. n)
           /\ x # NoFile => /\ WithServers(x, there) # NoFile /\ WithServers(x, there).note = x.note
                            /\ WithServers(x, there).codegraph = x.codegraph
                            /\ WithServers(x, there).servers <=> there
           /\ x = NoFile /\ there =>
                /\ WithServers(x, there) # NoFile /\ WithServers(x, there).note = 0
                /\ WithServers(x, there).codegraph = "none" /\ (WithServers(x, there).servers <=> TRUE)
           /\ x = NoFile /\ ~ there => WithServers(x, there) = NoFile
  <1>1. CASE x # NoFile
    <2>1. WithServers(x, there) = [x EXCEPT !.servers = there] /\ x \in FileOf("mcp", 0 .. n)
      BY <1>1 DEF WithServers, MaybeFile
    <2>2. /\ [x EXCEPT !.servers = there] \in FileOf("mcp", 0 .. n)
          /\ [x EXCEPT !.servers = there].note = x.note
          /\ [x EXCEPT !.servers = there].codegraph = x.codegraph
          /\ [x EXCEPT !.servers = there].servers <=> there
      BY <2>1 DEF FileOf, McpFiles
    <2>3. [x EXCEPT !.servers = there] # NoFile
      BY <2>2, FileIsThere
    <2> QED
      BY <1>1, <2>1, <2>2, <2>3 DEF MaybeFile
  <1>2. CASE x = NoFile /\ there
    <2>1. WithServers(x, there) = [codegraph |-> "none", servers |-> TRUE, note |-> 0]
      BY <1>2 DEF WithServers, EmptyMcp
    <2>2. [codegraph |-> "none", servers |-> TRUE, note |-> 0] \in FileOf("mcp", 0 .. n)
      BY DEF FileOf, McpFiles
    <2>3. [codegraph |-> "none", servers |-> TRUE, note |-> 0] # NoFile
      BY <2>2, FileIsThere
    <2> DEFINE r == [codegraph |-> "none", servers |-> TRUE, note |-> 0]
    <2>4. r.note = 0 /\ r.codegraph = "none" /\ (r.servers <=> TRUE)
      OBVIOUS
    <2> HIDE DEF r
    <2>5. WithServers(x, there) = r /\ r \in FileOf("mcp", 0 .. n) /\ r # NoFile
      BY <2>1, <2>2, <2>3 DEF r
    <2> QED
      BY <1>2, <2>4, <2>5 DEF MaybeFile
  <1>3. CASE x = NoFile /\ ~ there
    BY <1>3 DEF WithServers, MaybeFile
  <1> QED
    BY <1>1, <1>2, <1>3

(* The others' entries come and go with the user's.                        *)
LEMMA ServersKeep ==
    ASSUME NEW n \in Nat, NEW o \in MaybeFile("mcp", 0 .. n),
           NEW content \in MaybeFile("mcp", 0 .. n), Keeps("mcp", o, content),
           NEW there \in BOOLEAN
    PROVE  /\ WithServers(content, there) \in MaybeFile("mcp", 0 .. n)
           /\ WithServers(o, there) \in MaybeFile("mcp", 0 .. n)
           /\ Keeps("mcp", WithServers(o, there), WithServers(content, there))
  <1> DEFINE a == WithServers(o, there)
             b == WithServers(content, there)
  <1>2. a \in MaybeFile("mcp", 0 .. n) /\ b \in MaybeFile("mcp", 0 .. n)
    BY ServersWritten
  <1>3. CASE o # NoFile
    <2>1. content # NoFile /\ content.note = o.note /\ (o.codegraph = "other" => content.codegraph = "other")
      BY <1>3 DEF Keeps
    <2>2. /\ a # NoFile /\ a.note = o.note /\ a.codegraph = o.codegraph /\ (a.servers <=> there)
          /\ b # NoFile /\ b.note = content.note /\ b.codegraph = content.codegraph /\ (b.servers <=> there)
      BY <1>3, <2>1, ServersWritten
    <2> HIDE DEF a, b
    <2>3. Keeps("mcp", a, b)
      BY <2>1, <2>2 DEF Keeps
    <2> QED
      BY <1>2, <2>3 DEF a, b
  <1>4. CASE o = NoFile
    <2>1. content = NoFile \/ content.note = 0
      BY <1>4 DEF Keeps
    <2>2. /\ ~ there => a = NoFile
          /\ there => a # NoFile /\ a.note = 0 /\ a.codegraph = "none" /\ (a.servers <=> there)
          /\ b = NoFile \/ (b.note = 0 /\ (b.servers <=> there))
          /\ there => b # NoFile
      BY <1>4, <2>1, ServersWritten
    <2> HIDE DEF a, b
    <2>3. Keeps("mcp", a, b)
      BY <2>2 DEF Keeps
    <2> QED
      BY <1>2, <2>3 DEF a, b
  <1> QED
    BY <1>3, <1>4

LEMMA OtherEntriesKeep ==
    ASSUME PiIInv, pi.pc = "phase", pi.todo # <<>>, Head(pi.todo) # "remove",
           NEW there \in BOOLEAN, there \/ (pi.kind = "uninstall" /\ manifest = NoFile),
           OtherEntries(there, PhaseOver(pi)) \/ OtherEntries(there, PhaseFailed(pi))
    PROVE  PiIInv'
  <1> DEFINE mcp == WithServers(piFiles["mcp"], there)
             mine == WithServers(original["mcp"], there)
  <1>1. /\ piFiles' = [piFiles EXCEPT !["mcp"] = mcp]
        /\ original' = [original EXCEPT !["mcp"] = mine]
        /\ source' = source /\ manifest' = manifest /\ piEdits' = piEdits /\ Notes' = Notes
        /\ pi' \in {PhaseOver(pi), PhaseFailed(pi)}
    BY DEF OtherEntries, PiGoes, counted, Notes
  <1>2. /\ IsOriginal(original, Notes) /\ IsHome(Known, piFiles, Notes)
        /\ IsManifest(Known, manifest, Notes) /\ piEdits \in Nat
        /\ source \in MaybeFile("user", Notes)
        /\ IsCommand(pi, Known, piFiles, manifest, source, Notes) /\ Remembers(pi, Notes)
    BY DEF PiIInv, IsCommand
  <1>3. /\ IsCommand(pi', Known', piFiles', manifest', source', Notes)
        /\ \A o : Origins(pi', o) = Origins(pi, o)
    BY <1>1, <1>2, OverOK, FailedOK
  <1>4. \A o \in Known' : o = original' \/ (o \in Known /\ there)
    BY <1>3 DEF Known, Origins, Recalls
  <1>5. /\ "mcp" \in Paths /\ original \in Known
        /\ piFiles["mcp"] \in MaybeFile("mcp", 0 .. piEdits)
        /\ original["mcp"] \in MaybeFile("mcp", 0 .. piEdits)
        /\ \A o \in Known : Keeps("mcp", o["mcp"], piFiles["mcp"])
    BY <1>2 DEF IsHome, IsOriginal, Known, Origins, Notes, Paths
  <1>6. /\ mcp \in MaybeFile("mcp", Notes) /\ mine \in MaybeFile("mcp", Notes)
        /\ Keeps("mcp", mine, mcp)
    BY <1>2, <1>5, ServersKeep DEF Notes
  <1>7. ASSUME NEW o \in Known, there
        PROVE  Keeps("mcp", o["mcp"], mcp)
    <2>1. Keeps("mcp", o["mcp"], piFiles["mcp"])
      BY <1>5
    <2>2. /\ mcp # NoFile /\ (mcp.servers <=> TRUE)
          /\ piFiles["mcp"] # NoFile => /\ mcp.note = piFiles["mcp"].note
                                       /\ mcp.codegraph = piFiles["mcp"].codegraph
          /\ piFiles["mcp"] = NoFile => mcp.note = 0
      BY <1>2, <1>5, <1>7, ServersWritten
    <2> HIDE DEF mcp
    <2> QED
      BY <2>1, <2>2 DEF Keeps
  <1>8. there => mine # NoFile /\ (mine.servers <=> TRUE)
    BY <1>2, <1>5, ServersWritten
  <1> HIDE DEF mcp, mine
  <1>9. original'["mcp"] = mine /\ \A p \in Paths : p # "mcp" => original'[p] = original[p]
    BY <1>1, <1>2, <1>5 DEF IsOriginal
  <1>10. IsHome(Known', piFiles', Notes)
    <2>1. piFiles'["mcp"] = mcp /\ \A p \in Paths : p # "mcp" => piFiles'[p] = piFiles[p]
      BY <1>1, <1>2, <1>5 DEF IsHome
    <2>2. piFiles' = [p \in Paths |-> piFiles'[p]]
      BY <1>1, <1>2 DEF IsHome
    <2>3. ASSUME NEW p \in Paths, NEW o \in Known'
          PROVE  Keeps(p, o[p], piFiles'[p])
      <3>1. CASE p = "mcp"
        BY <1>4, <1>6, <1>7, <1>9, <2>1, <3>1
      <3>2. CASE p # "mcp"
        BY <1>2, <1>4, <1>5, <1>9, <2>1, <3>2 DEF IsHome
      <3> QED
        BY <3>1, <3>2
    <2>4. \A p \in Paths : piFiles'[p] \in MaybeFile(p, Notes)
      BY <1>2, <1>6, <2>1 DEF IsHome
    <2> QED
      BY <2>2, <2>3, <2>4 DEF IsHome
  <1>11. IsManifest(Known', manifest, Notes)
    <2>1. SUFFICES ASSUME manifest # NoFile
                   PROVE  IsLedger(Known', manifest, Notes)
      BY DEF IsManifest
    <2>2. IsLedger(Known, manifest, Notes) /\ there
      BY <1>2, <2>1 DEF IsManifest
    <2>3. ASSUME NEW o \in Known', NEW r \in manifest.mcp
          PROVE  Differs("mcp", o["mcp"], r)
      BY <1>4, <1>8, <1>9, <2>2 DEF IsLedger, Differs
    <2>4. ASSUME NEW o \in Known', NEW p \in DOMAIN manifest.children
          PROVE  Differs(p, o[p], manifest.children[p])
      BY <1>4, <1>5, <1>9, <2>2 DEF IsLedger, Paths, ChildFiles
    <2> QED
      BY <2>2, <2>3, <2>4 DEF IsLedger
  <1>12. IsOriginal(original', Notes)
    BY <1>1, <1>2, <1>6, <1>9 DEF IsOriginal
  <1> QED
    BY <1>1, <1>2, <1>3, <1>10, <1>11, <1>12 DEF PiIInv

LEMMA ComponentsKeep ==
    ASSUME PiIInv, Components
    PROVE  PiIInv'
  <1>1. pi.pc = "phase" /\ pi.todo # <<>> /\ Head(pi.todo) = "components"
    BY DEF Components, InPhase
  <1>2. CASE \E over \in {PhaseOver(pi), PhaseFailed(pi)} : OtherEntries(TRUE, over)
    BY <1>1, <1>2, OtherEntriesKeep
  <1>3. CASE PiGoes(PhaseFailed(pi)) /\ UNCHANGED <<piFiles, source, manifest, observed>>
    <2>1. /\ piEdits' = piEdits /\ original' = original /\ source' = source
          /\ manifest' = manifest /\ piFiles' = piFiles /\ pi' = PhaseFailed(pi)
      BY <1>3 DEF PiGoes, counted, observed
    <2> QED
      BY <1>1, <2>1, PhaseEnds DEF PiIInv
  <1> QED
    BY <1>2, <1>3 DEF Components

LEMMA CleanupKeeps ==
    ASSUME PiIInv, Cleanup
    PROVE  PiIInv'
  <1>1. pi.pc = "phase" /\ pi.todo # <<>> /\ Head(pi.todo) = "cleanup"
    BY DEF Cleanup, InPhase
  <1>2. pi.kind = "uninstall" /\ manifest = NoFile
    <2>1. Head(<<"remove", "cleanup">>) = "remove"
      OBVIOUS
    <2> QED
      BY <1>1, <2>1, NextTodo DEF PiIInv, IsCommand, Agenda
  <1> QED
    BY <1>1, <1>2, OtherEntriesKeep DEF Cleanup

(* A content that the user makes has a note nobody has seen.               *)
LEMMA EditHomeKeeps ==
    ASSUME PiIInv, NEW path \in Paths, NEW contents,
           \A c \in contents : \A n \in Nat : [c EXCEPT !.note = n] \in FileOf(path, 0 .. n),
           EditHome(path, contents)
    PROVE  PiIInv'
  <1>1. /\ pi.pc = "ended" /\ piEdits' = piEdits + 1 /\ piEdits \in Nat
        /\ manifest' = manifest /\ pi' = pi /\ source' = source
    BY DEF EditHome, PiEdit, PiIInv
  <1>2. PICK content \in {NoFile} \cup {[c EXCEPT !.note = piEdits + 1] : c \in contents} :
           /\ piFiles' = [piFiles EXCEPT ![path] = content]
           /\ original' = [original EXCEPT ![path] = content]
    BY DEF EditHome
  <1> DEFINE notes == 0 .. piEdits + 1
  <1>3. content \in MaybeFile(path, notes) /\ (content # NoFile => content.note = piEdits + 1)
    <2>1. CASE content = NoFile
      BY <2>1 DEF MaybeFile
    <2>2. CASE content # NoFile
      <3>1. PICK c \in contents : content = [c EXCEPT !.note = piEdits + 1]
        BY <1>2, <2>2
      <3>2. content \in FileOf(path, notes)
        BY <1>1, <3>1
      <3>3. "note" \in DOMAIN content
        BY <3>2 DEF FileOf, McpFiles, ChildTexts
      <3> QED
        BY <3>1, <3>2, <3>3 DEF MaybeFile
    <2> QED
      BY <2>1, <2>2
  <1>4. /\ Notes' = notes /\ piEdits' \in Nat /\ Known = {original} /\ Known' = {original'}
    BY <1>1 DEF Notes, Known, Origins, Recalls
  <1>5. /\ IsOriginal(original, notes) /\ IsHome(Known, piFiles, notes)
        /\ source \in MaybeFile("user", notes)
    BY <1>1, MoreNotes, MoreNotesKept DEF PiIInv, Notes
  <1>6. IsOriginal(original', notes)
    BY <1>2, <1>3, <1>5 DEF IsOriginal
  <1>7. IsHome(Known', piFiles', notes)
    <2>1. Keeps(path, content, content)
      BY DEF Keeps
    <2> QED
      BY <1>2, <1>3, <1>4, <1>5, <2>1 DEF IsHome, IsOriginal
  <1>8. \A p \in Paths : original'[p] = IF p = path THEN content ELSE original[p]
    BY <1>2, <1>5 DEF IsOriginal
  <1>9. ASSUME NEW book, IsManifest(Known, book, Notes)
        PROVE  IsManifest(Known', book, notes)
    <2>1. SUFFICES ASSUME IsLedger(Known, book, Notes)
                   PROVE  IsLedger(Known', book, notes)
      BY <1>9 DEF IsManifest
    <2>2. IsLedger(Known, book, notes)
      BY <1>1, <2>1, MoreNotesKept DEF Notes
    <2>3. ASSUME NEW p \in Paths, NEW r, IsOwned(p, r, Notes), Differs(p, original[p], r)
          PROVE  Differs(p, original'[p], r)
      <3>1. CASE p = path
        <4>1. r.after.note \in 0 .. piEdits
          BY <1>1, <2>3, FileIsThere DEF IsOwned, Notes
        <4> QED
          BY <1>1, <1>3, <1>8, <3>1, <4>1 DEF Differs
      <3>2. CASE p # path
        BY <1>8, <2>3, <3>2
      <3> QED
        BY <3>1, <3>2
    <2> QED
      BY <1>4, <2>1, <2>2, <2>3 DEF IsLedger, Paths
  <1>10. IsCommand(pi, Known', piFiles', manifest', source', notes)
    <2>1. IsLog(Known', pi.journal, notes)
      <3>1. DOMAIN pi.journal = {}
        BY <1>1 DEF PiIInv, IsCommand, InStep
      <3> QED
        BY <3>1 DEF IsLog
    <2> QED
      BY <1>1, <2>1 DEF PiIInv, IsCommand, InStep, Holders, Reconciles, Remembers, Recalls
  <1>11. IsManifest(Known', manifest, notes)
    BY <1>9 DEF PiIInv
  <1> QED
    BY <1>1, <1>4, <1>5, <1>6, <1>7, <1>10, <1>11 DEF PiIInv

LEMMA Renoted ==
    ASSUME NEW n \in Nat
    PROVE  /\ \A c \in ChildTexts(Nat) : [c EXCEPT !.note = n] \in ChildTexts(0 .. n)
           /\ \A c \in McpFiles(Nat) : [c EXCEPT !.note = n] \in McpFiles(0 .. n)
  BY DEF ChildTexts, McpFiles

LEMMA UpdatePackageKeeps ==
    ASSUME PiIInv, UpdatePackage
    PROVE  PiIInv'
  <1> DEFINE notes == 0 .. piEdits + 1
  <1>1. /\ pi.pc = "ended" /\ piEdits' = piEdits + 1 /\ piEdits \in Nat
        /\ manifest' = manifest /\ pi' = pi /\ piFiles' = piFiles /\ original' = original
        /\ source' \in {NoFile} \cup {[c EXCEPT !.note = piEdits + 1] : c \in Children}
    BY DEF UpdatePackage, PiEdit, PiIInv
  <1>2. Notes' = notes /\ piEdits' \in Nat /\ Known' = Known
    BY <1>1 DEF Notes, Known
  <1>3. source' \in MaybeFile("user", notes)
    <2>1. \A c \in Children : [c EXCEPT !.note = piEdits + 1] \in ChildTexts(notes)
      BY <1>1, Renoted, PiAssumption
    <2> QED
      BY <1>1, <2>1 DEF MaybeFile, FileOf
  <1>4. /\ IsOriginal(original, notes) /\ IsHome(Known, piFiles, notes)
        /\ IsManifest(Known, manifest, notes) /\ IsLog(Known, pi.journal, notes)
        /\ Remembers(pi, notes)
    BY <1>1, MoreNotesKept DEF PiIInv, IsCommand, Notes
  <1>5. IsCommand(pi, Known, piFiles, manifest, source', notes)
    BY <1>1, <1>4 DEF PiIInv, IsCommand, InStep, Holders, Reconciles
  <1> QED
    BY <1>1, <1>2, <1>3, <1>4, <1>5 DEF PiIInv

LEMMA UserKeeps ==
    ASSUME PiIInv, PiUser
    PROVE  PiIInv'
  <1>1. ASSUME NEW path \in ChildFiles, EditHome(path, Children \cup Reworded(path))
        PROVE  PiIInv'
    <2>1. path \in Paths /\ path # "mcp"
      BY DEF Paths, ChildFiles
    <2>2. Children \cup Reworded(path) \subseteq ChildTexts(Nat)
      <3>1. piFiles[path] \in MaybeFile(path, Notes) /\ piEdits \in Nat
        BY <2>1 DEF PiIInv, IsHome
      <3>2. ChildTexts(Notes) \subseteq ChildTexts(Nat)
        BY <3>1 DEF Notes, ChildTexts
      <3>3. Reworded(path) \subseteq ChildTexts(Nat)
        BY <2>1, <3>1, <3>2 DEF Reworded, MaybeFile, FileOf
      <3> QED
        BY <3>3, PiAssumption
    <2>3. \A c \in Children \cup Reworded(path) : \A n \in Nat :
             [c EXCEPT !.note = n] \in FileOf(path, 0 .. n)
      BY <2>1, <2>2, Renoted DEF FileOf
    <2> QED
      BY <1>1, <2>1, <2>3, EditHomeKeeps
  <1>2. CASE EditHome("mcp", Rewired)
    <2>1. "mcp" \in Paths
      BY DEF Paths
    <2>2. Rewired \subseteq McpFiles(Nat)
      <3> DEFINE mcp == IF piFiles["mcp"] = NoFile THEN EmptyMcp ELSE piFiles["mcp"]
      <3>1. mcp \in McpFiles(Nat)
        <4>1. piFiles["mcp"] \in MaybeFile("mcp", Notes) /\ piEdits \in Nat
          BY <2>1 DEF PiIInv, IsHome
        <4>2. McpFiles(Notes) \subseteq McpFiles(Nat) /\ EmptyMcp \in McpFiles(Nat)
          BY <4>1 DEF Notes, McpFiles, EmptyMcp
        <4> QED
          BY <4>1, <4>2 DEF MaybeFile, FileOf
      <3>2. Rewired = {[mcp EXCEPT !.codegraph = e] : e \in {"none", "ours", "other"}}
        BY DEF Rewired
      <3> HIDE DEF mcp
      <3> QED
        BY <3>1, <3>2 DEF McpFiles
    <2>3. \A c \in Rewired : \A n \in Nat : [c EXCEPT !.note = n] \in FileOf("mcp", 0 .. n)
      BY <2>2, Renoted DEF FileOf
    <2> QED
      BY <1>2, <2>1, <2>3, EditHomeKeeps
  <1>3. CASE UpdatePackage
    BY <1>3, UpdatePackageKeeps
  <1> QED
    BY <1>1, <1>2, <1>3 DEF PiUser, ChildFiles

---------------------------------------------------------------------------
LEMMA PiBegins ==
    ASSUME PiInit
    PROVE  PiIInv
  <1>1. PICK home \in InitialHomes :
           /\ piFiles = [mcp |-> home.mcp, user |-> home.user, overlay |-> NoFile]
           /\ source = home.packaged
    BY DEF PiInit
  <1>2. manifest = NoFile /\ pi = PiIdle /\ piEdits = 0 /\ original = piFiles
    BY DEF PiInit
  <1>3. /\ home.mcp \in MaybeFile("mcp", Notes) /\ home.user \in MaybeFile("user", Notes)
        /\ home.packaged \in MaybeFile("user", Notes)
    <2>1. home \in [mcp : {NoFile} \cup McpFiles({0}), user : {NoFile} \cup ChildTexts({0}),
                    packaged : {NoFile} \cup ChildTexts({0})]
      BY PiAssumption
    <2>2. Notes = {0}
      BY <1>2 DEF Notes
    <2> QED
      BY <2>1, <2>2 DEF MaybeFile, FileOf
  <1>4. piFiles = [p \in Paths |-> piFiles[p]] /\ \A p \in Paths : piFiles[p] \in MaybeFile(p, Notes)
    BY <1>1, <1>3 DEF Paths, ChildFiles, MaybeFile, FileOf
  <1>5. Known = {original}
    BY <1>2 DEF Known, Origins, Recalls, PiIdle
  <1>6. IsHome(Known, piFiles, Notes) /\ IsOriginal(original, Notes)
    <2>1. \A p, content : Keeps(p, content, content)
      BY DEF Keeps
    <2> QED
      BY <1>2, <1>4, <1>5, <2>1 DEF IsHome, IsOriginal
  <1>7. IsCommand(pi, Known, piFiles, manifest, source, Notes)
    <2>1. /\ DOMAIN pi = Fields /\ pi.pc = "ended" /\ pi.todo = <<>>
          /\ pi.journal = NoEntries /\ pi.kind = "none"
      BY <1>2 DEF PiIdle, Fields
    <2>2. <<>> \in Todos
      BY DEF Todos
    <2> QED
      BY <2>1, <2>2, NoEntriesLog
      DEF IsCommand, InStep, Holders, Reconciles, Agenda, Remembers, Recalls
  <1> QED
    BY <1>1, <1>2, <1>3, <1>6, <1>7 DEF PiIInv, IsManifest

LEMMA PiSteps ==
    ASSUME PiIInv, PiNext
    PROVE  PiIInv'
  <1>1. ASSUME BeginCommand PROVE PiIInv'
    BY <1>1, BeginPiKeeps DEF BeginCommand
  <1>2. ASSUME Packages \/ Components \/ Cleanup PROVE PiIInv'
    BY <1>2, PackagesKeeps, ComponentsKeep, CleanupKeeps
  <1>3. ASSUME Reconciling PROVE PiIInv'
    BY <1>3, BeginReconcileKeeps, NothingToRefreshKeeps, ReconcileMcpKeeps, RestoreMissingKeeps,
       ReconcileChildKeeps, VerifyKeeps, WriteManifestKeeps
    DEF Reconciling
  <1>4. ASSUME Removing PROVE PiIInv'
    BY <1>4, BeginRemoveKeeps, RemoveChildKeeps, RemoveMcpKeeps, RemoveManifestKeeps,
       KeepManifestKeeps
    DEF Removing
  <1>5. ASSUME Undo \/ EndUndo \/ EndPi \/ Rollback \/ Restore \/ KillPi PROVE PiIInv'
    BY <1>5, UndoKeeps, EndUndoKeeps, EndKeeps, RollbackKeeps, RestoreKeeps
  <1>6. ASSUME PiUser PROVE PiIInv'
    BY <1>6, UserKeeps
  <1> QED
    BY <1>1, <1>2, <1>3, <1>4, <1>5, <1>6 DEF PiNext

LEMMA PiStutters ==
    ASSUME PiIInv, UNCHANGED piVars
    PROVE  PiIInv'
  BY DEF piVars, PiIInv, Notes, Known

(* Pi's integration: what the user had is in the files, in what is         *)
(* recorded of them, in what a command remembers and in what it would give *)
(* back.                                                                   *)
THEOREM PiInvariance == PiSpec => []PiIInv
  BY PiBegins, PiSteps, PiStutters, PTL DEF PiSpec

(* What the user wrote into the files Pi shares with him stays there,      *)
(* whatever is reconciled, removed, rolled back or killed.                 *)
THEOREM UserWorkSafety == PiSpec => []UserWorkKept
  <1>1. PiIInv => UserWorkKept
    BY DEF PiIInv, IsHome, Keeps, UserWorkKept, Known, Origins
  <1> QED
    BY <1>1, PiInvariance, PTL

---------------------------------------------------------------------------
(* What Pi's integration leaves. *)

OwnersOf(book) == IF book = NoFile THEN {} ELSE OwnedPaths(book)
BookOf(book) == IF book = NoFile THEN [mcp |-> {}, children |-> NoEntries] ELSE book

Unwired(mcp) == mcp = NoFile \/ mcp.codegraph # "ours"

(* The files are what the book says of them: what it does not own is as it *)
(* would be without the integration, and what it owns and nobody has       *)
(* changed since is as it was left, and was as it would be.                *)
Sound(f, book, o, drift) ==
    /\ \A p \in Paths \ OwnersOf(book) : f[p] = o[p]
    /\ book # NoFile =>
        /\ \A r \in book.mcp : "mcp" \notin drift => r.before = o["mcp"] /\ f["mcp"] = r.after
        /\ \A p \in DOMAIN book.children :
              /\ Rendered(book.children[p].after) = book.children[p].after
              /\ p \notin drift => /\ book.children[p].before = o[p]
                                   /\ f[p] = book.children[p].after
    /\ Unwired(f["mcp"]) => f["mcp"] = o["mcp"]

(* An entry of mcp.json that is recorded anew is as it was left.           *)
DriftOf(kept, book, drift) == IF kept.mcp = BookOf(book).mcp THEN drift ELSE drift \ {"mcp"}

Phasing == Holders \cup {"undo"}

(* A removal goes through what the manifest owns, and what it has gone     *)
(* through is as it would be.                                              *)
Removes(c, f, book, o, drift) ==
    /\ book # NoFile /\ c.held.mcp \subseteq book.mcp /\ DOMAIN c.held.children \subseteq DOMAIN book.children
    /\ \A p \in DOMAIN c.held.children : c.held.children[p] = book.children[p]
    /\ \A p \in Paths :
          IF p \in OwnedPaths(book) \ OwnedPaths(c.held) THEN p \notin drift => f[p] = o[p]
          ELSE f[p] = c.begun.files[p]

(* What a phase has done to the files is in the records it holds.          *)
Midway(c, f, book, o, drift) ==
    /\ c.pc \in Holders \ {"remove"} =>
          /\ Sound(f, c.held, o, DriftOf(c.held, book, drift))
          /\ ChildFiles \cap DOMAIN c.journal \subseteq DOMAIN c.held.children
    /\ c.pc = "remove" => Removes(c, f, book, o, drift)

Undisturbed(c, f, book, o, drift) ==
    /\ ~ c.trouble
    /\ c.pc \in {"phase", "ended"} => Sound(f, book, o, drift)
    /\ c.pc \in Phasing => Sound(c.begun.files, c.begun.manifest, o, drift)
    /\ Midway(c, f, book, o, drift)
    /\ Recalls(c) => Sound(c.found.files, c.found.manifest, c.found.original, c.found.drifted)

(* A phase that is undone ends where it began.                             *)
Undoes(c, f, book) ==
    /\ c.begun.files = [p \in Paths |-> c.begun.files[p]]
    /\ ~ c.trouble =>
        /\ \A p \in Paths :
              IF p \in DOMAIN c.journal THEN c.journal[p] = c.begun.files[p]
              ELSE f[p] = c.begun.files[p]
        /\ IF "manifest" \in DOMAIN c.journal THEN c.journal["manifest"] = c.begun.manifest
           ELSE book = c.begun.manifest
    /\ c.pc \in Holders => book = c.begun.manifest
    /\ c.pc = "remove" => OwnedPaths(c.held) \subseteq DOMAIN c.journal

(* A child that was not there, for which nothing is done.                  *)
Ignored(c, f, book, p) ==
    /\ f[p] = NoFile /\ p \notin OwnersOf(book)
    /\ c.pc \in Holders => p \notin DOMAIN c.held.children
    /\ c.pc = "child" => p \notin c.queue
    /\ p \in DOMAIN c.journal => c.journal[p] = NoFile
    /\ "manifest" \in DOMAIN c.journal => p \notin OwnersOf(c.journal["manifest"])

(* Of what the snapshot does not cover, what the command has not met.      *)
Passed(p) ==
    /\ Recalls(pi) /\ p \notin pi.found.covered /\ (p = "overlay" => source = NoFile)
    /\ Ignored(pi, piFiles, manifest, p)

Uncovered(c, f, book, s) ==
    Recalls(c) => \A p \in Paths \ c.found.covered :
        /\ c.found.files[p] = NoFile /\ p \notin OwnersOf(c.found.manifest)
        /\ p = "overlay" => c.found.source = NoFile
        /\ (p = "overlay" /\ s # c.found.source) \/ Ignored(c, f, book, p)

Restored(c, f, book, s) ==
    /\ book = c.found.manifest
    /\ \A p \in Paths : c.found.source = s \/ p # "overlay" => f[p] = c.found.files[p]

(* A rollback ends with the snapshot.                                      *)
RollsBack(c, f, book, s) ==
    c.pc # "ended" /\ c.rolling =>
        /\ c.collect /\ c.kind # "uninstall"
        /\ c.todo \in {<<"remove", "restore">>, <<"restore">>, <<>>}
        /\ c.todo # <<"remove", "restore">> => c.pc = "phase"
        /\ c.todo = <<>> => c.trouble \/ Restored(c, f, book, s)

TraceIInv ==
    /\ ~ disturbed => Undisturbed(pi, piFiles, manifest, original, drifted)
    /\ pi.pc \in Phasing => Undoes(pi, piFiles, manifest)
    /\ Uncovered(pi, piFiles, manifest, source)
    /\ RollsBack(pi, piFiles, manifest, source)

SameCommand(c, n) ==
    /\ n.kind = c.kind /\ n.found = c.found /\ n.collect = c.collect /\ n.rolling = c.rolling
    /\ n.trouble = c.trouble
SamePhase(c, n) == SameCommand(c, n) /\ n.todo = c.todo /\ n.begun = c.begun

---------------------------------------------------------------------------
(* The next phase, and the next step of a phase. *)

LEMMA NextPhaseFields ==
    ASSUME NEW c, DOMAIN c = Fields, NEW n \in {PhaseOver(c), PhaseFailed(c)}
    PROVE  /\ SameCommand(c, n) /\ n.pc = "phase" /\ DOMAIN n.journal = {}
           /\ n.todo = Tail(c.todo) \/ (~ c.collect /\ n.todo = <<>>)
  <1>1. ASSUME NEW x, DOMAIN x = Fields
        PROVE  PhaseOver(x).trouble = x.trouble /\ PhaseOver(x).rolling = x.rolling
    BY <1>1 DEF PhaseOver, Fields
  <1>2. /\ DOMAIN PhaseOver(c) = Fields /\ SameCommand(c, PhaseOver(c))
        /\ PhaseOver(c).pc = "phase" /\ PhaseOver(c).todo = Tail(c.todo)
        /\ PhaseOver(c).journal = NoEntries
    BY <1>1, OverFields DEF SameCommand
  <1>3. PhaseFailed(c).trouble = c.trouble /\ PhaseFailed(c).rolling = c.rolling
    BY <1>2 DEF PhaseFailed, Fields, SameCommand
  <1>4. DOMAIN NoEntries = {}
    BY DEF NoEntries
  <1> QED
    BY <1>2, <1>3, <1>4, FailedFields DEF SameCommand

(* Between two phases nothing is held and nothing is to be undone.         *)
LEMMA BetweenPhases ==
    ASSUME NEW c, c.pc = "phase", DOMAIN c.journal = {}, NEW f, NEW book, NEW o, NEW drift
    PROVE  /\ c.pc \notin Phasing /\ Midway(c, f, book, o, drift)
           /\ \A p : Ignored(c, f, book, p) <=> f[p] = NoFile /\ p \notin OwnersOf(book)
  BY DEF Phasing, Holders, Reconciles, Midway, Ignored

LEMMA PhaseTraced ==
    ASSUME PiIInv, TraceIInv, pi.pc # "ended", pi.todo # <<>>,
           pi.rolling => Head(pi.todo) # "restore",
           pi' \in {PhaseOver(pi), PhaseFailed(pi)}, UNCHANGED disturbed,
           ~ disturbed => Sound(piFiles', manifest', original', drifted'),
           \A p \in Paths : Recalls(pi) /\ p \notin pi.found.covered =>
               \/ p = "overlay" /\ source' # pi.found.source
               \/ piFiles'[p] = NoFile /\ p \notin OwnersOf(manifest')
    PROVE  TraceIInv'
  <1>1. /\ SameCommand(pi, pi') /\ pi'.pc = "phase" /\ DOMAIN pi'.journal = {}
        /\ pi'.todo = Tail(pi.todo) \/ (~ pi.collect /\ pi'.todo = <<>>)
    BY NextPhaseFields DEF PiIInv, IsCommand
  <1>2. Recalls(pi') <=> Recalls(pi)
    BY <1>1 DEF Recalls, SameCommand
  <1>3. /\ pi'.pc \notin Phasing /\ Midway(pi', piFiles', manifest', original', drifted')
        /\ \A p : Ignored(pi', piFiles', manifest', p)
                     <=> piFiles'[p] = NoFile /\ p \notin OwnersOf(manifest')
    BY <1>1, BetweenPhases
  <1>4. ~ disturbed => Undisturbed(pi', piFiles', manifest', original', drifted')
    BY <1>1, <1>2, <1>3 DEF TraceIInv, Undisturbed, SameCommand
  <1>5. Uncovered(pi', piFiles', manifest', source')
    BY <1>1, <1>2, <1>3 DEF TraceIInv, Uncovered, SameCommand
  <1>6. RollsBack(pi', piFiles', manifest', source')
    <2>1. /\ Tail(<<"remove", "restore">>) = <<"restore">> /\ Head(<<"restore">>) = "restore"
          /\ <<"restore">> # <<>>
      OBVIOUS
    <2> QED
      BY <1>1, <2>1 DEF TraceIInv, RollsBack, SameCommand
  <1> QED
    BY <1>3, <1>4, <1>5, <1>6 DEF TraceIInv

LEMMA StepTraced ==
    ASSUME TraceIInv, pi.pc \in Phasing, pi'.pc \in Phasing, SamePhase(pi, pi'),
           UNCHANGED <<source, observed>>,
           ~ disturbed => Midway(pi', piFiles', manifest', original, drifted),
           Undoes(pi', piFiles', manifest'),
           \A p \in Paths : Passed(p) => Ignored(pi', piFiles', manifest', p)
    PROVE  TraceIInv'
  <1>1. Recalls(pi') <=> Recalls(pi)
    BY DEF Recalls, SamePhase, SameCommand, Phasing, Holders, Reconciles
  <1>2. ~ disturbed => Undisturbed(pi', piFiles', manifest', original, drifted)
    BY <1>1 DEF TraceIInv, Undisturbed, SamePhase, SameCommand, Phasing, Holders, Reconciles
  <1>3. Uncovered(pi', piFiles', manifest', source)
    BY <1>1 DEF TraceIInv, Uncovered, SamePhase, SameCommand, Passed
  <1>4. RollsBack(pi', piFiles', manifest', source)
    <2>1. <<"remove", "restore">> # <<>>
      OBVIOUS
    <2> QED
      BY <2>1 DEF TraceIInv, RollsBack, SamePhase, SameCommand, Phasing, Holders, Reconciles
  <1> QED
    BY <1>2, <1>3, <1>4 DEF TraceIInv, observed

(* A phase that is about to be undone.                                     *)
LEMMA UndoneTraced ==
    ASSUME PiIInv, TraceIInv, pi.pc \in Holders, UNCHANGED <<source, observed>>,
           NEW c, DOMAIN c = Fields, SamePhase(pi, c), c.pc = pi.pc, pi' = UndoPhase(c),
           Undoes([c EXCEPT !.pc = "undo"], piFiles', manifest'),
           \A p \in Paths : Passed(p) => Ignored([c EXCEPT !.pc = "undo"], piFiles', manifest', p)
    PROVE  TraceIInv'
  <1>1. pi' = [c EXCEPT !.pc = "undo"]
    BY DEF UndoPhase
  <1>2. pi'.pc = "undo" /\ SamePhase(pi, pi')
    BY <1>1 DEF SamePhase, SameCommand, Fields
  <1>3. Midway(pi', piFiles', manifest', original, drifted) /\ pi'.pc \in Phasing /\ pi.pc \in Phasing
    BY <1>2 DEF Midway, Phasing, Holders, Reconciles
  <1> QED
    BY <1>1, <1>2, <1>3, StepTraced

---------------------------------------------------------------------------
(* Commands begin and end, and what is between the phases. *)

LEMMA RecordedIsBook ==
    /\ Recorded = BookOf(manifest)
    /\ OwnedPaths(Recorded) = OwnersOf(manifest)
    /\ DOMAIN Recorded.children = ChildFiles \cap DOMAIN Recorded.children =>
          \A p \in ChildFiles : p \in DOMAIN Recorded.children <=> p \in OwnersOf(manifest)
  BY DEF Recorded, BookOf, OwnersOf, OwnedPaths, NoEntries, ChildFiles

LEMMA BeginPiTraced ==
    ASSUME PiIInv, TraceIInv, NEW kind, NEW collect, BeginPi(kind, collect)
    PROVE  TraceIInv'
  <1>1. /\ pi.pc = "ended" /\ UNCHANGED <<piFiles, source, manifest, original, drifted, disturbed>>
    BY DEF BeginPi, observed
  <1>2. /\ pi'.kind = kind /\ pi'.pc = "phase" /\ pi'.journal = NoEntries /\ pi'.found = Snapshot
        /\ ~ pi'.rolling /\ ~ pi'.trouble
    BY DEF BeginPi, PiIdle
  <1>3. DOMAIN pi'.journal = {}
    BY <1>2 DEF NoEntries
  <1>4. /\ Snapshot.files = piFiles /\ Snapshot.manifest = manifest /\ Snapshot.source = source
        /\ Snapshot.original = original /\ Snapshot.drifted = drifted
        /\ Snapshot.covered = {"mcp"} \cup DOMAIN Recorded.children \cup Discovered
    BY DEF Snapshot
  <1>5. /\ pi'.pc \notin Phasing /\ Midway(pi', piFiles, manifest, original, drifted)
        /\ \A p : Ignored(pi', piFiles, manifest, p)
                     <=> piFiles[p] = NoFile /\ p \notin OwnersOf(manifest)
    BY <1>2, <1>3, BetweenPhases
  <1>6. ~ disturbed => Undisturbed(pi', piFiles, manifest, original, drifted)
    BY <1>1, <1>2, <1>4, <1>5 DEF TraceIInv, Undisturbed
  <1>7. Uncovered(pi', piFiles, manifest, source)
    <2>1. ASSUME NEW p \in Paths, p \notin Snapshot.covered
          PROVE  /\ piFiles[p] = NoFile /\ p \notin OwnersOf(manifest)
                 /\ p = "overlay" => source = NoFile
      <3>1. p \in ChildFiles /\ Found(p) = NoFile /\ p \notin DOMAIN Recorded.children
        BY <1>4, <2>1 DEF Discovered, Paths
      <3>2. DOMAIN Recorded.children \subseteq ChildFiles
        BY RecordedLedger DEF IsLedger
      <3> QED
        BY <3>1, <3>2, RecordedIsBook DEF Found
    <2> QED
      BY <1>2, <1>4, <1>5, <2>1 DEF Uncovered
  <1> QED
    BY <1>1, <1>2, <1>5, <1>6, <1>7 DEF TraceIInv, RollsBack

LEMMA EndTraced ==
    ASSUME PiIInv, TraceIInv, EndPi \/ KillPi
    PROVE  TraceIInv'
  <1>1. /\ UNCHANGED <<piFiles, source, manifest, original, drifted>>
        /\ pi' = [PiIdle EXCEPT !.kind = pi.kind]
        /\ disturbed' = TRUE \/ (disturbed' = disturbed /\ pi.pc = "phase")
    BY DEF EndPi, KillPi, PiGoes, NoPhaseLeft, observed
  <1>2. pi'.pc = "ended" /\ ~ pi'.trouble
    BY <1>1 DEF PiIdle
  <1>3. ~ disturbed' => Undisturbed(pi', piFiles, manifest, original, drifted)
    BY <1>1, <1>2 DEF TraceIInv, Undisturbed, Midway, Recalls, Phasing, Holders, Reconciles
  <1> QED
    BY <1>1, <1>2, <1>3
    DEF TraceIInv, Uncovered, Recalls, RollsBack, Phasing, Holders, Reconciles

LEMMA RollbackTraced ==
    ASSUME PiIInv, TraceIInv, Rollback
    PROVE  TraceIInv'
  <1>1. /\ UNCHANGED <<piFiles, source, manifest, original, drifted, disturbed>>
        /\ pi.pc = "phase" /\ pi.kind # "uninstall" /\ DOMAIN pi = Fields /\ DOMAIN pi.journal = {}
    BY DEF Rollback, NoPhaseLeft, observed, PiIInv, IsCommand, InStep
  <1>2. /\ pi'.pc = "phase" /\ pi'.journal = pi.journal /\ pi'.found = pi.found
        /\ pi'.kind = pi.kind /\ pi'.trouble = pi.trouble /\ pi'.collect
        /\ pi'.todo \in {<<"remove", "restore">>, <<"restore">>}
    BY <1>1 DEF Rollback, PiGoes, Fields
  <1>3. Recalls(pi') <=> Recalls(pi)
    BY <1>1, <1>2 DEF Recalls
  <1>4. /\ pi'.pc \notin Phasing /\ Midway(pi', piFiles, manifest, original, drifted)
        /\ \A p : Ignored(pi', piFiles, manifest, p)
                     <=> piFiles[p] = NoFile /\ p \notin OwnersOf(manifest)
    BY <1>1, <1>2, BetweenPhases
  <1>5. ~ disturbed => Undisturbed(pi', piFiles, manifest, original, drifted)
    BY <1>1, <1>2, <1>3, <1>4 DEF TraceIInv, Undisturbed
  <1>6. Uncovered(pi', piFiles, manifest, source)
    BY <1>2, <1>3, <1>4 DEF TraceIInv, Uncovered, Ignored
  <1>7. RollsBack(pi', piFiles, manifest, source)
    <2>1. <<"remove", "restore">> # <<>> /\ <<"restore">> # <<>>
      OBVIOUS
    <2> QED
      BY <1>1, <1>2, <2>1 DEF RollsBack
  <1> QED
    BY <1>1, <1>4, <1>5, <1>6, <1>7 DEF TraceIInv

(* What was uncovered when a phase begins.                                 *)
LEMMA StillUncovered ==
    ASSUME TraceIInv, Recalls(pi), NEW p \in Paths, p \notin pi.found.covered
    PROVE  /\ p = "overlay" => pi.found.source = NoFile
           /\ \/ p = "overlay" /\ source # pi.found.source
              \/ piFiles[p] = NoFile /\ p \notin OwnersOf(manifest)
  BY DEF TraceIInv, Uncovered, Ignored

LEMMA PackagesTraced ==
    ASSUME PiIInv, TraceIInv, Packages
    PROVE  TraceIInv'
  <1>1. /\ pi.pc = "phase" /\ pi.todo # <<>> /\ Head(pi.todo) = "packages"
        /\ UNCHANGED <<piFiles, manifest, original, drifted, disturbed>>
        /\ pi' \in {PhaseOver(pi), PhaseFailed(pi)}
        /\ source' = source \/ (source = NoFile /\ source' # NoFile)
    <2>1. \A c \in Children : [c EXCEPT !.note = 0] # NoFile
      <3>1. \A c \in ChildTexts(Nat) : [c EXCEPT !.note = 0] \in ChildTexts(Nat)
        BY DEF ChildTexts
      <3> QED
        BY <3>1, PiAssumption
    <2> QED
      BY <2>1 DEF Packages, InPhase, observed
  <1>2. ~ disturbed => Sound(piFiles, manifest, original, drifted)
    BY <1>1 DEF TraceIInv, Undisturbed
  <1> QED
    BY <1>1, <1>2, StillUncovered, PhaseTraced

LEMMA ServersSound ==
    ASSUME NEW n \in Nat, NEW f, NEW o, f = [p \in Paths |-> f[p]], o = [p \in Paths |-> o[p]],
           f["mcp"] \in MaybeFile("mcp", 0 .. n), o["mcp"] \in MaybeFile("mcp", 0 .. n),
           NEW os, NEW book, IsManifest(os, book, 0 .. n), NEW drift, Sound(f, book, o, drift),
           NEW there \in BOOLEAN
    PROVE  Sound([f EXCEPT !["mcp"] = WithServers(f["mcp"], there)], book,
                 [o EXCEPT !["mcp"] = WithServers(o["mcp"], there)],
                 IF WithServers(f["mcp"], there) # f["mcp"] /\ "mcp" \in OwnersOf(book)
                 THEN drift \cup {"mcp"} ELSE drift)
  <1> DEFINE g == [f EXCEPT !["mcp"] = WithServers(f["mcp"], there)]
             q == [o EXCEPT !["mcp"] = WithServers(o["mcp"], there)]
             drift2 == IF WithServers(f["mcp"], there) # f["mcp"] /\ "mcp" \in OwnersOf(book)
                       THEN drift \cup {"mcp"} ELSE drift
  <1>1. /\ \A p \in Paths : p # "mcp" => g[p] = f[p] /\ q[p] = o[p]
        /\ g["mcp"] = WithServers(f["mcp"], there) /\ q["mcp"] = WithServers(o["mcp"], there)
    BY DEF Paths
  <1>0. drift2 = IF g["mcp"] # f["mcp"] /\ "mcp" \in OwnersOf(book) THEN drift \cup {"mcp"}
                 ELSE drift
    BY <1>1
  <1> HIDE DEF g, q, drift2
  <1>2. \A p \in Paths \ OwnersOf(book) : g[p] = q[p]
    BY <1>1 DEF Sound
  <1>3. ASSUME book # NoFile, NEW r \in book.mcp, "mcp" \notin drift2
        PROVE  r.before = q["mcp"] /\ g["mcp"] = r.after
    <2>1. "mcp" \in OwnersOf(book) /\ IsOwned("mcp", r, 0 .. n)
      BY <1>3 DEF OwnersOf, OwnedPaths, IsManifest, IsLedger
    <2>2. g["mcp"] = f["mcp"] /\ r.before = o["mcp"] /\ f["mcp"] = r.after
      BY <1>0, <1>3, <2>1 DEF Sound
    <2>3. r.after # NoFile /\ r.after \in MaybeFile("mcp", 0 .. n) /\ WithServers(r.after, there) = r.after
      BY <1>1, <2>1, <2>2, FileIsThere DEF IsOwned
    <2>4. r.after.servers <=> there
      BY <2>3, ServersWritten
    <2>5. CASE r.before = NoFile
      <3>1. ~ there
        BY <2>1, <2>4, <2>5 DEF IsOwned
      <3> QED
        BY <1>1, <2>2, <2>5, <3>1, ServersWritten
    <2>6. CASE r.before # NoFile
      <3>1. r.before \in McpFiles(0 .. n) /\ r.after.servers = r.before.servers
        BY <2>1, <2>6 DEF IsOwned, MaybeFile, FileOf
      <3>2. r.before.servers = there
        BY <2>4, <3>1 DEF McpFiles
      <3>3. WithServers(r.before, there) = [r.before EXCEPT !.servers = there]
        BY <2>6 DEF WithServers
      <3>4. [r.before EXCEPT !.servers = there] = r.before
        BY <3>1, <3>2 DEF McpFiles
      <3> QED
        BY <1>1, <2>2, <3>3, <3>4
    <2> QED
      BY <2>5, <2>6
  <1>4. ASSUME book # NoFile, NEW p \in DOMAIN book.children
        PROVE  /\ Rendered(book.children[p].after) = book.children[p].after
               /\ p \notin drift2 => /\ book.children[p].before = q[p]
                                     /\ g[p] = book.children[p].after
    <2>1. p \in Paths /\ p # "mcp"
      BY <1>4 DEF IsManifest, IsLedger, Paths, ChildFiles
    <2>2. p \notin drift2 => p \notin drift
      BY <1>0
    <2> QED
      BY <1>1, <1>4, <2>1, <2>2 DEF Sound
  <1>5. ASSUME Unwired(g["mcp"])
        PROVE  g["mcp"] = q["mcp"]
    <2>1. Unwired(f["mcp"])
      <3>1. CASE f["mcp"] # NoFile
        BY <1>1, <1>5, <3>1, ServersWritten DEF Unwired
      <3> QED
        BY <3>1 DEF Unwired
    <2> QED
      BY <1>1, <2>1 DEF Sound
  <1>6. Sound(g, book, q, drift2)
    BY <1>2, <1>3, <1>4, <1>5 DEF Sound
  <1> QED
    BY <1>6 DEF g, q, drift2

LEMMA OtherEntriesTraced ==
    ASSUME PiIInv, TraceIInv, pi.pc = "phase", pi.todo # <<>>, Head(pi.todo) # "restore",
           NEW there \in BOOLEAN, NEW after \in {PhaseOver(pi), PhaseFailed(pi)},
           OtherEntries(there, after)
    PROVE  TraceIInv'
  <1>1. /\ pi' = after /\ UNCHANGED <<source, manifest, disturbed>>
        /\ piFiles' = [piFiles EXCEPT !["mcp"] = WithServers(piFiles["mcp"], there)]
        /\ original' = [original EXCEPT !["mcp"] = WithServers(original["mcp"], there)]
        /\ drifted' = IF WithServers(piFiles["mcp"], there) # piFiles["mcp"]
                         /\ "mcp" \in OwnedPaths(Recorded)
                      THEN drifted \cup {"mcp"} ELSE drifted
    BY DEF OtherEntries, PiGoes
  <1>2. /\ piFiles = [p \in Paths |-> piFiles[p]] /\ original = [p \in Paths |-> original[p]]
        /\ piFiles["mcp"] \in MaybeFile("mcp", 0 .. piEdits) /\ piEdits \in Nat
        /\ original["mcp"] \in MaybeFile("mcp", 0 .. piEdits)
        /\ IsManifest(Known, manifest, 0 .. piEdits) /\ "mcp" \in Paths
    BY DEF PiIInv, IsHome, IsOriginal, Notes, Paths
  <1>5. ~ disturbed => Sound(piFiles', manifest, original', drifted')
    <2>1. ~ disturbed => Sound(piFiles, manifest, original, drifted)
      BY DEF TraceIInv, Undisturbed
    <2> QED
      BY <1>1, <1>2, <2>1, RecordedIsBook, ServersSound
  <1>6. ASSUME NEW p \in Paths, Recalls(pi), p \notin pi.found.covered
        PROVE  piFiles'[p] = piFiles[p]
    <2>1. p # "mcp"
      BY <1>6 DEF PiIInv, IsCommand, Remembers
    <2> QED
      BY <1>1, <1>2, <2>1
  <1> QED
    BY <1>1, <1>5, <1>6, StillUncovered, PhaseTraced

LEMMA ComponentsTraced ==
    ASSUME PiIInv, TraceIInv, Components \/ Cleanup
    PROVE  TraceIInv'
  <1>1. pi.pc = "phase" /\ pi.todo # <<>> /\ Head(pi.todo) \in {"components", "cleanup"}
    BY DEF Components, Cleanup, InPhase
  <1>2. CASE \E there \in BOOLEAN, after \in {PhaseOver(pi), PhaseFailed(pi)} : OtherEntries(there, after)
    BY <1>1, <1>2, OtherEntriesTraced
  <1>3. CASE PiGoes(PhaseFailed(pi)) /\ UNCHANGED <<piFiles, source, manifest, observed>>
    <2>1. ~ disturbed => Sound(piFiles, manifest, original, drifted)
      BY <1>1 DEF TraceIInv, Undisturbed
    <2> QED
      BY <1>1, <1>3, <2>1, StillUncovered, PhaseTraced DEF PiGoes, observed
  <1> QED
    BY <1>2, <1>3 DEF Components, Cleanup

---------------------------------------------------------------------------
(* Writes. *)

LEMMA BeginPhaseTraced ==
    ASSUME PiIInv, TraceIInv, pi.pc = "phase", pi.todo # <<>>,
           pi.rolling => Head(pi.todo) # "restore", pi'.pc \in Holders, pi'.pc # "child",
           SameCommand(pi, pi'), pi'.todo = pi.todo,
           pi'.begun = [files |-> piFiles, manifest |-> manifest],
           UNCHANGED <<piFiles, manifest, source, observed>>,
           Sound(piFiles, manifest, original, drifted)
               => Midway(pi', piFiles, manifest, original, drifted),
           \A p \in Paths : p \in DOMAIN pi'.journal => pi'.journal[p] = piFiles[p],
           "manifest" \in DOMAIN pi'.journal => pi'.journal["manifest"] = manifest,
           \A p \in Paths : p \notin OwnersOf(manifest) => p \notin DOMAIN pi'.held.children,
           pi'.pc = "remove" => OwnedPaths(pi'.held) \subseteq DOMAIN pi'.journal
    PROVE  TraceIInv'
  <1>1. /\ pi'.begun.files = piFiles /\ pi'.begun.manifest = manifest
        /\ piFiles = [p \in Paths |-> piFiles[p]] /\ pi'.pc \in Phasing
        /\ pi'.pc \notin {"phase", "ended"}
    BY DEF PiIInv, IsHome, Phasing, Holders, Reconciles
  <1>2. Recalls(pi') <=> Recalls(pi)
    BY <1>1 DEF Recalls, SameCommand
  <1>3. ~ disturbed => Undisturbed(pi', piFiles, manifest, original, drifted)
    BY <1>1, <1>2 DEF TraceIInv, Undisturbed, SameCommand
  <1>4. Undoes(pi', piFiles, manifest)
    BY <1>1 DEF Undoes
  <1>5. Uncovered(pi', piFiles, manifest, source)
    <2>1. \A p \in Paths : Ignored(pi, piFiles, manifest, p) => Ignored(pi', piFiles, manifest, p)
      BY DEF Ignored
    <2> QED
      BY <1>2, <2>1 DEF TraceIInv, Uncovered, SameCommand
  <1>6. RollsBack(pi', piFiles, manifest, source)
    BY DEF TraceIInv, RollsBack, SameCommand
  <1> QED
    BY <1>1, <1>3, <1>4, <1>5, <1>6 DEF TraceIInv, observed

(* What is journaled before a file changes can be undone.                  *)
LEMMA LoggedUndoes ==
    ASSUME NEW c, NEW n, NEW f, NEW g, NEW book, NEW path \in Paths, c.pc \in Holders,
           Undoes(c, f, book), n.begun = c.begun, n.trouble = c.trouble,
           \/ n.journal = WithNew(c.journal, path, f[path])
           \/ n.journal = c.journal /\ path \in DOMAIN c.journal,
           \A p \in Paths : p # path => g[p] = f[p],
           n.pc = "remove" => OwnedPaths(n.held) \subseteq DOMAIN c.journal
    PROVE  Undoes(n, g, book)
  <1>1. path # "manifest"
    BY DEF Paths, ChildFiles
  <1>2. /\ DOMAIN n.journal = DOMAIN c.journal \cup {path}
        /\ \A p \in DOMAIN n.journal :
              n.journal[p] = IF p \in DOMAIN c.journal THEN c.journal[p] ELSE f[path]
    BY DEF WithNew
  <1> QED
    BY <1>1, <1>2 DEF Undoes

LEMMA LoggedIgnored ==
    ASSUME NEW c, NEW n, NEW f, NEW g, NEW book, NEW path \in Paths, NEW p \in Paths, p # path,
           Ignored(c, f, book, p),
           \/ n.journal = WithNew(c.journal, path, f[path])
           \/ n.journal = c.journal,
           n.pc \in Holders => p \notin DOMAIN n.held.children,
           n.pc = "child" => p \notin n.queue, g[p] = f[p]
    PROVE  Ignored(n, g, book, p)
  <1>1. path # "manifest"
    BY DEF Paths, ChildFiles
  <1>2. /\ DOMAIN n.journal \subseteq DOMAIN c.journal \cup {path}
        /\ \A q \in DOMAIN n.journal : q \in DOMAIN c.journal => n.journal[q] = c.journal[q]
    BY DEF WithNew
  <1> QED
    BY <1>1, <1>2 DEF Ignored

LEMMA WriteTraced ==
    ASSUME PiIInv, TraceIInv, pi.pc \in Holders, NEW path \in Paths, NEW content, NEW after,
           WriteHome(path, content, after), UNCHANGED observed,
           after.pc \in Holders, SamePhase(pi, after),
           after.pc = "remove" => OwnedPaths(after.held) \subseteq DOMAIN pi.journal,
           \/ after.journal = Journaled(path)
           \/ after.journal = pi.journal /\ path \in DOMAIN pi.journal,
           ~ disturbed =>
               Midway(after, [piFiles EXCEPT ![path] = content], manifest, original, drifted),
           \A p \in Paths : Passed(p) => /\ p # path /\ p \notin DOMAIN after.held.children
                                         /\ after.pc = "child" => p \notin after.queue
    PROVE  TraceIInv'
  <1> DEFINE written == [piFiles EXCEPT ![path] = content]
             c == [pi EXCEPT !.journal = Journaled(path)]
             u == [c EXCEPT !.pc = "undo"]
  <1>1. /\ source' = source /\ manifest' = manifest
        /\ \/ piFiles' = written /\ pi' = after
           \/ piFiles' \in {piFiles, written} /\ pi' = UndoPhase(c)
    BY DEF WriteHome, PiGoes
  <1>2. \A p \in Paths : p # path => written[p] = piFiles[p]
    BY DEF PiIInv, IsHome
  <1>3. Undoes(pi, piFiles, manifest) /\ pi.pc \in Phasing
    BY DEF TraceIInv, Phasing
  <1>4. /\ DOMAIN c = Fields /\ SamePhase(pi, c) /\ c.pc = pi.pc /\ c.journal = Journaled(path)
        /\ u.begun = pi.begun /\ u.trouble = pi.trouble /\ u.journal = Journaled(path)
        /\ u.pc = "undo" /\ "undo" \notin Holders
    BY DEF PiIInv, IsCommand, Fields, SamePhase, SameCommand, Holders, Reconciles
  <1> HIDE DEF written, c, u
  <1>5. CASE piFiles' = written /\ pi' = after
    <2>1. Undoes(pi', piFiles', manifest')
      BY <1>1, <1>2, <1>3, <1>5, LoggedUndoes DEF SamePhase, SameCommand, Journaled
    <2>2. ASSUME NEW p \in Paths, Passed(p)
          PROVE  Ignored(pi', piFiles', manifest', p)
      BY <1>1, <1>2, <1>5, <2>2, LoggedIgnored DEF Journaled, Passed
    <2> QED
      BY <1>1, <1>3, <1>5, <2>1, <2>2, StepTraced DEF Phasing, written
  <1>6. CASE piFiles' \in {piFiles, written} /\ pi' = UndoPhase(c)
    <2>1. Undoes(u, piFiles', manifest')
      BY <1>1, <1>2, <1>3, <1>4, <1>6, LoggedUndoes DEF Journaled
    <2>2. ASSUME NEW p \in Paths, Passed(p)
          PROVE  Ignored(u, piFiles', manifest', p)
      <3>1. p # path /\ Ignored(pi, piFiles, manifest, p) /\ piFiles'[p] = piFiles[p]
        BY <1>2, <1>6, <2>2 DEF Passed
      <3>2. u.pc # "child"
        BY <1>4
      <3> QED
        BY <1>1, <1>4, <3>1, <3>2, LoggedIgnored DEF Journaled
    <2> QED
      BY <1>1, <1>4, <1>6, <2>1, <2>2, UndoneTraced DEF u
  <1> QED
    BY <1>1, <1>5, <1>6

LEMMA AbandonTraced ==
    ASSUME PiIInv, TraceIInv, pi.pc \in Holders, AbandonPhase, UNCHANGED observed
    PROVE  TraceIInv'
  <1> DEFINE u == [pi EXCEPT !.pc = "undo"]
  <1>1. UNCHANGED <<piFiles, source, manifest>> /\ pi' = UndoPhase(pi)
    BY DEF AbandonPhase, PiGoes
  <1>2. /\ DOMAIN pi = Fields /\ SamePhase(pi, pi) /\ u.begun = pi.begun /\ u.trouble = pi.trouble
        /\ u.journal = pi.journal /\ u.pc = "undo" /\ "undo" \notin Holders
    BY DEF PiIInv, IsCommand, Fields, SamePhase, SameCommand, Holders, Reconciles
  <1> HIDE DEF u
  <1>3. Undoes(u, piFiles, manifest)
    BY <1>2 DEF TraceIInv, Undoes, Phasing
  <1>4. \A p \in Paths : Ignored(pi, piFiles, manifest, p) => Ignored(u, piFiles, manifest, p)
    BY <1>2 DEF Ignored
  <1> QED
    BY <1>1, <1>2, <1>3, <1>4, UndoneTraced DEF u, Passed

(* A step of a phase that writes nothing.                                  *)
LEMMA QuietTraced ==
    ASSUME PiIInv, TraceIInv, pi.pc \in Holders, pi'.pc \in Holders, SamePhase(pi, pi'),
           pi'.pc = "remove" => OwnedPaths(pi'.held) \subseteq DOMAIN pi.journal,
           UNCHANGED <<piFiles, source, manifest, observed>>,
           \/ pi'.journal = pi.journal
           \/ \E path \in Paths : pi'.journal = Journaled(path),
           ~ disturbed => Midway(pi', piFiles, manifest, original, drifted),
           \A p \in Paths : Passed(p) => /\ p \notin DOMAIN pi'.held.children
                                         /\ pi'.pc = "child" => p \notin pi'.queue
    PROVE  TraceIInv'
  <1>1. Undoes(pi, piFiles, manifest) /\ pi.pc \in Phasing /\ pi'.pc \in Phasing
    BY DEF TraceIInv, Phasing
  <1>2. Undoes(pi', piFiles, manifest)
    <2>1. CASE pi'.journal = pi.journal
      BY <1>1, <2>1 DEF Undoes, SamePhase, SameCommand
    <2>2. CASE \E path \in Paths : pi'.journal = Journaled(path)
      BY <1>1, <2>2, LoggedUndoes DEF Journaled, SamePhase, SameCommand
    <2> QED
      BY <2>1, <2>2
  <1>3. ASSUME NEW p \in Paths, Passed(p)
        PROVE  Ignored(pi', piFiles, manifest, p)
    <2>1. CASE pi'.journal = pi.journal
      BY <1>3, <2>1 DEF Ignored, Passed
    <2>2. ASSUME NEW path \in Paths, pi'.journal = Journaled(path)
          PROVE  Ignored(pi', piFiles, manifest, p)
      <3>1. /\ path # "manifest"
            /\ DOMAIN pi'.journal = DOMAIN pi.journal \cup {path}
            /\ \A q \in DOMAIN pi'.journal :
                  pi'.journal[q] = IF q \in DOMAIN pi.journal THEN pi.journal[q] ELSE piFiles[path]
        BY <2>2 DEF Journaled, WithNew, Paths, ChildFiles
      <3> QED
        BY <1>3, <3>1 DEF Ignored, Passed
    <2> QED
      BY <2>1, <2>2
  <1> QED
    BY <1>1, <1>2, <1>3, StepTraced

---------------------------------------------------------------------------
(* A reconciliation. *)

LEMMA SoundBook ==
    ASSUME NEW f, NEW book, NEW o, NEW drift, Sound(f, book, o, drift)
    PROVE  Sound(f, BookOf(book), o, drift)
  <1>1. CASE book = NoFile
    <2>1. BookOf(book).mcp = {} /\ DOMAIN BookOf(book).children = {} /\ OwnersOf(book) = {}
      BY <1>1 DEF BookOf, NoEntries, OwnersOf
    <2> QED
      BY <2>1 DEF Sound
  <1>2. CASE book # NoFile
    BY <1>2 DEF BookOf
  <1> QED
    BY <1>1, <1>2

(* What a phase holds.                                                     *)
LEMMA HeldLedger ==
    ASSUME PiIInv, pi.pc \in Holders
    PROVE  /\ IsLedger(Known, pi.held, Notes) /\ pi.held # NoFile
           /\ OwnersOf(pi.held) = OwnedPaths(pi.held)
           /\ DOMAIN pi.held.children \subseteq ChildFiles
           /\ DOMAIN pi = Fields
           /\ piFiles = [p \in Paths |-> piFiles[p]]
  <1>1. IsLedger(Known, pi.held, Notes) /\ DOMAIN pi = Fields
    BY DEF PiIInv, IsCommand
  <1>2. pi.held # NoFile
    BY <1>1, LedgerIsThere DEF PiIInv, Notes
  <1> QED
    BY <1>1, <1>2 DEF OwnersOf, IsLedger, PiIInv, IsHome

LEMMA NoRollback ==
    ASSUME TraceIInv, pi.pc \in Phasing, pi.rolling
    PROVE  pi.todo # <<>> /\ Head(pi.todo) = "remove"
  <1>1. <<"remove", "restore">> # <<>> /\ Head(<<"remove", "restore">>) = "remove"
    OBVIOUS
  <1> QED
    BY <1>1 DEF TraceIInv, RollsBack, Phasing, Holders, Reconciles

LEMMA BeginReconcileTraced ==
    ASSUME PiIInv, TraceIInv, BeginReconcile
    PROVE  TraceIInv'
  <1>1. /\ UNCHANGED <<piFiles, source, manifest, observed>>
        /\ pi.pc = "phase" /\ pi.todo # <<>> /\ Head(pi.todo) \in {"reconcile", "refresh"}
    BY DEF BeginReconcile, InPhase, PiGoes
  <1>2. /\ pi'.pc = "mcp" /\ pi'.held = Recorded /\ SameCommand(pi, pi')
        /\ pi'.todo = pi.todo /\ pi'.journal = pi.journal
        /\ pi'.begun = [files |-> piFiles, manifest |-> manifest]
    BY DEF BeginReconcile, PiGoes, PiIInv, IsCommand, Fields, SameCommand
  <1>3. DOMAIN pi'.journal = {}
    BY <1>1, <1>2 DEF PiIInv, IsCommand, InStep
  <1>4. Sound(piFiles, manifest, original, drifted)
            => Midway(pi', piFiles, manifest, original, drifted)
    BY <1>2, <1>3, SoundBook, RecordedIsBook DEF Midway, DriftOf
  <1>5. ASSUME NEW p \in Paths, p \notin OwnersOf(manifest)
        PROVE  p \notin DOMAIN pi'.held.children
    BY <1>2, <1>5, RecordedIsBook DEF OwnedPaths
  <1> QED
    BY <1>1, <1>2, <1>3, <1>4, <1>5, BeginPhaseTraced DEF Holders, Reconciles

LEMMA NothingToRefreshTraced ==
    ASSUME PiIInv, TraceIInv, NothingToRefresh
    PROVE  TraceIInv'
  <1>1. /\ UNCHANGED <<piFiles, source, manifest, original, drifted, disturbed>>
        /\ pi.pc = "phase" /\ pi.todo # <<>> /\ Head(pi.todo) = "refresh" /\ pi' = PhaseOver(pi)
    BY DEF NothingToRefresh, InPhase, PiGoes, observed
  <1>2. ~ disturbed => Sound(piFiles, manifest, original, drifted)
    BY <1>1 DEF TraceIInv, Undisturbed
  <1> QED
    BY <1>1, <1>2, StillUncovered, PhaseTraced

LEMMA MidwaySound ==
    ASSUME TraceIInv, ~ disturbed, pi.pc \in Holders \ {"remove"}
    PROVE  /\ Sound(piFiles, pi.held, original, DriftOf(pi.held, manifest, drifted))
           /\ ChildFiles \cap DOMAIN pi.journal \subseteq DOMAIN pi.held.children
  BY DEF TraceIInv, Undisturbed, Midway

LEMMA ReconcileMcpTraced ==
    ASSUME PiIInv, TraceIInv, ReconcileMcp
    PROVE  TraceIInv'
  <1> DEFINE mcp == IF piFiles["mcp"] = NoFile THEN EmptyMcp ELSE piFiles["mcp"]
             wired == [mcp EXCEPT !.codegraph = "ours"]
             log == Journaled("mcp")
             record == OwnedFile(log, "mcp", wired)
             after == [pi EXCEPT !.pc = "missing", !.journal = log, !.held.mcp = {record}]
             written == [piFiles EXCEPT !["mcp"] = wired]
  <1>1. /\ pi.pc = "mcp" /\ pi.pc \in Holders \ {"remove"} /\ UNCHANGED observed /\ "mcp" \in Paths
        /\ DOMAIN pi.journal = {}
    BY DEF ReconcileMcp, AtStep, Holders, Reconciles, PiIInv, IsCommand, InStep, Paths
  <1>2. CASE AbandonPhase
    BY <1>1, <1>2, AbandonTraced
  <1>3. CASE PiGoes([pi EXCEPT !.pc = "missing"]) /\ UNCHANGED <<piFiles, source, manifest>>
    <2>1. /\ pi'.pc = "missing" /\ SamePhase(pi, pi') /\ pi'.journal = pi.journal
          /\ pi'.held = pi.held
      BY <1>3, <1>1, HeldLedger DEF PiGoes, Fields, SamePhase, SameCommand
    <2>2. ~ disturbed => Midway(pi', piFiles, manifest, original, drifted)
      BY <1>1, <2>1, MidwaySound DEF Midway
    <2> QED
      BY <1>1, <1>3, <2>1, <2>2, QuietTraced DEF Passed, Ignored, Holders, Reconciles
  <1>4. CASE mcp.codegraph = "none" /\ WriteHome("mcp", wired, after)
    <2>1. wired \in FileOf("mcp", Notes) /\ wired # NoFile /\ wired.codegraph = "ours"
      <3>1. piFiles["mcp"] \in MaybeFile("mcp", 0 .. piEdits) /\ piEdits \in Nat
        BY <1>1 DEF PiIInv, IsHome, Notes
      <3>2. wired \in FileOf("mcp", Notes) /\ wired # NoFile
        BY <1>4, <3>1, WiredKeeps DEF Notes
      <3> QED
        BY <3>2 DEF FileOf, McpFiles, EmptyMcp
    <2>2. /\ written["mcp"] = wired /\ \A p \in Paths : p # "mcp" => written[p] = piFiles[p]
          /\ log = [p \in {"mcp"} |-> piFiles["mcp"]] /\ Unwired(piFiles["mcp"])
          /\ record = [before |-> piFiles["mcp"], after |-> wired]
      <3>1. log = [p \in {"mcp"} |-> piFiles["mcp"]]
        BY <1>1 DEF Journaled, WithNew
      <3> HIDE DEF log
      <3>2. record = [before |-> piFiles["mcp"], after |-> wired]
        BY <3>1 DEF OwnedFile
      <3>3. Unwired(piFiles["mcp"])
        BY <1>4 DEF Unwired
      <3> QED
        BY <1>1, <3>1, <3>2, <3>3, HeldLedger
    <2>3. /\ after.pc = "missing" /\ SamePhase(pi, after) /\ after.journal = log
          /\ after.held = [mcp |-> {record}, children |-> pi.held.children]
      <3>1. after.held = [pi.held EXCEPT !.mcp = {record}]
        BY <1>1, HeldLedger DEF Fields
      <3>2. after.held = [mcp |-> {record}, children |-> pi.held.children]
        BY <1>1, <3>1, HeldLedger DEF IsLedger
      <3> QED
        BY <1>1, <3>2, HeldLedger DEF Fields, SamePhase, SameCommand
    <2> HIDE DEF wired, log, record, after, written
    <2>4. after.held.mcp = {record} /\ after.held.children = pi.held.children
      BY <2>3
    <2>5. ASSUME ~ disturbed
          PROVE  Midway(after, written, manifest, original, drifted)
      <3> DEFINE old == DriftOf(pi.held, manifest, drifted)
                 new == DriftOf(after.held, manifest, drifted)
      <3>1. Sound(piFiles, pi.held, original, old)
        BY <1>1, <2>5, MidwaySound
      <3>2. \A p : p # "mcp" => (p \in old <=> p \in new)
        BY DEF DriftOf
      <3>3. piFiles["mcp"] = original["mcp"]
        BY <2>2, <3>1 DEF Sound
      <3> HIDE DEF old, new
      <3>4. \A p \in Paths \ OwnersOf(after.held) : p # "mcp" /\ p \notin OwnersOf(pi.held)
        <4>1. OwnedPaths(after.held) = OwnedPaths(pi.held) \cup {"mcp"}
          BY <2>4 DEF OwnedPaths
        <4>2. after.held # NoFile
          <5>1. record.before = piFiles["mcp"] /\ record.after = wired
            BY <2>2
          <5>2. IsOwned("mcp", record, Notes)
            <6>1. piFiles["mcp"] \in MaybeFile("mcp", 0 .. piEdits)
              BY <1>1 DEF PiIInv, IsHome, Notes
            <6> QED
              BY <1>4, <2>2, <6>1, WiredKeeps DEF Notes, PiIInv, wired
          <5>3. IsLedger({}, after.held, Notes)
            BY <1>1, <2>3, <2>4, <5>2, HeldLedger DEF IsLedger
          <5> QED
            BY <5>3, LedgerIsThere DEF PiIInv, Notes
        <4> QED
          BY <1>1, <4>1, <4>2, HeldLedger DEF OwnersOf
      <3>5. \A p \in Paths \ OwnersOf(after.held) : written[p] = original[p]
        BY <2>2, <3>1, <3>4 DEF Sound
      <3>6. \A r \in after.held.mcp : r.before = original["mcp"] /\ written["mcp"] = r.after
        BY <2>2, <2>4, <3>3
      <3>7. ASSUME NEW p \in DOMAIN after.held.children
            PROVE  /\ Rendered(after.held.children[p].after) = after.held.children[p].after
                   /\ p \notin new => /\ after.held.children[p].before = original[p]
                                      /\ written[p] = after.held.children[p].after
        <4>1. p # "mcp" /\ p \in Paths
          BY <1>1, <2>4, <3>7, HeldLedger DEF ChildFiles, Paths
        <4> QED
          BY <1>1, <2>2, <2>4, <3>1, <3>2, <3>7, <4>1, HeldLedger DEF Sound
      <3>8. Sound(written, after.held, original, new)
        BY <2>1, <2>2, <3>5, <3>6, <3>7 DEF Sound, Unwired
      <3>9. ChildFiles \cap DOMAIN after.journal = {}
        BY <2>2, <2>3 DEF ChildFiles
      <3> QED
        BY <2>3, <3>8, <3>9 DEF Midway, new
    <2>6. \A p \in Paths : Passed(p) => p # "mcp" /\ p \notin DOMAIN after.held.children
      BY <1>1, <2>4 DEF Passed, Ignored, PiIInv, IsCommand, Remembers
    <2> QED
      BY <1>1, <1>4, <2>3, <2>5, <2>6, WriteTraced DEF Holders, Reconciles, written, log
  <1> QED
    BY <1>2, <1>3, <1>4 DEF ReconcileMcp

LEMMA RestoreMissingTraced ==
    ASSUME PiIInv, TraceIInv, RestoreMissing
    PROVE  TraceIInv'
  <1>1. /\ pi.pc = "missing" /\ pi.pc \in Holders \ {"remove"} /\ UNCHANGED observed
    BY DEF RestoreMissing, AtStep, Holders, Reconciles
  <1>2. ASSUME NEW path \in MissingChildren,
               WriteHome(path, pi.held.children[path].after,
                         [pi EXCEPT !.journal = Journaled(path)])
        PROVE  TraceIInv'
    <2> DEFINE content == pi.held.children[path].after
               after == [pi EXCEPT !.journal = Journaled(path)]
               written == [piFiles EXCEPT ![path] = content]
    <2>1. /\ path \in DOMAIN pi.held.children /\ path \in Paths /\ path \in ChildFiles /\ path # "mcp"
          /\ written[path] = content /\ \A p \in Paths : p # path => written[p] = piFiles[p]
      BY <1>1, HeldLedger DEF MissingChildren, Paths, ChildFiles
    <2>2. /\ after.pc = "missing" /\ SamePhase(pi, after) /\ after.journal = Journaled(path)
          /\ after.held = pi.held
      BY <1>1, HeldLedger DEF Fields, SamePhase, SameCommand
    <2>3. DOMAIN Journaled(path) = DOMAIN pi.journal \cup {path}
      BY DEF Journaled, WithNew
    <2> HIDE DEF after, written
    <2>4. ASSUME ~ disturbed
          PROVE  Midway(after, written, manifest, original, drifted)
      <3>1. /\ Sound(piFiles, pi.held, original, DriftOf(pi.held, manifest, drifted))
            /\ ChildFiles \cap DOMAIN pi.journal \subseteq DOMAIN pi.held.children
        BY <1>1, <2>4, MidwaySound
      <3>2. Sound(written, pi.held, original, DriftOf(pi.held, manifest, drifted))
        <4>1. path \in OwnersOf(pi.held) /\ "mcp" \in Paths
          BY <1>1, <2>1, HeldLedger DEF OwnedPaths, Paths
        <4>2. \A p \in DOMAIN pi.held.children : p \in Paths
          BY <1>1, HeldLedger DEF Paths
        <4> QED
          BY <2>1, <3>1, <4>1, <4>2 DEF Sound
      <3> QED
        BY <2>1, <2>2, <2>3, <3>1, <3>2 DEF Midway
    <2>5. \A p \in Paths : Passed(p) => p # path /\ p \notin DOMAIN after.held.children
      BY <1>1, <2>1, <2>2 DEF Passed, Ignored
    <2> QED
      BY <1>1, <1>2, <2>1, <2>2, <2>4, <2>5, WriteTraced DEF Holders, Reconciles, written, after
  <1>3. CASE /\ PiGoes([pi EXCEPT !.pc = "child", !.queue = Discovered])
             /\ UNCHANGED <<piFiles, source, manifest>>
    <2>1. /\ pi'.pc = "child" /\ SamePhase(pi, pi') /\ pi'.journal = pi.journal
          /\ pi'.held = pi.held /\ pi'.queue = Discovered
      BY <1>3, <1>1, HeldLedger DEF PiGoes, Fields, SamePhase, SameCommand
    <2>2. ~ disturbed => Midway(pi', piFiles, manifest, original, drifted)
      BY <1>1, <2>1, MidwaySound DEF Midway
    <2>3. \A p \in Paths : Passed(p) => p \notin DOMAIN pi'.held.children /\ p \notin pi'.queue
      BY <1>1, <2>1 DEF Passed, Ignored, Discovered, Found
    <2> QED
      BY <1>1, <1>3, <2>1, <2>2, <2>3, QuietTraced DEF Holders, Reconciles
  <1> QED
    BY <1>1, <1>2, <1>3 DEF RestoreMissing

LEMMA RenderedTwice ==
    ASSUME NEW notes, NEW child \in ChildTexts(notes)
    PROVE  Rendered(Rendered(child)) = Rendered(child)
  <1>1. CASE child.guide # "none" /\ (~ Compatible(child) \/ child.tool)
    BY <1>1 DEF Rendered
  <1>2. CASE ~ (child.guide # "none" /\ (~ Compatible(child) \/ child.tool))
    <2>1. /\ Rendered(child).guide = "block" /\ Rendered(child).form = child.form
          /\ Rendered(child).tool = Compatible(child)
      BY <1>2 DEF Rendered, ChildTexts
    <2> QED
      BY <2>1 DEF Rendered, Compatible
  <1> QED
    BY <1>1, <1>2

(* A child that is recorded, or was.                                       *)
LEMMA RecordingSound ==
    ASSUME PiIInv, TraceIInv, ~ disturbed, pi.pc = "child", NEW path \in pi.queue,
           NEW content, NEW log, content = Rendered(Found(path)),
           \/ log = Journaled(path)
           \/ log = pi.journal /\ path \in DOMAIN pi.held.children
    PROVE  Midway(Recording(path, content, log), [piFiles EXCEPT ![path] = content],
                  manifest, original, drifted)
  <1> DEFINE after == Recording(path, content, log)
             written == [piFiles EXCEPT ![path] = content]
             record == OwnedFile(log, path, content)
             drift == DriftOf(pi.held, manifest, drifted)
             grown == WithNew(pi.held.children, path, record)
  <1>1. /\ pi.pc \in Holders \ {"remove"}
        /\ Sound(piFiles, pi.held, original, drift)
        /\ ChildFiles \cap DOMAIN pi.journal \subseteq DOMAIN pi.held.children
    BY MidwaySound DEF Holders, Reconciles
  <1>2. /\ path \in ChildFiles /\ path \in Paths /\ path # "mcp"
        /\ content \in FileOf(path, Notes) /\ content # NoFile
    BY QueuedChild
  <1>3. /\ written[path] = content /\ \A p \in Paths : p # path => written[p] = piFiles[p]
    BY <1>1, <1>2, HeldLedger
  <1>4. /\ after.pc = "child" /\ after.journal = log
        /\ after.held = [mcp |-> pi.held.mcp, children |-> grown]
    <2>1. after.held = [pi.held EXCEPT !.children = grown] /\ after.pc = "child" /\ after.journal = log
      BY <1>1, HeldLedger DEF Recording, Fields
    <2>2. pi.held = [mcp |-> pi.held.mcp, children |-> pi.held.children]
      BY <1>1, HeldLedger DEF IsLedger
    <2> QED
      BY <2>1, <2>2
  <1>5. /\ DOMAIN grown = DOMAIN pi.held.children \cup {path}
        /\ \A p \in DOMAIN grown : grown[p] = IF p \in DOMAIN pi.held.children
                                              THEN pi.held.children[p] ELSE record
    BY DEF WithNew
  <1>6. /\ DOMAIN log \subseteq DOMAIN pi.journal \cup {path}
        /\ path \notin DOMAIN pi.held.children => log[path] = piFiles[path]
    <2>1. CASE log = Journaled(path)
      BY <1>1, <1>2, <2>1 DEF Journaled, WithNew
    <2>2. CASE log = pi.journal /\ path \in DOMAIN pi.held.children
      BY <2>2
    <2> QED
      BY <2>1, <2>2
  <1>7. record.before = log[path] /\ record.after = content
    BY DEF OwnedFile
  <1>8. Rendered(content) = content /\ (piFiles[path] # NoFile => content = Rendered(piFiles[path]))
    <2>1. piFiles[path] # NoFile => Found(path) = piFiles[path]
      BY DEF Found
    <2>2. Found(path) \in ChildTexts(Notes)
      <3>1. piFiles[path] = NoFile => path = "overlay" /\ source # NoFile
        BY DEF PiIInv, IsCommand, InStep
      <3>2. piFiles[path] \in MaybeFile(path, Notes)
        BY <1>2 DEF PiIInv, IsHome
      <3> QED
        BY <1>2, <3>1, <3>2 DEF Found, PiIInv, MaybeFile, FileOf
    <2> QED
      BY <2>1, <2>2, RenderedTwice
  <1>9. after.held.mcp = pi.held.mcp /\ after.held.children = grown
    BY <1>4
  <1>10. after.held # NoFile
    <2>1. IsLedger(Known, after.held, Notes)
      BY RecordingOK, <1>4 DEF IsCommand, Holders, Reconciles
    <2> QED
      BY <2>1, LedgerIsThere DEF PiIInv, Notes
  <1>11. OwnersOf(after.held) = OwnersOf(pi.held) \cup {path}
    BY <1>1, <1>5, <1>9, <1>10, HeldLedger DEF OwnersOf, OwnedPaths
  <1>12. DriftOf(after.held, manifest, drifted) = drift
    BY <1>9 DEF DriftOf
  <1> HIDE DEF after, written, record, drift, grown
  <1>13. \A p \in Paths \ OwnersOf(after.held) : written[p] = original[p]
    BY <1>1, <1>3, <1>11 DEF Sound
  <1>14. pi.held # NoFile /\ "mcp" \in Paths /\ DOMAIN pi.held.children \subseteq Paths
         /\ OwnersOf(pi.held) \cap ChildFiles = DOMAIN pi.held.children
    BY <1>1, HeldLedger DEF Paths, OwnedPaths, ChildFiles
  <1>15. \A r \in after.held.mcp :
            "mcp" \notin drift => r.before = original["mcp"] /\ written["mcp"] = r.after
    BY <1>1, <1>2, <1>3, <1>9, <1>14 DEF Sound
  <1>16. ASSUME NEW p \in DOMAIN grown
         PROVE  /\ Rendered(grown[p].after) = grown[p].after
                /\ p \notin drift => grown[p].before = original[p] /\ written[p] = grown[p].after
    <2>1. CASE p # path
      BY <1>1, <1>3, <1>5, <1>14, <1>16, <2>1 DEF Sound
    <2>2. CASE p = path /\ path \in DOMAIN pi.held.children
      <3>1. /\ grown[p] = pi.held.children[p] /\ Rendered(grown[p].after) = grown[p].after
            /\ p \notin drift => grown[p].before = original[p] /\ piFiles[p] = grown[p].after
        BY <1>1, <1>5, <1>14, <2>2 DEF Sound
      <3>2. grown[p].after # NoFile
        BY <1>1, <2>2, <3>1, HeldLedger, FileIsThere DEF IsLedger, IsOwned, PiIInv, Notes
      <3> QED
        BY <1>3, <1>8, <2>2, <3>1, <3>2
    <2>3. CASE p = path /\ path \notin DOMAIN pi.held.children
      <3>1. piFiles[path] = original[path]
        BY <1>1, <1>2, <1>14, <2>3 DEF Sound
      <3> QED
        BY <1>3, <1>5, <1>6, <1>7, <1>8, <2>3, <3>1
    <2> QED
      BY <2>1, <2>2, <2>3
  <1>17. Unwired(written["mcp"]) => written["mcp"] = original["mcp"]
    BY <1>1, <1>2, <1>3, <1>14 DEF Sound
  <1>18. Sound(written, after.held, original, drift)
    BY <1>9, <1>13, <1>15, <1>16, <1>17 DEF Sound
  <1>19. ChildFiles \cap DOMAIN after.journal \subseteq DOMAIN after.held.children
    BY <1>1, <1>4, <1>5, <1>6, <1>9
  <1>20. Midway(after, written, manifest, original, drifted)
    BY <1>4, <1>12, <1>18, <1>19 DEF Midway
  <1> QED
    BY <1>20 DEF after, written

LEMMA ReconcileChildTraced ==
    ASSUME PiIInv, TraceIInv, ReconcileChild
    PROVE  TraceIInv'
  <1>1. /\ pi.pc = "child" /\ pi.pc \in Holders \ {"remove"} /\ UNCHANGED observed /\ DOMAIN pi = Fields
    BY DEF ReconcileChild, AtStep, Holders, Reconciles, PiIInv, IsCommand
  <1>2. CASE AbandonPhase
    BY <1>1, <1>2, AbandonTraced
  <1>3. ASSUME NEW c, PiGoes(c), UNCHANGED <<piFiles, source, manifest>>, SamePhase(pi, c),
               c.pc \in {"child", "verify"}, c.journal = pi.journal, c.held = pi.held,
               c.queue \subseteq pi.queue
        PROVE  TraceIInv'
    <2>1. ~ disturbed => Midway(c, piFiles, manifest, original, drifted)
      BY <1>1, <1>3, MidwaySound DEF Midway
    <2>2. \A p \in Paths : Passed(p) => p \notin DOMAIN c.held.children /\ p \notin c.queue
      BY <1>1, <1>3 DEF Passed, Ignored
    <2>3. c.pc \in Holders
      BY <1>3 DEF Holders, Reconciles
    <2>4. pi' = c
      BY <1>3 DEF PiGoes
    <2> QED
      BY <1>1, <1>3, <2>1, <2>2, <2>3, <2>4, QuietTraced
  <1>4. ASSUME NEW path \in pi.queue, PiGoes([pi EXCEPT !.queue = @ \ {path}, !.bad = TRUE]),
               UNCHANGED <<piFiles, source, manifest>>
        PROVE  TraceIInv'
    BY <1>1, <1>3, <1>4 DEF Fields, SamePhase, SameCommand
  <1>5. CASE PiGoes([pi EXCEPT !.pc = "verify"]) /\ UNCHANGED <<piFiles, source, manifest>>
    BY <1>1, <1>3, <1>5 DEF Fields, SamePhase, SameCommand
  <1>6. ASSUME NEW path \in pi.queue, NEW content, NEW log
        PROVE  LET after == Recording(path, content, log)
               IN  /\ after.pc = "child" /\ SamePhase(pi, after) /\ after.journal = log
                   /\ \A p \in Paths : Passed(p) => /\ p # path /\ p \notin DOMAIN after.held.children
                                                    /\ p \notin after.queue
    <2> DEFINE after == Recording(path, content, log)
    <2>1. /\ after.pc = "child" /\ SamePhase(pi, after) /\ after.journal = log
          /\ after.queue = pi.queue \ {path}
          /\ after.held = [pi.held EXCEPT !.children =
                              WithNew(pi.held.children, path, OwnedFile(log, path, content))]
      BY <1>1 DEF Recording, Fields, SamePhase, SameCommand
    <2> HIDE DEF after
    <2>2. after.held.children = WithNew(pi.held.children, path, OwnedFile(log, path, content))
      BY <1>1, <2>1, HeldLedger DEF IsLedger
    <2>3. DOMAIN after.held.children = DOMAIN pi.held.children \cup {path}
      BY <2>2 DEF WithNew
    <2>4. \A p \in Paths : Passed(p) => p \notin pi.queue /\ p \notin DOMAIN pi.held.children
      BY <1>1 DEF Passed, Ignored
    <2>5. \A p \in Paths : Passed(p) => /\ p # path /\ p \notin DOMAIN after.held.children
                                        /\ p \notin after.queue
      BY <2>1, <2>3, <2>4
    <2> QED
      BY <2>1, <2>5 DEF after
  <1>7. ASSUME NEW path \in pi.queue, NEW content, content = Rendered(Found(path)),
               WriteHome(path, content, Recording(path, content, Journaled(path)))
        PROVE  TraceIInv'
    <2> DEFINE after == Recording(path, content, Journaled(path))
    <2>1. /\ after.pc = "child" /\ SamePhase(pi, after) /\ after.journal = Journaled(path)
          /\ \A p \in Paths : Passed(p) => /\ p # path /\ p \notin DOMAIN after.held.children
                                           /\ p \notin after.queue
      BY <1>6
    <2>2. path \in Paths
      BY <1>1, QueuedChild
    <2>3. ~ disturbed => Midway(after, [piFiles EXCEPT ![path] = content],
                                manifest, original, drifted)
      BY <1>1, <1>7, RecordingSound
    <2> HIDE DEF after
    <2>4. WriteHome(path, content, after)
      BY <1>7 DEF after
    <2>5. after.pc \in Holders
      BY <2>1 DEF Holders, Reconciles
    <2> QED
      BY <1>1, <2>1, <2>2, <2>3, <2>4, <2>5, WriteTraced
  <1>8. ASSUME NEW path \in pi.queue, NEW content, content = Rendered(Found(path)),
               ChildUnchanged(path, content)
        PROVE  TraceIInv'
    <2> DEFINE log == IF path \in DOMAIN pi.held.children THEN pi.journal ELSE Journaled(path)
               after == Recording(path, content, log)
    <2>1. /\ UNCHANGED <<piFiles, source, manifest>> /\ content = piFiles[path] /\ pi' = after
      BY <1>8 DEF ChildUnchanged, PiGoes
    <2>2. \/ log = Journaled(path)
          \/ log = pi.journal /\ path \in DOMAIN pi.held.children
      OBVIOUS
    <2> HIDE DEF log
    <2>3. /\ after.pc = "child" /\ SamePhase(pi, after) /\ after.journal = log
          /\ \A p \in Paths : Passed(p) => /\ p # path /\ p \notin DOMAIN after.held.children
                                           /\ p \notin after.queue
      BY <1>6
    <2>4. path \in Paths
      BY <1>1, QueuedChild
    <2>5. ~ disturbed => Midway(after, [piFiles EXCEPT ![path] = content],
                                manifest, original, drifted)
      BY <1>1, <1>8, <2>2, RecordingSound
    <2>6. [piFiles EXCEPT ![path] = content] = piFiles
      BY <1>1, <2>1, <2>4, HeldLedger
    <2> HIDE DEF after
    <2>7. after.pc \in Holders
      BY <2>3 DEF Holders, Reconciles
    <2> QED
      BY <1>1, <2>1, <2>2, <2>3, <2>4, <2>5, <2>6, <2>7, QuietTraced
  <1> QED
    BY <1>2, <1>4, <1>5, <1>7, <1>8 DEF ReconcileChild

LEMMA VerifyTraced ==
    ASSUME PiIInv, TraceIInv, Verify
    PROVE  TraceIInv'
  <1>1. /\ pi.pc = "verify" /\ pi.pc \in Holders \ {"remove"}
        /\ UNCHANGED <<piFiles, source, manifest, observed>> /\ DOMAIN pi = Fields
    BY DEF Verify, AtStep, Holders, Reconciles, PiIInv, IsCommand
  <1>2. CASE PiGoes(UndoPhase(pi))
    BY <1>1, <1>2, AbandonTraced DEF AbandonPhase
  <1>3. CASE PiGoes([pi EXCEPT !.pc = "manifest"])
    <2>1. /\ pi'.pc = "manifest" /\ SamePhase(pi, pi') /\ pi'.journal = pi.journal
          /\ pi'.held = pi.held
      BY <1>1, <1>3 DEF PiGoes, Fields, SamePhase, SameCommand
    <2>2. ~ disturbed => Midway(pi', piFiles, manifest, original, drifted)
      BY <1>1, <2>1, MidwaySound DEF Midway
    <2> QED
      BY <1>1, <2>1, <2>2, QuietTraced DEF Passed, Ignored, Holders, Reconciles
  <1> QED
    BY <1>2, <1>3 DEF Verify

LEMMA CoversMcp ==
    ASSUME PiIInv, Recalls(pi), NEW p \in Paths, p \notin pi.found.covered
    PROVE  p # "mcp"
  BY DEF PiIInv, IsCommand, Remembers

(* What a journal says of the manifest.                                    *)
LEMMA NotedManifest ==
    ASSUME PiIInv, TraceIInv, pi.pc \in Holders, UNCHANGED <<source, observed>>,
           piFiles' = piFiles, manifest' \in {manifest, pi.held},
           pi' = UndoPhase([pi EXCEPT !.journal = WithNew(@, "manifest", manifest)])
    PROVE  TraceIInv'
  <1> DEFINE c == [pi EXCEPT !.journal = WithNew(@, "manifest", manifest)]
             u == [c EXCEPT !.pc = "undo"]
  <1>1. DOMAIN pi = Fields /\ "manifest" \notin Paths
    BY HeldLedger DEF Paths, ChildFiles
  <1>2. /\ DOMAIN c = Fields /\ SamePhase(pi, c) /\ c.pc = pi.pc
        /\ u.pc = "undo" /\ u.begun = pi.begun /\ u.trouble = pi.trouble
        /\ u.journal = WithNew(pi.journal, "manifest", manifest)
    BY <1>1 DEF Fields, SamePhase, SameCommand
  <1> HIDE DEF u
  <1>3. /\ DOMAIN u.journal = DOMAIN pi.journal \cup {"manifest"}
        /\ \A q \in DOMAIN u.journal :
              u.journal[q] = IF q \in DOMAIN pi.journal THEN pi.journal[q] ELSE manifest
    BY <1>2 DEF WithNew
  <1>4. Undoes(u, piFiles, manifest')
    <2>1. Undoes(pi, piFiles, manifest) /\ manifest = pi.begun.manifest
      BY DEF TraceIInv, Phasing, Undoes
    <2> QED
      BY <1>1, <1>2, <1>3, <2>1 DEF Undoes, Holders, Reconciles
  <1>5. ASSUME NEW p \in Paths, Passed(p)
        PROVE  Ignored(u, piFiles, manifest', p)
    <2>1. p # "mcp" /\ Ignored(pi, piFiles, manifest, p)
      BY <1>5, CoversMcp DEF Passed
    <2>2. p \notin OwnersOf(manifest) /\ p \notin OwnersOf(pi.held)
      BY <2>1, HeldLedger DEF Ignored, OwnedPaths
    <2> QED
      BY <1>1, <1>2, <1>3, <2>1, <2>2 DEF Ignored, Holders, Reconciles
  <1> QED
    BY <1>2, <1>4, <1>5, UndoneTraced DEF u

LEMMA WriteManifestTraced ==
    ASSUME PiIInv, TraceIInv, WriteManifest
    PROVE  TraceIInv'
  <1>1. /\ pi.pc = "manifest" /\ pi.pc \in Holders \ {"remove"} /\ pi.todo # <<>>
        /\ UNCHANGED <<piFiles, source, original, disturbed>> /\ manifest' \in {manifest, pi.held}
    BY Underway DEF WriteManifest, AtStep, Holders, Reconciles
  <1>2. CASE /\ manifest' = pi.held /\ pi' = PhaseOver(pi)
             /\ drifted' = DriftOf(pi.held, manifest, drifted)
    <2>1. ~ disturbed => Sound(piFiles', manifest', original', drifted')
      BY <1>1, <1>2, MidwaySound
    <2>2. pi.rolling => Head(pi.todo) # "restore"
      BY <1>1, NoRollback DEF Phasing
    <2>3. ASSUME NEW p \in Paths, Recalls(pi), p \notin pi.found.covered
          PROVE  \/ p = "overlay" /\ source' # pi.found.source
                 \/ piFiles'[p] = NoFile /\ p \notin OwnersOf(manifest')
      <3>1. CASE p = "overlay" /\ source # pi.found.source
        BY <1>1, <3>1
      <3>2. CASE Ignored(pi, piFiles, manifest, p)
        <4>1. p # "mcp"
          BY <2>3, CoversMcp
        <4> QED
          BY <1>1, <1>2, <3>2, <4>1, HeldLedger DEF Ignored, OwnedPaths
      <3> QED
        BY <2>3, <3>1, <3>2 DEF TraceIInv, Uncovered
    <2> QED
      BY <1>1, <1>2, <2>1, <2>2, <2>3, PhaseTraced
  <1>3. CASE /\ pi' = UndoPhase([pi EXCEPT !.journal = WithNew(@, "manifest", manifest)])
             /\ UNCHANGED drifted
    BY <1>1, <1>3, NotedManifest DEF observed
  <1> QED
    BY <1>2, <1>3, RecordedIsBook DEF WriteManifest, DriftOf, PiGoes

---------------------------------------------------------------------------
(* A removal. *)

LEMMA BeginRemoveTraced ==
    ASSUME PiIInv, TraceIInv, BeginRemove
    PROVE  TraceIInv'
  <1>1. /\ UNCHANGED <<piFiles, source, manifest, observed>>
        /\ pi.pc = "phase" /\ pi.todo # <<>> /\ Head(pi.todo) = "remove" /\ DOMAIN pi = Fields
    BY DEF BeginRemove, InPhase, PiGoes, PiIInv, IsCommand
  <1>2. CASE manifest = NoFile \/ pi' = PhaseFailed(pi)
    <2>1. pi' \in {PhaseOver(pi), PhaseFailed(pi)}
      BY <1>2 DEF BeginRemove, PiGoes
    <2>2. ~ disturbed => Sound(piFiles, manifest, original, drifted)
      BY <1>1 DEF TraceIInv, Undisturbed
    <2> QED
      BY <1>1, <2>1, <2>2, StillUncovered, PhaseTraced DEF observed
  <1>3. CASE manifest # NoFile /\ pi' # PhaseFailed(pi)
    <2> DEFINE images == [p \in OwnedPaths(manifest) |-> piFiles[p]]
    <2>1. /\ pi'.pc = "remove" /\ pi'.held = manifest /\ SameCommand(pi, pi') /\ pi'.todo = pi.todo
          /\ pi'.journal = WithNew(images, "manifest", manifest)
          /\ pi'.begun = [files |-> piFiles, manifest |-> manifest]
      BY <1>1, <1>3 DEF BeginRemove, PiGoes, Fields, SameCommand
    <2>2. OwnedPaths(manifest) \subseteq Paths /\ "manifest" \notin Paths
      BY <1>3 DEF PiIInv, IsManifest, IsLedger, OwnedPaths, Paths, ChildFiles
    <2>3. /\ DOMAIN pi'.journal = OwnedPaths(manifest) \cup {"manifest"}
          /\ pi'.journal["manifest"] = manifest
          /\ \A p \in OwnedPaths(manifest) : pi'.journal[p] = piFiles[p]
      BY <2>1, <2>2 DEF WithNew
    <2>4. Midway(pi', piFiles, manifest, original, drifted)
      BY <1>3, <2>1 DEF Midway, Removes
    <2>5. \A p \in Paths : p \notin OwnersOf(manifest) => p \notin DOMAIN pi'.held.children
      BY <1>3, <2>1 DEF OwnersOf, OwnedPaths
    <2> QED
      BY <1>1, <2>1, <2>2, <2>3, <2>4, <2>5, BeginPhaseTraced DEF Holders
  <1> QED
    BY <1>2, <1>3

LEMMA RemovesSound ==
    ASSUME TraceIInv, ~ disturbed, pi.pc = "remove"
    PROVE  /\ Removes(pi, piFiles, manifest, original, drifted)
           /\ Sound(pi.begun.files, manifest, original, drifted) /\ manifest # NoFile
  BY DEF TraceIInv, Undisturbed, Midway, Removes, Undoes, Phasing, Holders

(* A file is given back, or kept; the rest is as it was.                   *)
LEMMA GiveBackTraced ==
    ASSUME PiIInv, TraceIInv, pi.pc = "remove", UNCHANGED observed,
           NEW path \in OwnedPaths(pi.held), NEW owned, owned.after # NoFile,
           NEW rest, OwnedPaths(rest) = OwnedPaths(pi.held) \ {path}, rest.mcp \subseteq pi.held.mcp,
           DOMAIN rest.children \subseteq DOMAIN pi.held.children,
           \A p \in DOMAIN rest.children : rest.children[p] = pi.held.children[p],
           ~ disturbed /\ path \notin drifted =>
               pi.begun.files[path] = owned.after /\ owned.before = original[path],
           GiveBack(path, owned, [pi EXCEPT !.held = rest])
    PROVE  TraceIInv'
  <1> DEFINE after == [pi EXCEPT !.held = rest]
  <1>1. /\ pi.pc \in Holders /\ pi.pc \in Phasing /\ OwnedPaths(pi.held) \subseteq DOMAIN pi.journal
        /\ path \in DOMAIN pi.journal
    BY DEF TraceIInv, Undoes, Holders, Phasing
  <1>2. path \in Paths
    BY <1>1, HeldLedger DEF OwnedPaths, Paths
  <1>3. /\ after.pc = "remove" /\ SamePhase(pi, after) /\ after.held = rest
        /\ after.journal = pi.journal /\ after.begun = pi.begun
    BY <1>1, HeldLedger DEF Fields, SamePhase, SameCommand
  <1> HIDE DEF after
  <1>4. \A p \in Paths : Passed(p) => p # path /\ p \notin DOMAIN after.held.children
    <2>1. \A p \in Paths : Passed(p) => p \notin OwnedPaths(pi.held)
      BY <1>1, CoversMcp DEF Passed, Ignored, OwnedPaths
    <2> QED
      BY <1>3, <2>1 DEF OwnedPaths
  <1>5. ASSUME ~ disturbed, NEW g, \A p \in Paths : p # path => g[p] = piFiles[p],
               path \notin drifted => g[path] = original[path]
        PROVE  Midway(after, g, manifest, original, drifted)
    <2>1. Removes(pi, piFiles, manifest, original, drifted) /\ manifest # NoFile
      BY <1>5, RemovesSound
    <2>2. /\ rest.mcp \subseteq manifest.mcp
          /\ DOMAIN rest.children \subseteq DOMAIN manifest.children
          /\ \A p \in DOMAIN rest.children : rest.children[p] = manifest.children[p]
          /\ OwnedPaths(pi.held) \subseteq OwnedPaths(manifest)
      BY <2>1 DEF Removes, OwnedPaths
    <2>3. ASSUME NEW p \in Paths
          PROVE  IF p \in OwnedPaths(manifest) \ OwnedPaths(rest) THEN p \notin drifted => g[p] = original[p]
                 ELSE g[p] = pi.begun.files[p]
      BY <1>5, <2>1, <2>2 DEF Removes
    <2> QED
      BY <1>3, <2>1, <2>2, <2>3 DEF Midway, Removes, Reconciles
  <1>6. CASE /\ ~ GivesBack(path, owned) /\ PiGoes(after)
             /\ UNCHANGED <<piFiles, source, manifest>>
    <2>1. ~ disturbed /\ path \notin drifted => piFiles[path] = original[path]
      <3>1. ~ disturbed => piFiles[path] = pi.begun.files[path]
        BY <1>2, RemovesSound DEF Removes
      <3> QED
        BY <1>6, <3>1 DEF GivesBack
    <2>2. ~ disturbed => Midway(after, piFiles, manifest, original, drifted)
      BY <1>5, <2>1
    <2> QED
      BY <1>1, <1>3, <1>4, <1>6, <2>2, QuietTraced DEF PiGoes
  <1>7. CASE WriteHome(path, owned.before, after)
    <2> DEFINE g == [piFiles EXCEPT ![path] = owned.before]
    <2>1. g[path] = owned.before /\ \A p \in Paths : p # path => g[p] = piFiles[p]
      BY <1>1, <1>2, HeldLedger
    <2> HIDE DEF g
    <2>2. ~ disturbed => Midway(after, g, manifest, original, drifted)
      BY <1>5, <2>1
    <2> QED
      BY <1>1, <1>2, <1>3, <1>4, <1>7, <2>2, WriteTraced DEF g
  <1> QED
    BY <1>6, <1>7 DEF GiveBack, after

LEMMA RemoveChildTraced ==
    ASSUME PiIInv, TraceIInv, RemoveChild
    PROVE  TraceIInv'
  <1>1. pi.pc = "remove" /\ pi.pc \in Holders /\ UNCHANGED observed /\ IsLedger(Known, pi.held, Notes)
    BY DEF RemoveChild, AtStep, PiIInv, IsCommand, Holders
  <1>2. PICK path \in DOMAIN pi.held.children :
           GiveBack(path, pi.held.children[path],
                    [pi EXCEPT !.held.children =
                       [p \in DOMAIN @ \ {path} |-> @[p]]])
    BY DEF RemoveChild
  <1> DEFINE left == [p \in DOMAIN pi.held.children \ {path} |-> pi.held.children[p]]
             rest == [pi.held EXCEPT !.children = left]
             owned == pi.held.children[path]
  <1>3. GiveBack(path, owned, [pi EXCEPT !.held = rest])
    BY <1>2
  <1>4. rest.mcp = pi.held.mcp /\ rest.children = left
    <2>1. rest = [mcp |-> pi.held.mcp, children |-> left]
      BY <1>1 DEF IsLedger
    <2> QED
      BY <2>1
  <1>5. path \in OwnedPaths(pi.held) /\ path # "mcp"
    BY <1>1 DEF IsLedger, ChildFiles, OwnedPaths
  <1> HIDE DEF rest
  <1>6. OwnedPaths(rest) = OwnedPaths(pi.held) \ {path}
    BY <1>4, <1>5 DEF OwnedPaths
  <1>7. owned.after # NoFile
    BY <1>1, FileIsThere DEF IsLedger, IsOwned, PiIInv, Notes
  <1>8. ASSUME ~ disturbed, path \notin drifted
        PROVE  pi.begun.files[path] = owned.after /\ owned.before = original[path]
    <2>1. path \in DOMAIN manifest.children /\ manifest.children[path] = owned
      BY <1>1, <1>8, RemovesSound DEF Removes
    <2> QED
      BY <1>1, <1>8, <2>1, RemovesSound DEF Sound
  <1> HIDE DEF owned
  <1> QED
    BY <1>1, <1>3, <1>4, <1>5, <1>6, <1>7, <1>8, GiveBackTraced

LEMMA RemoveMcpTraced ==
    ASSUME PiIInv, TraceIInv, RemoveMcp
    PROVE  TraceIInv'
  <1>1. /\ pi.pc = "remove" /\ pi.pc \in Holders /\ UNCHANGED observed
        /\ IsLedger(Known, pi.held, Notes)
    BY DEF RemoveMcp, AtStep, PiIInv, IsCommand, Holders
  <1>2. DOMAIN pi.held.children = {}
    BY DEF RemoveMcp
  <1>3. PICK owned \in pi.held.mcp : GiveBack("mcp", owned, [pi EXCEPT !.held.mcp = {}])
    BY DEF RemoveMcp
  <1> DEFINE rest == [pi.held EXCEPT !.mcp = {}]
  <1>4. GiveBack("mcp", owned, [pi EXCEPT !.held = rest])
    BY <1>3
  <1>5. rest.mcp = {} /\ rest.children = pi.held.children
    <2>1. pi.held = [mcp |-> pi.held.mcp, children |-> pi.held.children]
      BY <1>1 DEF IsLedger
    <2> QED
      BY <2>1
  <1> HIDE DEF rest
  <1>6. "mcp" \in OwnedPaths(pi.held) /\ OwnedPaths(rest) = OwnedPaths(pi.held) \ {"mcp"}
    BY <1>2, <1>5 DEF OwnedPaths
  <1>7. owned.after # NoFile
    BY <1>1, FileIsThere DEF IsLedger, IsOwned, PiIInv, Notes
  <1>8. ASSUME ~ disturbed, "mcp" \notin drifted
        PROVE  pi.begun.files["mcp"] = owned.after /\ owned.before = original["mcp"]
    <2>1. owned \in manifest.mcp
      BY <1>1, <1>8, RemovesSound DEF Removes
    <2> QED
      BY <1>1, <1>8, <2>1, RemovesSound DEF Sound
  <1> QED
    BY <1>1, <1>4, <1>5, <1>6, <1>7, <1>8, GiveBackTraced

LEMMA RemoveManifestTraced ==
    ASSUME PiIInv, TraceIInv, RemoveManifest
    PROVE  TraceIInv'
  <1>1. /\ UNCHANGED <<piFiles, source, disturbed>> /\ manifest' = NoFile /\ original' = piFiles
        /\ pi.pc = "remove" /\ pi.pc \in Phasing /\ pi.todo # <<>> /\ pi' = PhaseOver(pi)
    BY Underway DEF RemoveManifest, AtStep, PiGoes, Phasing, Holders
  <1>2. Sound(piFiles, NoFile, piFiles, drifted') /\ OwnersOf(NoFile) = {}
    BY DEF Sound, OwnersOf
  <1>3. pi.rolling => Head(pi.todo) # "restore"
    BY <1>1, NoRollback
  <1> QED
    BY <1>1, <1>2, <1>3, StillUncovered, PhaseTraced

LEMMA KeepManifestTraced ==
    ASSUME PiIInv, TraceIInv, KeepManifest
    PROVE  TraceIInv'
  BY AbandonTraced DEF KeepManifest, AtStep, AbandonPhase, Holders

---------------------------------------------------------------------------
(* What a failed phase, and a failed command, give back. *)

LEMMA UndoTraced ==
    ASSUME PiIInv, TraceIInv, Undo
    PROVE  TraceIInv'
  <1> USE DEF Phasing, Holders, Reconciles
  <1>1. /\ pi.pc = "undo" /\ UNCHANGED <<source, original, drifted>> /\ DOMAIN pi = Fields
        /\ piFiles = [p \in Paths |-> piFiles[p]] /\ Undoes(pi, piFiles, manifest)
        /\ "manifest" \notin Paths
    BY DEF Undo, AtStep, PiIInv, IsCommand, IsHome, TraceIInv, Paths, ChildFiles
  <1>2. PICK path \in DOMAIN pi.journal :
          LET rest == [pi EXCEPT !.journal = [p \in DOMAIN @ \ {path} |-> @[p]]]
          IN  \/ /\ PiGoes(rest)
                 /\ IF path = "manifest"
                    THEN manifest' = Undone(path, manifest) /\ UNCHANGED piFiles
                    ELSE /\ piFiles' = [piFiles EXCEPT ![path] = Undone(path, @)]
                         /\ UNCHANGED manifest
                 /\ UNCHANGED disturbed
              \/ /\ PiGoes([rest EXCEPT !.trouble = TRUE])
                 /\ disturbed' = TRUE
                 /\ UNCHANGED <<piFiles, manifest>>
    BY DEF Undo
  <1> DEFINE left == [p \in DOMAIN pi.journal \ {path} |-> pi.journal[p]]
             rest == [pi EXCEPT !.journal = left]
  <1>3. /\ DOMAIN left = DOMAIN pi.journal \ {path}
        /\ \A p \in DOMAIN left : left[p] = pi.journal[p]
    OBVIOUS
  <1>4. /\ DOMAIN rest = Fields /\ rest.pc = "undo" /\ SamePhase(pi, rest) /\ rest.journal = left
    BY <1>1 DEF Fields, SamePhase, SameCommand
  <1>5. path \in Paths \/ path = "manifest"
    BY DEF PiIInv, IsCommand, IsLog
  <1> HIDE DEF left
  <1>6. CASE /\ pi' = rest /\ UNCHANGED disturbed
             /\ IF path = "manifest" THEN manifest' = pi.journal[path] /\ piFiles' = piFiles
                ELSE piFiles' = [piFiles EXCEPT ![path] = pi.journal[path]] /\ manifest' = manifest
    <2> HIDE DEF rest
    <2>1. \A p \in Paths : piFiles'[p] = IF p = path THEN pi.journal[path] ELSE piFiles[p]
      BY <1>1, <1>5, <1>6
    <2>2. manifest' = IF path = "manifest" THEN pi.journal[path] ELSE manifest
      BY <1>6
    <2>3. Undoes(rest, piFiles', manifest')
      BY <1>1, <1>3, <1>4, <2>1, <2>2 DEF Undoes, SamePhase, SameCommand
    <2>4. ASSUME NEW p \in Paths, Passed(p)
          PROVE  Ignored(rest, piFiles', manifest', p)
      <3>1. Ignored(pi, piFiles, manifest, p)
        BY <2>4 DEF Passed
      <3> QED
        BY <1>1, <1>3, <1>4, <2>1, <2>2, <3>1 DEF Ignored
    <2>5. Midway(rest, piFiles', manifest', original, drifted)
      BY <1>4 DEF Midway
    <2> QED
      BY <1>1, <1>4, <1>6, <2>3, <2>4, <2>5, StepTraced DEF observed
  <1>7. CASE /\ pi' = [rest EXCEPT !.trouble = TRUE] /\ disturbed' = TRUE
             /\ UNCHANGED <<piFiles, manifest>>
    <2>1. /\ pi'.pc = "undo" /\ pi'.trouble /\ pi'.journal = left /\ pi'.kind = pi.kind
          /\ pi'.found = pi.found /\ pi'.begun = pi.begun /\ pi'.rolling = pi.rolling
          /\ pi'.collect = pi.collect /\ pi'.todo = pi.todo
      BY <1>4, <1>7 DEF Fields, SamePhase, SameCommand
    <2>2. Undoes(pi', piFiles, manifest)
      BY <1>1, <2>1 DEF Undoes
    <2>3. \A p \in Paths : Ignored(pi, piFiles, manifest, p) => Ignored(pi', piFiles, manifest, p)
      BY <1>1, <1>3, <2>1 DEF Ignored
    <2>4. Recalls(pi') <=> Recalls(pi)
      BY <1>1, <2>1 DEF Recalls
    <2>5. Uncovered(pi', piFiles, manifest, source)
      BY <2>1, <2>3, <2>4 DEF TraceIInv, Uncovered
    <2>6. RollsBack(pi', piFiles, manifest, source)
      BY <1>1, <2>1 DEF TraceIInv, RollsBack
    <2> QED
      BY <1>1, <1>7, <2>2, <2>5, <2>6 DEF TraceIInv
  <1> QED
    BY <1>2, <1>6, <1>7 DEF PiGoes, Undone, left

(* When nothing is left to be undone, the phase is where it began.         *)
LEMMA Undone0 ==
    ASSUME PiIInv, TraceIInv, pi.pc = "undo", DOMAIN pi.journal = {}, ~ pi.trouble
    PROVE  piFiles = pi.begun.files /\ manifest = pi.begun.manifest
  <1>1. /\ Undoes(pi, piFiles, manifest) /\ piFiles = [p \in Paths |-> piFiles[p]]
    BY DEF TraceIInv, Phasing, PiIInv, IsHome
  <1>2. /\ \A p \in Paths : piFiles[p] = pi.begun.files[p]
        /\ pi.begun.files = [p \in Paths |-> pi.begun.files[p]] /\ manifest = pi.begun.manifest
    BY <1>1 DEF Undoes
  <1> QED
    BY <1>1, <1>2

LEMMA EndUndoTraced ==
    ASSUME PiIInv, TraceIInv, EndUndo
    PROVE  TraceIInv'
  <1>1. /\ UNCHANGED <<piFiles, source, manifest, original, drifted, disturbed>>
        /\ pi.pc = "undo" /\ pi.pc \in Phasing /\ pi.todo # <<>> /\ DOMAIN pi.journal = {}
        /\ pi' = PhaseFailed(pi)
    BY Underway DEF EndUndo, AtStep, PiGoes, Phasing, observed
  <1>2. pi.rolling => Head(pi.todo) # "restore"
    BY <1>1, NoRollback
  <1>3. ~ disturbed => Sound(piFiles, manifest, original, drifted)
    BY <1>1, Undone0 DEF TraceIInv, Undisturbed
  <1> QED
    BY <1>1, <1>2, <1>3, StillUncovered, PhaseTraced

LEMMA RestoreTraced ==
    ASSUME PiIInv, TraceIInv, Restore
    PROVE  TraceIInv'
  <1>1. /\ pi.pc = "phase" /\ pi.todo # <<>> /\ Head(pi.todo) = "restore" /\ DOMAIN pi = Fields
        /\ source' = source /\ drifted' = pi.found.drifted
    BY DEF Restore, InPhase, PiIInv, IsCommand
  <1>2. PICK restored \in SUBSET Covered :
          /\ piFiles' = [p \in Paths |-> IF p \in restored THEN pi.found.files[p] ELSE piFiles[p]]
          /\ manifest' = IF "manifest" \in restored THEN pi.found.manifest ELSE manifest
          /\ disturbed' = (disturbed \/ restored # Covered)
          /\ PiGoes([PhaseOver(pi) EXCEPT !.trouble = @ \/ restored # Covered])
    BY DEF Restore
  <1>3. original' = [p \in Paths |->
                       IF p \in pi.found.covered THEN pi.found.original[p]
                       ELSE IF manifest' # NoFile /\ p \in OwnedPaths(manifest') THEN original[p]
                       ELSE piFiles'[p]]
    BY DEF Restore
  <1>4. pi.kind # "uninstall" /\ Recalls(pi)
    <2>1. Head(<<"remove", "cleanup">>) = "remove" /\ Head(<<"cleanup">>) = "cleanup"
      OBVIOUS
    <2> QED
      BY <1>1, <2>1 DEF PiIInv, IsCommand, Agenda, Recalls
  <1>5. /\ pi'.pc = "phase" /\ pi'.journal = NoEntries /\ pi'.found = pi.found
        /\ pi'.kind = pi.kind /\ pi'.collect = pi.collect /\ pi'.rolling = pi.rolling
        /\ pi'.todo = Tail(pi.todo) /\ pi'.trouble = (pi.trouble \/ restored # Covered)
    <2>1. PhaseOver(pi).trouble = pi.trouble /\ PhaseOver(pi).rolling = pi.rolling
      BY <1>1 DEF PhaseOver, Fields
    <2> QED
      BY <1>1, <1>2, <2>1, OverFields DEF PiGoes, Fields
  <1>6. /\ pi'.pc \notin Phasing /\ Recalls(pi') /\ DOMAIN pi'.journal = {}
        /\ Midway(pi', piFiles', manifest', original', drifted')
        /\ \A p : Ignored(pi', piFiles', manifest', p)
                     <=> piFiles'[p] = NoFile /\ p \notin OwnersOf(manifest')
    <2>1. DOMAIN pi'.journal = {}
      BY <1>5 DEF NoEntries
    <2> QED
      BY <1>4, <1>5, <2>1, BetweenPhases DEF Recalls
  <1>7. ASSUME NEW p \in Paths, p \notin pi.found.covered
        PROVE  /\ pi.found.files[p] = NoFile /\ p \notin OwnersOf(pi.found.manifest)
               /\ p = "overlay" => pi.found.source = NoFile
               /\ piFiles'[p] = piFiles[p]
               /\ \/ p = "overlay" /\ source # pi.found.source
                  \/ piFiles[p] = NoFile /\ p \notin OwnersOf(manifest)
    <2>1. piFiles'[p] = piFiles[p]
      <3>1. p # "manifest"
        BY DEF Paths, ChildFiles
      <3> QED
        BY <1>2, <1>7, <3>1 DEF Covered
    <2> QED
      BY <1>4, <1>7, <2>1, StillUncovered DEF TraceIInv, Uncovered
  <1>8. Uncovered(pi', piFiles', manifest', source')
    BY <1>1, <1>2, <1>5, <1>6, <1>7 DEF Uncovered
  <1>9. restored = Covered => Restored(pi', piFiles', manifest', source')
    <2> HAVE restored = Covered
    <2>1. manifest' = pi.found.manifest
      BY <1>2 DEF Covered
    <2>2. ASSUME NEW p \in Paths, pi.found.source = source \/ p # "overlay"
          PROVE  piFiles'[p] = pi.found.files[p]
      BY <1>2, <1>7, <2>2 DEF Covered
    <2> QED
      BY <1>1, <1>5, <2>1, <2>2 DEF Restored
  <1>10. RollsBack(pi', piFiles', manifest', source')
    <2>1. /\ Tail(<<"restore">>) = <<>> /\ Head(<<"remove", "restore">>) = "remove"
      OBVIOUS
    <2> QED
      BY <1>1, <1>4, <1>5, <1>9, <2>1 DEF TraceIInv, RollsBack
  <1>11. ~ disturbed' => Undisturbed(pi', piFiles', manifest', original', drifted')
    <2> HAVE ~ disturbed'
    <2>1. ~ disturbed /\ restored = Covered
      BY <1>2
    <2>2. ~ pi.trouble /\ Sound(pi.found.files, pi.found.manifest, pi.found.original, pi.found.drifted)
      BY <1>4, <2>1 DEF TraceIInv, Undisturbed
    <2>3. manifest' = pi.found.manifest
      BY <1>2, <2>1 DEF Covered
    <2>4. \A p \in pi.found.covered \cap Paths :
             piFiles'[p] = pi.found.files[p] /\ original'[p] = pi.found.original[p]
      BY <1>2, <1>3, <2>1 DEF Covered
    <2>5. \A p \in Paths \ pi.found.covered :
             original'[p] = piFiles'[p] /\ p \notin OwnersOf(manifest')
      BY <1>3, <1>7, <2>3 DEF OwnersOf
    <2>6. /\ "mcp" \in pi.found.covered \cap Paths
          /\ manifest' # NoFile => DOMAIN manifest'.children \subseteq pi.found.covered \cap Paths
      BY <1>4, <2>3 DEF PiIInv, IsCommand, Remembers, Paths
    <2>7. Sound(piFiles', manifest', original', drifted')
      <3>1. \A p \in Paths \ OwnersOf(manifest') : piFiles'[p] = original'[p]
        BY <2>2, <2>3, <2>4, <2>5 DEF Sound
      <3>2. ASSUME manifest' # NoFile, NEW r \in manifest'.mcp, "mcp" \notin drifted'
            PROVE  r.before = original'["mcp"] /\ piFiles'["mcp"] = r.after
        BY <1>1, <2>2, <2>3, <2>4, <2>6, <3>2 DEF Sound
      <3>3. ASSUME manifest' # NoFile, NEW p \in DOMAIN manifest'.children
            PROVE  /\ Rendered(manifest'.children[p].after) = manifest'.children[p].after
                   /\ p \notin drifted' => /\ manifest'.children[p].before = original'[p]
                                           /\ piFiles'[p] = manifest'.children[p].after
        BY <1>1, <2>2, <2>3, <2>4, <2>6, <3>3 DEF Sound
      <3>4. Unwired(piFiles'["mcp"]) => piFiles'["mcp"] = original'["mcp"]
        BY <2>2, <2>4, <2>6 DEF Sound
      <3> QED
        BY <3>1, <3>2, <3>3, <3>4 DEF Sound
    <2> QED
      BY <1>1, <1>5, <1>6, <2>1, <2>2, <2>7 DEF Undisturbed
  <1> QED
    BY <1>6, <1>8, <1>10, <1>11 DEF TraceIInv

---------------------------------------------------------------------------
(* The user, and the whole. *)

LEMMA UserTraced ==
    ASSUME PiIInv, TraceIInv, PiUser
    PROVE  TraceIInv'
  <1>1. pi.pc = "ended" /\ UNCHANGED <<manifest, pi, disturbed>>
    BY DEF PiUser, EditHome, UpdatePackage, PiEdit
  <1>2. ASSUME ~ disturbed
        PROVE  Sound(piFiles', manifest, original', drifted')
    <2>1. Sound(piFiles, manifest, original, drifted)
      BY <1>1, <1>2 DEF TraceIInv, Undisturbed
    <2>2. ASSUME NEW path \in Paths, NEW contents, EditHome(path, contents)
          PROVE  Sound(piFiles', manifest, original', drifted')
      <3>1. PICK content : /\ piFiles' = [piFiles EXCEPT ![path] = content]
                           /\ original' = [original EXCEPT ![path] = content]
        BY <2>2 DEF EditHome
      <3>2. /\ \A p \in Paths : /\ piFiles'[p] = IF p = path THEN content ELSE piFiles[p]
                                /\ original'[p] = IF p = path THEN content ELSE original[p]
            /\ drifted' = drifted \cup ({path} \cap OwnersOf(manifest))
        BY <2>2, <3>1, RecordedIsBook DEF EditHome, PiIInv, IsHome, IsOriginal
      <3>3. manifest # NoFile => /\ DOMAIN manifest.children \subseteq Paths
                                 /\ OwnersOf(manifest) = OwnedPaths(manifest)
        BY DEF PiIInv, IsManifest, IsLedger, Paths, OwnersOf
      <3>4. ASSUME manifest # NoFile, NEW r \in manifest.mcp, "mcp" \notin drifted'
            PROVE  r.before = original'["mcp"] /\ piFiles'["mcp"] = r.after
        <4>1. "mcp" \in Paths /\ "mcp" # path
          BY <3>2, <3>3, <3>4 DEF Paths, OwnedPaths
        <4> QED
          BY <2>1, <3>2, <3>4, <4>1 DEF Sound
      <3>5. ASSUME manifest # NoFile, NEW p \in DOMAIN manifest.children
            PROVE  /\ Rendered(manifest.children[p].after) = manifest.children[p].after
                   /\ p \notin drifted' => /\ manifest.children[p].before = original'[p]
                                           /\ piFiles'[p] = manifest.children[p].after
        <4>1. p \in Paths /\ (p \notin drifted' => p # path)
          BY <3>2, <3>3, <3>5 DEF OwnedPaths
        <4> QED
          BY <2>1, <3>2, <3>5, <4>1 DEF Sound
      <3>6. "mcp" \in Paths
        BY DEF Paths
      <3> QED
        BY <2>1, <3>2, <3>4, <3>5, <3>6 DEF Sound
    <2>3. CASE UpdatePackage
      BY <2>1, <2>3 DEF UpdatePackage
    <2> QED
      BY <2>2, <2>3 DEF PiUser, Paths, ChildFiles
  <1>3. ~ disturbed' => Undisturbed(pi', piFiles', manifest', original', drifted')
    BY <1>1, <1>2 DEF TraceIInv, Undisturbed, Midway, Recalls, Phasing, Holders, Reconciles
  <1> QED
    BY <1>1, <1>3 DEF TraceIInv, Uncovered, Recalls, RollsBack, Phasing, Holders, Reconciles

LEMMA TraceBegins ==
    ASSUME PiInit
    PROVE  TraceIInv
  <1>1. /\ pi.pc = "ended" /\ ~ pi.trouble /\ manifest = NoFile /\ original = piFiles
    BY DEF PiInit, PiIdle
  <1>2. Sound(piFiles, manifest, original, drifted)
    BY <1>1 DEF Sound
  <1> QED
    BY <1>1, <1>2
    DEF TraceIInv, Undisturbed, Midway, Uncovered, Recalls, RollsBack, Phasing, Holders, Reconciles

LEMMA TraceSteps ==
    ASSUME PiIInv, TraceIInv, PiNext
    PROVE  TraceIInv'
  <1>1. CASE BeginCommand
    BY <1>1, BeginPiTraced DEF BeginCommand
  <1>2. CASE Packages \/ Components \/ Cleanup
    BY <1>2, PackagesTraced, ComponentsTraced
  <1>3. CASE Reconciling
    BY <1>3, BeginReconcileTraced, NothingToRefreshTraced, ReconcileMcpTraced,
       RestoreMissingTraced, ReconcileChildTraced, VerifyTraced, WriteManifestTraced
    DEF Reconciling
  <1>4. CASE Removing
    BY <1>4, BeginRemoveTraced, RemoveChildTraced, RemoveMcpTraced, RemoveManifestTraced,
       KeepManifestTraced
    DEF Removing
  <1>5. CASE Undo \/ EndUndo \/ Rollback \/ Restore
    BY <1>5, UndoTraced, EndUndoTraced, RollbackTraced, RestoreTraced
  <1>6. CASE EndPi \/ KillPi \/ PiUser
    BY <1>6, EndTraced, UserTraced
  <1> QED
    BY <1>1, <1>2, <1>3, <1>4, <1>5, <1>6 DEF PiNext

LEMMA TraceStutters ==
    ASSUME TraceIInv, UNCHANGED piVars
    PROVE  TraceIInv'
  BY DEF piVars, TraceIInv, Undisturbed, Midway, Undoes, Uncovered, RollsBack

(* Pi's integration: while nothing was disturbed, the files are what the   *)
(* manifest says of them; what a phase has changed is in its journal as it *)
(* was; and a rollback ends with the snapshot.                             *)
THEOREM TraceInvariance == PiSpec => []TraceIInv
  <1>1. PiInit => TraceIInv
    BY TraceBegins
  <1>2. PiIInv /\ TraceIInv /\ [PiNext]_piVars => TraceIInv'
    BY TraceSteps, TraceStutters
  <1> QED
    BY <1>1, <1>2, PiInvariance, PTL DEF PiSpec

LEMMA NoTraceLeft ==
    ASSUME PiIInv, TraceIInv
    PROVE  FailureLeavesNoTrace
  <1>1. ASSUME pi.pc = "undo", DOMAIN pi.journal = {}, ~ pi.trouble
        PROVE  piFiles = pi.begun.files /\ manifest = pi.begun.manifest
    BY <1>1, Undone0
  <1>2. ASSUME NoPhaseLeft, pi.rolling, ~ pi.trouble
        PROVE  Restored(pi, piFiles, manifest, source)
    BY <1>2 DEF NoPhaseLeft, TraceIInv, RollsBack
  <1> QED
    BY <1>1, <1>2 DEF FailureLeavesNoTrace, Restored

(* Only the end of a removal drops the manifest in a removal.              *)
LEMMA OriginalsLeft ==
    ASSUME PiIInv, TraceIInv, [PiNext]_piVars
    PROVE  LeavesOriginals
  <1> SUFFICES ASSUME manifest # NoFile, manifest' = NoFile, pi.pc = "remove", ~ disturbed,
                      NEW p \in Paths \ drifted
               PROVE  piFiles[p] = original[p]
    BY DEF LeavesOriginals
  <1>1. RemoveManifest
    <2>1. PiNext
      BY DEF piVars
    <2>2. ~ (BeginCommand \/ Packages \/ Components \/ Cleanup \/ Reconciling \/ BeginRemove)
      BY DEF BeginCommand, BeginPi, Packages, Components, Cleanup, InPhase, Reconciling,
             BeginReconcile, NothingToRefresh, ReconcileMcp, RestoreMissing, ReconcileChild,
             Verify, WriteManifest, AtStep, BeginRemove
    <2>3. ~ (Undo \/ EndUndo \/ EndPi \/ Rollback \/ Restore \/ KillPi \/ PiUser)
      BY DEF Undo, EndUndo, AtStep, EndPi, Rollback, NoPhaseLeft, Restore, InPhase, KillPi,
             PiUser, EditHome, UpdatePackage, PiEdit
    <2>4. ~ (RemoveChild \/ RemoveMcp \/ KeepManifest)
      BY DEF RemoveChild, RemoveMcp, KeepManifest, GiveBack, WriteHome
    <2> QED
      BY <2>1, <2>2, <2>3, <2>4 DEF PiNext, Removing
  <1>2. OwnedPaths(pi.held) = {}
    BY <1>1 DEF RemoveManifest
  <1>3. /\ Removes(pi, piFiles, manifest, original, drifted)
        /\ Sound(pi.begun.files, manifest, original, drifted)
    BY RemovesSound
  <1>4. CASE p \in OwnedPaths(manifest)
    BY <1>2, <1>3, <1>4 DEF Removes
  <1>5. CASE p \notin OwnedPaths(manifest)
    BY <1>2, <1>3, <1>5 DEF Removes, Sound, OwnersOf
  <1> QED
    BY <1>4, <1>5

(* Removals and failures of Pi's integration leave things as they were     *)
(* found.                                                                  *)
THEOREM LeavingSafety == PiSpec => LeavesAsFound
  <1>1. PiIInv /\ TraceIInv /\ PiIInv' /\ TraceIInv' /\ [PiNext]_piVars
            => FailureLeavesNoTrace' /\ LeavesOriginals
    <2>1. PiIInv /\ TraceIInv => FailureLeavesNoTrace
      BY NoTraceLeft
    <2>2. PiIInv' /\ TraceIInv' => FailureLeavesNoTrace'
      BY <2>1, PTL
    <2> QED
      BY <2>2, OriginalsLeft
  <1> QED
    BY <1>1, PiInvariance, TraceInvariance, PTL DEF PiSpec, LeavesAsFound
=============================================================================
