------------------------------ MODULE Application ------------------------------
(***************************************************************************)
(* Launches of the program without arguments: it reads the state file,     *)
(* runs a sync left over from an earlier launch, shows the terminal        *)
(* interface and starts the update check.  Quitting, or being killed, ends *)
(* whatever operations are still running.                                  *)
(***************************************************************************)
EXTENDS Terminal

CONSTANTS
    MaxLaunches,     \* bound on the launches
    InitialFiles     \* the state files the first launch may find

ASSUME ApplicationAssumption == MaxLaunches \in Nat /\ InitialFiles \subseteq StateFiles

VARIABLES
    phase,       \* "off", "deferred" (the sync before the interface) or "tui"
    launches,
    held,        \* installedState: the state read at the launch
    owed         \* history: a sync is due at the next launch, because the one
                 \* after an upgrade was skipped in the program replaced

vars == <<file, cmds, replaced, m, yanked, phase, launches, held, owed>>

Idle == [s \in Slots |-> NoCommand]

Init ==
    /\ file \in InitialFiles
    /\ cmds = Idle
    /\ replaced = FALSE
    /\ m = InitialModel
    /\ yanked = FALSE
    /\ phase = "off"
    /\ launches = 0
    /\ held = ZeroState
    /\ owed = (Readable(file) /\ file.pending)

(* A file that is missing or cannot be decoded reads as the zero state.    *)
Launch ==
    /\ phase = "off" /\ launches < MaxLaunches
    /\ launches' = launches + 1
    /\ held' = IF Readable(file) THEN file ELSE ZeroState
    /\ replaced' = FALSE
    /\ m' = InitialModel
    /\ yanked' = FALSE
    /\ IF held'.pending
       THEN phase' = "deferred" /\ cmds' = Spawn(Idle, Started("deferred"))
       ELSE phase' = "tui" /\ cmds' = Spawn(Idle, Started("check"))
    /\ UNCHANGED <<file, owed>>

(* Faulty: the state is written back as it was read.                       *)
FinishDeferredUncleared ==
    /\ phase = "deferred" /\ cmds["first"].pc = "done"
    /\ owed' = (owed /\ ~cmds["first"].ok)
    /\ IF cmds["first"].ok THEN Write(held) ELSE UNCHANGED file
    /\ phase' = "tui"
    /\ cmds' = Spawn(Idle, Started("check"))
    /\ UNCHANGED <<replaced, m, yanked, launches, held>>

(* The sync has ended.  On success the state read before it is written     *)
(* back without the marker.                                                *)
FinishDeferred ==
    /\ phase = "deferred" /\ cmds["first"].pc = "done"
    /\ IF cmds["first"].ok
       THEN /\ Write([held EXCEPT !.pending = FALSE])
            /\ held' = [held EXCEPT !.pending = FALSE]
            /\ owed' = FALSE
       ELSE UNCHANGED <<file, held, owed>>
    /\ phase' = "tui"
    /\ cmds' = Spawn(Idle, Started("check"))
    /\ UNCHANGED <<replaced, m, yanked, launches>>

Operate(s) ==
    /\ phase # "off"
    /\ Work(s)
    /\ owed' = (owed \/ (cmds[s].op = "upgradeSync" /\ cmds'[s].product))
    /\ UNCHANGED <<m, yanked, phase, launches, held>>

Interact == phase = "tui" /\ Key /\ UNCHANGED <<phase, launches, held, owed>>

Deliver(s) == phase = "tui" /\ Receive(s) /\ UNCHANGED <<phase, launches, held, owed>>

(* The process ends because the interface quit, or is killed at any point. *)
Exit ==
    /\ phase # "off"
    /\ phase' = "off"
    /\ cmds' = Idle
    /\ m' = InitialModel
    /\ yanked' = FALSE
    /\ UNCHANGED <<file, replaced, launches, held, owed>>

(* The cooldown runs out between two launches.                             *)
TimePasses ==
    /\ phase = "off" /\ Readable(file) /\ file.recent
    /\ Write([file EXCEPT !.recent = FALSE])
    /\ UNCHANGED <<cmds, replaced, m, yanked, phase, launches, held, owed>>

Next ==
    \/ Launch \/ FinishDeferred \/ Interact \/ Exit \/ TimePasses
    \/ \E s \in Slots : Operate(s) \/ Deliver(s)

(* The scheduler runs the goroutines and the program's loop takes their    *)
(* messages; nothing obliges the user.                                     *)
Fairness == \A s \in Slots : WF_vars(Operate(s)) /\ WF_vars(Deliver(s))

Spec == Init /\ [][Next]_vars
FairSpec == Spec /\ Fairness

-----------------------------------------------------------------------------
(* Properties.                                                             *)

Exclusive == {"sync", "upgrade", "upgradeSync", "uninstall", "install"}
InFlight(ops) == {s \in Busy : cmds[s].op \in ops}

(* At most one operation that writes configuration is in flight, although  *)
(* Welcome clears running without asking, and the guards look at running   *)
(* and never at each other.  A restore, which sets no flag, voids it once  *)
(* its message arrives behind another screen.                              *)
OperationsExclusive == yanked \/ Cardinality(InFlight(Exclusive)) <= 1

(* The marker is on disk only while a sync is due: none that succeeded     *)
(* comes back through a stale copy of the file, and no upgrade of other    *)
(* tools leaves it.                                                        *)
MarkerMeansOwed == Readable(file) /\ file.pending => owed

(* An operation that runs ends, and the interface is told, unless it quits *)
(* first.                                                                  *)
OperationEnds == m.running ~> (~m.running \/ phase = "off")

(* What cooldown.go says of the update check: it re-reads the state "to    *)
(* avoid clobbering unrelated fields written concurrently".  The marker of *)
(* a due sync is such a field: only that sync, or a complete install, may  *)
(* take it away.                                                           *)
MarkerSurvives ==
    [][Readable(file) /\ file.pending =>
           \/ file' = Overwritten \/ file'.pending
           \/ phase = "deferred" /\ cmds["first"].pc = "done" /\ cmds["first"].ok]_vars
=============================================================================
