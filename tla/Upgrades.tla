------------------------------- MODULE Upgrades -------------------------------
(***************************************************************************)
(* How the program and the tools it manages are brought up to date: the    *)
(* version check, the self-update before a command, `gentle-ai upgrade`,   *)
(* the upgrade from the terminal interface, and one strategy for each way  *)
(* a tool may be installed.  A program may be killed between any two       *)
(* steps.  The snapshot taken before an upgrade is in ConfigCommands.      *)
(***************************************************************************)
EXTENDS StateFile, Naturals

CONSTANTS
    Processes,      \* programs that may run at once
    Machines,       \* the computers, each with what is installed on it
    MaxReleases,    \* bound on the releases of a tool
    MaxCommands     \* bound on the commands

VARIABLES
    machine,        \* the computer, which does not change
    binary,         \* the executable found for each tool, on PATH
    staged,         \* <path of the program>.new, or Nothing
    released,       \* the latest release of each tool
    assets,         \* engram's latest release has its binaries
    npm,            \* the latest version of the plugin's package on npm
    procs,
    commands        \* how many have been started

upgradeVars == <<file, machine, binary, staged, released, assets, npm, procs, commands>>

Product == "gentle-qe"
Registry == <<Product, "engram", "gga", "plugin">>
Tools == {Registry[i] : i \in 1 .. 4}

(* An executable.  A version is a number; "main" and "dev" are built from  *)
(* source, the first with its commit; "odd" prints no version; a plugin    *)
(* that is "registered" has not been fetched yet.                          *)
Build(v, form) == [v |-> v, form |-> form]
Runs(b) == b.form \in {"release", "main", "dev"}
Nothing == Build(0, "absent")

Forms == {"release", "main", "dev", "odd", "registered", "absent", "torn"}
Builds == [v : Nat, form : Forms]

(* What may be installed at first: anything whole, and nothing built from  *)
(* the main branch that is newer than its head.                            *)
Whole(b) ==
    /\ b.form # "torn"
    /\ b.form = "registered" => b.v = 0
    /\ b.form = "main" => b.v <= 1

(* A computer: its system and channel, whether a plugin manager is found,  *)
(* whether the user answers yes, whether another engram is before the one  *)
(* installed, and what brew and PATH say of each tool.                     *)
Computers ==
    [windows : BOOLEAN, beta : BOOLEAN, manager : BOOLEAN, answers : BOOLEAN, shadowed : BOOLEAN,
     listed : [Tools -> SUBSET {"formula", "cask"}],
     active : [Tools -> {"none", "formula", "cask"}],
     tools : {ts \in [Tools -> Builds] : \A t \in Tools : Whole(ts[t])}]

ASSUME UpgradesAssumption ==
    Machines \subseteq Computers /\ MaxReleases \in Nat /\ MaxCommands \in Nat

(* found is what the check said of each tool, todo the tools to upgrade,   *)
(* report what became of them; got is the archive fetched, and where the   *)
(* file being extracted now lies.                                          *)
NoProcess ==
    [pc |-> "idle", op |-> "none", by |-> Nothing, found |-> <<>>, todo |-> {},
     report |-> {}, got |-> Nothing, where |-> "none"]

In(p, pc) == procs[p].pc = pc
Set(p, g) == procs' = [procs EXCEPT ![p] = g]
Move(p, pc) == Set(p, [procs[p] EXCEPT !.pc = pc])
Leave(p) == Set(p, NoProcess)

-----------------------------------------------------------------------------
(* The check.                                                              *)

(* What brew lists under a tool's name, and whose directory its executable *)
(* on PATH lies in: it is brew's only if the two agree.  Brew is not asked *)
(* about the plugin.                                                       *)
Ownership(t) ==
    IF t = "plugin" \/ machine.listed[t] = {} THEN "none"
    ELSE IF machine.active[t] \in machine.listed[t] THEN machine.active[t]
    ELSE "unclear"

(* The newest release that is neither a draft nor a preview and, of        *)
(* engram's, not one of the other packages of its repository.              *)
FetchLatestRelease(t) == released[t]

(* The same for engram's downloader, which passes over a release whose     *)
(* binaries are not there (yet).                                           *)
FetchLatestEngramVersion ==
    IF assets THEN released["engram"] ELSE released["engram"] - 1

(* The program's own version is that of its build.                         *)
Installed(t, by) == IF t = Product THEN by ELSE binary[t]

(* Faulty: any release but the one installed is offered.                   *)
CompareVersionsUnordered(local, remote) ==
    IF local = remote THEN "up-to-date" ELSE "update-available"

CompareVersions(local, remote) ==
    IF local >= remote THEN "up-to-date" ELSE "update-available"

UsesBetaMainHeadCheck(t, by) == t = Product /\ (machine.beta \/ by.form = "main")

MainHeadStatus(local) ==
    CASE local.form = "dev" -> "dev-build"
      [] local.form = "main" ->
             IF local.v = FetchLatestRelease(Product) THEN "up-to-date" ELSE "update-available"
      [] OTHER -> "version-unknown"

CheckSingleTool(t, by) ==
    LET local == Installed(t, by) IN
    IF Ownership(t) = "unclear" THEN "check-failed"
    ELSE IF UsesBetaMainHeadCheck(t, by) THEN MainHeadStatus(local)
    ELSE CASE local.form = "absent" -> "not-installed"
           [] local.form = "registered" -> "registered-not-materialized"
           [] local.form = "dev" -> "dev-build"
           [] local.form \in {"odd", "torn"} -> "version-unknown"
           [] OTHER -> CompareVersions(local.v, FetchLatestRelease(t))

(* lost are the tools whose remote did not answer.                         *)
CheckFiltered(targets, by, lost) ==
    [t \in targets |->
        [status |-> IF t \in lost THEN "check-failed" ELSE CheckSingleTool(t, by),
         latest |-> FetchLatestRelease(t), main |-> UsesBetaMainHeadCheck(t, by)]]

Are(found, statuses) == {t \in DOMAIN found : found[t].status \in statuses}
CheckFailures(found) == Are(found, {"check-failed"})

(* A check has answered: recorded unless a tool failed, or the state file  *)
(* cannot be decoded.                                                      *)
Record(found) ==
    IF CheckFailures(found) = {} /\ file # Corrupt
    THEN Write([Held(file) EXCEPT !.recent = TRUE])
    ELSE UNCHANGED file

(* Every command but update and upgrade begins with a self-update, unless  *)
(* the build is "dev" or the user opted out; a torn program does not start.*)
StartCommand(p, op) ==
    /\ In(p, "idle") /\ commands < MaxCommands /\ Runs(binary[Product])
    /\ op = "self" => binary[Product].form # "dev"
    /\ Set(p, [NoProcess EXCEPT !.pc = "check", !.op = op, !.by = binary[Product]])
    /\ commands' = commands + 1
    /\ UNCHANGED <<file, machine, binary, staged, released, assets, npm>>

(* The self-update and the interface ask the remote at most once in the    *)
(* cooldown; without an answer nothing is offered.                         *)
CheckWithCooldown(p) ==
    /\ In(p, "check") /\ procs[p].op \in {"self", "tui"}
    /\ IF Readable(file) /\ file.recent
       THEN Move(p, "dispatch") /\ UNCHANGED file
       ELSE \E lost \in {{}, {Product}} :
              LET found == CheckFiltered(IF procs[p].op = "self" THEN {Product} ELSE Tools,
                                         procs[p].by, lost)
              IN  /\ Record(found)
                  /\ Set(p, [procs[p] EXCEPT !.pc = "offer", !.found = found])
    /\ UNCHANGED <<machine, binary, staged, released, assets, npm, commands>>

(* The user is asked; without a terminal the answer is no.                 *)
Answer(p) ==
    /\ In(p, "offer")
    /\ \/ Move(p, "dispatch")
       \/ /\ procs[p].op = "self" =>
                machine.answers /\ procs[p].found[Product].status = "update-available"
          /\ Move(p, "execute")
    /\ UNCHANGED <<file, machine, binary, staged, released, assets, npm, commands>>

(* `gentle-ai upgrade [tool...]` always asks, and stops if a check failed. *)
CheckForUpgrade(p, targets) ==
    /\ In(p, "check") /\ procs[p].op = "upgrade"
    /\ \E lost \in {{}, targets} :
         LET found == CheckFiltered(targets, procs[p].by, lost) IN
         IF CheckFailures(found) # {} THEN Leave(p)
         ELSE Set(p, [procs[p] EXCEPT !.pc = "execute", !.found = found])
    /\ UNCHANGED <<file, machine, binary, staged, released, assets, npm, commands>>

-----------------------------------------------------------------------------
(* The executor: tools one after the other, in the order of the registry.  *)
Entry(p, t, status) ==
    [tool |-> t, status |-> status, latest |-> procs[p].found[t].latest,
     main |-> procs[p].found[t].main]

Execute(p) ==
    /\ In(p, "execute")
    /\ LET found == procs[p].found
           hinted == Are(found, {"dev-build", "version-unknown"})
           todo == Are(found, {"update-available", "registered-not-materialized"})
       IN  \E dryRun \in IF procs[p].op = "upgrade" THEN BOOLEAN ELSE {FALSE} :
             Set(p, [procs[p] EXCEPT
                 !.pc = "next",
                 !.todo = IF dryRun THEN {} ELSE todo,
                 !.report = {Entry(p, t, "skipped") :
                                t \in hinted \cup IF dryRun THEN todo ELSE {}}])
    /\ UNCHANGED <<file, machine, binary, staged, released, assets, npm, commands>>

(* The tool in hand: the first of those left, in the registry's order.     *)
First(todo) == Registry[CHOOSE i \in 1 .. 4 :
    /\ Registry[i] \in todo
    /\ \A j \in 1 .. (i - 1) : Registry[j] \notin todo]
Hand(p) == First(procs[p].todo)

(* The tool in hand is done with, and the next one's turn.                 *)
Settled(p, status) ==
    [procs[p] EXCEPT !.pc = "next", !.todo = @ \ {Hand(p)}, !.got = Nothing, !.where = "none",
                     !.report = @ \cup {Entry(p, Hand(p), status)}]
Settle(p, status) == Set(p, Settled(p, status))

Owned(t) == Ownership(t) \in {"formula", "cask"}

Strategy(t, main) ==
    IF Owned(t) THEN "brew"
    ELSE IF main /\ ~machine.windows THEN "go-install-main"
    ELSE CASE t = "plugin" -> "plugin"
           [] t = Product -> IF machine.windows THEN "installer" ELSE "binary"
           [] t = "engram" -> "engram"
           [] t = "gga" -> "script"

(* The turn of a tool with this strategy.                                  *)
Turn(p, strategy) ==
    /\ In(p, "next") /\ procs[p].todo # {}
    /\ Strategy(Hand(p), procs[p].found[Hand(p)].main) = strategy

Put(t, b) == binary' = [binary EXCEPT ![t] = b]

(* Faulty: brew's exit status is believed.                                 *)
VerifiedByBrew(p, t, v) == TRUE

(* What `brew upgrade` brings depends on how stale its cache is.  Only a   *)
(* cask is looked at afterwards, and the program, which has no command to  *)
(* detect itself, then always fails.                                       *)
Verified(p, t, v) ==
    Ownership(t) = "formula" \/ (t # Product /\ v = procs[p].found[t].latest)

BrewUpgrade(p) ==
    /\ Turn(p, "brew")
    /\ LET t == Hand(p) IN
       \/ Settle(p, "failed") /\ UNCHANGED binary
       \/ \E v \in binary[t].v .. released[t] :
              /\ Put(t, Build(v, "release"))
              /\ Settle(p, IF Verified(p, t, v) THEN "succeeded" ELSE "failed")
    /\ UNCHANGED <<file, machine, staged, released, assets, npm, commands>>

(* The main branch of the module this program is built from, which keeps   *)
(* its upstream name: what is installed is the upstream program,           *)
(* `gentle-ai`, beside this one.                                           *)
GoInstallMainUpgrade(p) ==
    /\ Turn(p, "go-install-main")
    /\ \E status \in {"succeeded", "failed"} : Settle(p, status)
    /\ UNCHANGED <<file, machine, binary, staged, released, assets, npm, commands>>

(* The installer is started and the program exits for it, so the tools     *)
(* that were to follow are not upgraded.  scripts/install.ps1 installs the *)
(* upstream program too, in a directory of its own.                        *)
InstallerUpgrade(p) ==
    /\ Turn(p, "installer")
    /\ \/ Settle(p, "failed")
       \/ Set(p, [Settled(p, "succeeded") EXCEPT !.todo = {}])
    /\ UNCHANGED <<file, machine, binary, staged, released, assets, npm, commands>>

ScriptUpgrade(p) ==
    /\ Turn(p, "script")
    /\ \/ Settle(p, IF machine.windows THEN "skipped" ELSE "failed") /\ UNCHANGED binary
       \/ /\ ~machine.windows
          /\ Put("gga", Build(procs[p].found["gga"].latest, "release"))
          /\ Settle(p, "succeeded")
    /\ UNCHANGED <<file, machine, staged, released, assets, npm, commands>>

(* The package manager brings what npm calls the latest, whichever release *)
(* the check found on GitHub, and the cache may then not let itself be     *)
(* cleared.  A plugin that has gone meanwhile is skipped.                  *)
PluginUpgrade(p) ==
    /\ Turn(p, "plugin")
    /\ \/ \E status \in {"failed", "skipped"} : Settle(p, status) /\ UNCHANGED binary
       \/ /\ machine.manager
          /\ Put("plugin", Build(npm, "release"))
          /\ \E status \in {"succeeded", "failed"} : Settle(p, status)
    /\ UNCHANGED <<file, machine, staged, released, assets, npm, commands>>

(* Engram's own downloader asks for the release again and installs to a    *)
(* directory of its own, which PATH may not reach first; on the beta       *)
(* channel it builds from source.                                          *)
FetchEngram(p) ==
    /\ Turn(p, "engram")
    /\ \/ Settle(p, "failed")
       \/ Set(p, [procs[p] EXCEPT !.pc = "place", !.got =
                     Build(FetchLatestEngramVersion, IF machine.beta THEN "dev" ELSE "release")])
    /\ UNCHANGED <<file, machine, binary, staged, released, assets, npm, commands>>

PlaceEngram(p) ==
    /\ In(p, "place")
    /\ \/ Settle(p, "failed") /\ UNCHANGED binary
       \/ /\ Settle(p, "succeeded")
          /\ IF machine.shadowed THEN UNCHANGED binary ELSE Put("engram", procs[p].got)
    /\ UNCHANGED <<file, machine, staged, released, assets, npm, commands>>

-----------------------------------------------------------------------------
(* The program itself: fetch, verify, extract to <path>.new and rename.    *)
Download(p) ==
    /\ Turn(p, "binary")
    /\ \/ Settle(p, "failed")
       \/ \E form \in {"release", "torn"} :
              Set(p, [procs[p] EXCEPT !.pc = "verify",
                          !.got = Build(procs[p].found[Product].latest, form)])
    /\ UNCHANGED <<file, machine, binary, staged, released, assets, npm, commands>>

VerifyChecksum(p) ==
    /\ In(p, "verify")
    /\ \/ Settle(p, "failed")
       \/ procs[p].got.form = "release" /\ Move(p, "extract")
    /\ UNCHANGED <<file, machine, binary, staged, released, assets, npm, commands>>

(* Opening <path>.new truncates the file that is there.                    *)
Extract(p) ==
    /\ In(p, "extract")
    /\ staged' = Build(procs[p].got.v, "torn")
    /\ Set(p, [procs[p] EXCEPT !.pc = "extracting", !.where = "new"])
    /\ UNCHANGED <<file, machine, binary, released, assets, npm, commands>>

(* Another process writes to the same file.                                *)
Shared(p) == \E q \in Processes \ {p} : procs[q].where = procs[p].where /\ In(q, "extracting")
Extracted(p) == IF Shared(p) THEN Build(procs[p].got.v, "torn") ELSE procs[p].got

(* The end of the extraction, wherever another's rename has moved the file.*)
ExtractEnds(p) ==
    /\ In(p, "extracting")
    /\ Move(p, "replace")
    /\ staged' = IF procs[p].where = "new" THEN Extracted(p) ELSE staged
    /\ IF procs[p].where = "path" THEN Put(Product, Extracted(p)) ELSE UNCHANGED binary
    /\ UNCHANGED <<file, machine, released, assets, npm, commands>>

(* Faulty: what was extracted before the disk was full is installed.       *)
ExtractFailsUnseen(p) ==
    /\ In(p, "extracting")
    /\ Move(p, "replace")
    /\ UNCHANGED <<file, machine, binary, staged, released, assets, npm, commands>>

ExtractFails(p) ==
    /\ In(p, "extracting")
    /\ Settle(p, "failed")
    /\ staged' = Nothing
    /\ UNCHANGED <<file, machine, binary, released, assets, npm, commands>>

(* The rename takes along whoever still writes to the file.                *)
Moved(where) == CASE where = "new" -> "path" [] OTHER -> "gone"
AtomicReplace(p) ==
    /\ In(p, "replace")
    /\ IF staged = Nothing
       THEN Settle(p, "failed") /\ UNCHANGED binary
       ELSE /\ Put(Product, staged)
            /\ procs' = [q \in Processes |->
                   IF q = p THEN Settled(p, "succeeded")
                   ELSE IF In(q, "extracting") THEN [procs[q] EXCEPT !.where = Moved(@)]
                   ELSE procs[q]]
    /\ staged' = Nothing
    /\ UNCHANGED <<file, machine, released, assets, npm, commands>>

-----------------------------------------------------------------------------
Upgraded(p, t) == \E r \in procs[p].report : r.tool = t /\ r.status = "succeeded"

(* The report is complete.  After a self-update the sync of the new        *)
(* release is left to its next launch; what the interface does is in       *)
(* Operations.                                                             *)
Report(p) ==
    /\ In(p, "next") /\ procs[p].todo = {}
    /\ Move(p, "dispatch")
    /\ IF procs[p].op = "self" /\ Upgraded(p, Product) /\ file # Corrupt
       THEN Write([Held(file) EXCEPT !.pending = TRUE])
       ELSE UNCHANGED file
    /\ UNCHANGED <<machine, binary, staged, released, assets, npm, commands>>

(* The command the user asked for, run by the program that was started.    *)
Dispatch(p) ==
    /\ In(p, "dispatch")
    /\ Leave(p)
    /\ \/ UNCHANGED file
       \/ procs[p].op = "self" /\ Write(Overwritten)
    /\ UNCHANGED <<machine, binary, staged, released, assets, npm, commands>>

Killed(p) ==
    /\ ~In(p, "idle")
    /\ Leave(p)
    /\ UNCHANGED <<file, machine, binary, staged, released, assets, npm, commands>>

(* Bound: one tool is released again in a behaviour.                       *)
Publish(t) ==
    /\ released[t] < MaxReleases /\ \A u \in Tools \ {t} : released[u] = 1
    /\ released' = [released EXCEPT ![t] = @ + 1]
    /\ IF t = "engram" THEN assets' \in BOOLEAN ELSE UNCHANGED assets
    /\ UNCHANGED <<file, machine, binary, staged, npm, procs, commands>>

(* The plugin's package is published apart from its release, before it or  *)
(* after it.  Bound: as above.                                             *)
PublishPackage ==
    /\ npm < MaxReleases /\ \A u \in Tools : released[u] = 1
    /\ npm' = npm + 1
    /\ UNCHANGED <<file, machine, binary, staged, released, assets, procs, commands>>

UploadAssets ==
    /\ ~assets /\ assets' = TRUE
    /\ UNCHANGED <<file, machine, binary, staged, released, npm, procs, commands>>

CooldownEnds ==
    /\ Readable(file) /\ file.recent
    /\ Write([file EXCEPT !.recent = FALSE])
    /\ UNCHANGED <<machine, binary, staged, released, assets, npm, procs, commands>>

UpgradeInit ==
    /\ file \in {Missing, Corrupt}
    /\ machine \in Machines
    /\ binary = machine.tools
    /\ staged = Nothing
    /\ released = [t \in Tools |-> 1]
    /\ assets = TRUE
    /\ npm \in {machine.tools["plugin"].v, machine.tools["plugin"].v + 1}
    /\ procs = [p \in Processes |-> NoProcess]
    /\ commands = 0

UpgradeNext ==
    \/ \E p \in Processes :
         \/ \E op \in {"self", "tui", "upgrade"} : StartCommand(p, op)
         \/ \E targets \in {Tools, {Product}, Tools \ {Product}} : CheckForUpgrade(p, targets)
         \/ CheckWithCooldown(p) \/ Answer(p) \/ Execute(p) \/ Report(p) \/ Dispatch(p)
         \/ BrewUpgrade(p) \/ GoInstallMainUpgrade(p) \/ InstallerUpgrade(p)
         \/ ScriptUpgrade(p) \/ PluginUpgrade(p) \/ FetchEngram(p) \/ PlaceEngram(p)
         \/ Download(p) \/ VerifyChecksum(p) \/ Extract(p) \/ ExtractEnds(p)
         \/ ExtractFails(p) \/ AtomicReplace(p) \/ Killed(p)
    \/ CooldownEnds \/ UploadAssets \/ PublishPackage \/ \E t \in Tools : Publish(t)

UpgradeSpec == UpgradeInit /\ [][UpgradeNext]_upgradeVars

-----------------------------------------------------------------------------
(* Properties.                                                             *)

(* Download "replaces the installed binary atomically": wherever an        *)
(* upgrade fails or is killed, the executable on PATH is a whole one.      *)
BinaryIsWhole == \A t \in Tools : binary[t].form # "torn"

(* A tool reported as upgraded is at the version the check promised, or a  *)
(* later one, except where the code leaves the version to another: to      *)
(* brew's formula, to engram's downloader, to npm; and except where what   *)
(* it installs is another program: from the main branch, and on Windows.   *)
Vouched(r) ==
    /\ Ownership(r.tool) # "formula"
    /\ r.tool = Product => ~machine.windows /\ ~r.main
    /\ r.tool = "engram" => Ownership(r.tool) = "cask"
    /\ r.tool # "plugin"
SuccessIsInstalled ==
    \A p \in Processes : \A r \in procs[p].report :
        r.status = "succeeded" /\ Vouched(r) => binary[r.tool].v >= r.latest

(* What app/selfupdate.go:205 says of a self-update that has succeeded,    *)
(* "The new binary runs automatically on next launch", brew and the        *)
(* installer (which comes after the program) left out: what the next       *)
(* launch runs is at the version it was reported to be at.                 *)
NewBinaryRunsNext ==
    \A p \in Processes : \A r \in procs[p].report :
        /\ procs[p].op = "self" /\ r.tool = Product /\ r.status = "succeeded"
        /\ ~machine.windows /\ ~Owned(Product)
        => binary[Product].v >= r.latest

(* No upgrade puts an older release in the place of a newer one, such as   *)
(* one that has not been published.                                        *)
KeepsReleases == \A t \in Tools : binary'[t].v >= binary[t].v

UpgradesAreSound == [][SuccessIsInstalled' /\ KeepsReleases]_upgradeVars
=============================================================================
