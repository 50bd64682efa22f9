# Specifications of gentle-ai

gentle-ai configures coding agents: it installs and updates their
configuration files, with backups and a rollback, and it keeps a *review
authority* for the repositories they work in: a record, under `.git`, of what
was reviewed, what was found, how it was corrected and whether it may be
delivered. This directory holds TLA+ specifications of the review authority, of
the status that is built on it, of the configuration commands and of the program
around them, the TLC runs that check them on small instances, and TLAPS proofs
about them. Paths below are relative to the repository; `rt/` stands for
`internal/reviewtransaction/`.

## 1. The system

### 1.1 The review authority

| Part | State it keeps | Operations | Source |
|---|---|---|---|
| compact record | one `CompactState`: frozen scope, tier and budget, reviewer results, correction attempts, evidence, verdict | complete-review, begin-fix, complete-fix, complete-verification, invalidate, `Validate` | `rt/compact.go`, `rt/risk.go` |
| compact store | `v2/<lineage>/review-state.json` and `review-receipt.json`, one shared `v2/LOCK` | `Replace` (compare and swap by content hash), `RecoverCompactAuthority`, discovery, leaves, export and import | `rt/compact_store.go`, `rt/store_lock.go`, `writeAtomic` in `rt/store.go` |
| review commands | a copy of one record in memory | `review start`, `finalize`, `invalidate`, `recover`, `validate`, `bind-sdd` | `internal/cli/review_facade.go` |
| delivery gate | none; reads store, Git and release files | post-apply, pre-commit, pre-push, pre-PR, release | `rt/compact_gate.go`, `rt/gate.go`, `rt/prepr.go` |
| snapshots | none; trees and paths derived from Git | current changes, base diff, fix diff | `rt/snapshot.go` |
| v1 transaction and chain | hash-linked events and a `HEAD` file | append, invalidate, load, receipts, bundles | `rt/transaction.go`, `rt/store.go`, `rt/bundle.go` |
| v1 receipt's gate | none; a request file that may be kept and used again | the same five gates for a receipt of schema v1 | `rt/gate.go`, `rt/native_request.go`, `rt/prepr.go` |
| SDD status and binding | one binding file per change | bind, validate, status | `internal/sddstatus/` |

How they interact. A command loads a record **without a lock**, changes a copy
through the handlers, and calls `Replace`, which takes the one lock **without
waiting**, re-reads the record, compares its content hash with the one loaded,
checks that the operation may lead from the one to the other, and renames a
temporary file over it. `finalize` does that up to four times in a row and then
writes the receipt without the lock. `recover` starts a new lineage whose record
embeds the hash of its predecessor, so records form a graph; discovery refuses
to work on a graph with a dangling link, a fork or a cycle. `validate` reads
receipt, record, graph and repository one after the other, decides, takes the
lock, reads everything again and only then allows. Reviews of schema v1 are still
read: a load replays every event of their chain through the handlers, and
`validate` judges their receipts without a lock. `sdd-status` reads a change's
artifacts, its binding to a lineage and the post-apply gate's answer, and tells
the agent which phase comes next; `bind-sdd` publishes the binding under a lock
of its own.

What is hard about it: overlapping processes between the lock-free load and the
compare; death of a process at any step, with a half-written file or a verdict
without a receipt; a repository that changes while a gate looks at it; long
legal sequences of attempts, verdicts and recoveries; two copies of the same
rules, in the handlers and in `Validate`, that must agree; and an agent that
acts on an answer that was true when it was given.

What makes it right: an approval is earned; corrections stay inside scope,
budget and three attempts; verdicts, predecessors and receipts never change; the
graph never becomes undiscoverable; receipts agree with records; no update is
lost; an allow is backed by an unsuperseded approval and is what was reviewed; a
change is archived only on such an authority, and is archived in the end.

### 1.2 The configuration commands

| Part | State it keeps | Operations | Source |
|---|---|---|---|
| pipeline | results of the steps of one execution | prepare, apply, rollback of a plan, under two failure policies | `internal/pipeline/` |
| backups | `~/.gentle-ai/backups/<id>/` with `manifest.json` and `snapshot.tar.gz` | snapshot, deduplication, retention, pin, rename, delete, restore | `internal/backup/` |
| install, sync | the pipeline and the manifest of their own backup | plan with a snapshot in the prepare stage and a restore step first in the apply stage | `internal/cli/run.go`, `sync.go` |
| upgrade, uninstall | none beyond the backup | snapshot, then changes without a rollback | `internal/update/upgrade/executor.go`, `internal/components/uninstall/service.go` |
| planner | none | closes a selection under dependencies and orders it | `internal/planner/` |
| prompt files | one text per agent, with sections between markers | persona, SDD, Engram and guidance steps, their removal | `internal/components/{persona,sdd,engram,communitytool,uninstall}`, `filemerge/section.go` |
| OpenCode plugins | tui.json, package.json, two directories | install, uninstall through the mutation journal | `internal/components/opencodeplugin`, `mutationjournal` |
| component files | the JSON, TOML and YAML settings, skills, commands and prompt files of sixteen agents | one injector per component, one cleaner per component | `inject.go` of each `internal/components/*`, `uninstall/service.go`, `internal/agents/*/adapter.go` |
| Pi's CodeGraph integration | a manifest of what it changed | reconcile, refresh, uninstall | `internal/components/communitytool/pi_codegraph.go` |

How they interact. A command takes a snapshot of the files it manages, unless
the most recent backup has the same checksum, prunes old backups and then
changes files. In install and sync this is a plan of steps that the pipeline
executes; when an apply step fails, the succeeded ones are rolled back last
first, and the restore step, which is the first of the apply stage and does
nothing when it runs, is the last to be rolled back and puts every file back.
Backups have no lock: command line, terminal interface and user work on the
same directories. The steps that write files are many small editors of shared
text: several components write into one agent's prompt file, several agents may
share one file, and the user writes there too.

What is hard about it: any step, rollback, deletion or write may fail or be the
last thing a killed process does; a skipped snapshot makes one command depend on
another's backup, which retention, a pin or a deletion may touch; the screen acts
on a list that is out of date; what an editor finds in a file was left there by
other versions, other components or the user, with markers lost.

What makes it right: before a file is changed a backup holds it; a failed
execution undoes exactly what it applied, in reverse; a restored rollback
restores everything; pruning spares pins and the newest; what was asked for
stands in the file once and current, what the user wrote stays, and an uninstall
leaves nothing behind.

### 1.3 The program around them

| Part | State | Operations | Source |
|---|---|---|---|
| state file | `~/.gentle-ai/state.json` | read, change in memory, replace whole | `internal/state` |
| operations | goroutines with the copy of the state file they hold | check, upgrade, sync, upgrade and sync, install, uninstall, restore | `internal/tui/model.go`, `internal/app/app.go` |
| terminal interface | one screen, the operations it knows of, what was chosen so far | keys and messages; the wizard's chain of screens, forward and backward | `internal/tui/` |
| application | the launch | deferred sync, interface, end | `internal/app/app.go` |

What is hard about it: operations report by messages while keys go on; the state
file is read, changed and rewritten by several of them without a lock; the
marker of a pending sync is written by one launch and cleared by the next; a wizard whose screens depend on
what was chosen before must find the same way back, and what it offers must be
what is current when it is carried out.

`PROJECT.json` lists every component with its status, and the hazards of the
code, each at its line, with the properties that cover it.

## 2. The plan

In order of importance, what is done and what is left:

1. done: `CompactState`, `CompactReview`, refining `ReviewLifecycle`, with proofs;
2. done: `CompactAuthority` (all lineages, atomic commands) with its proofs;
3. done: `CompactStore` (concurrent, crashing processes), proved to refine it;
4. done: `CompactGate` (validators against a moving authority and repository)
   with its proofs;
5. done: `Pipeline`, `Backups` and `ConfigCommands` with their proofs;
6. done: `SddStatus` and `SddReview` (the agent's loop over a change, on top of
   the gate), whose binding is proved to implement `BindingRegister`;
7. done: `LegacyTransaction`, `LegacyStore` and `LegacyGate` (schema v1);
8. done: `StateFile`, `Operations`, `Terminal`, `Application` and `Navigation`;
9. done: `Upgrades`, run with `ConfigCommands` in `MCMaintenance`;
10. done: `Planner`, `PromptFile` and `ManagedFiles`; `Adapters` and
    `ComponentFiles`; `MutationJournal` with `OpenCodePlugin`; `PiCodeGraph`;
11. left: `CompactTransport` (export and import between two clones), the choice of
    a lineage without `--lineage`;
12. left: commands that overlap, and edits during a command, in `ConfigCommands`;
    profiles and the agent builder's installer;
13. done: the proofs of schema v1's transaction, chain and gate, of the application's
    operations, of the upgrades, of a plugin's removal, and of the user's work in Pi's
    files and what Pi's integration leaves.

## 3. The modules

```
ReviewLifecycle  <--implements--  CompactReview ---\
                                                    +--- CompactState (data, handlers, Validate)
CompactAuthority (atomic commands) ----------------/
   ^ implements          ^ extends
CompactStore          CompactGate

LegacyTransaction --- LegacyStore     LegacyGate          (schema v1)

BindingRegister  <--implements--  SddReview --- SddStatus (what comes next)

Pipeline (one execution) ------------\
                                      +--- ConfigCommands
Backups (the disk) ------------------/

Planner -----\
PromptFile ---+--- ManagedFiles        Adapters --- ComponentFiles
MutationJournal --- OpenCodePlugin     PiCodeGraph     Upgrades

StateFile --- Operations --- Terminal --- Application        Navigation
```

For TLC, systems that share no state are put into one run, a behaviour of which
picks one of them: `MCReviewRecords` (a compact record, a v1 transaction, v1
chains, a v1 gate), `MCMaintenance` (configuration commands, upgrades, screens,
component files) and `MCAgentFiles` (prompt files, an OpenCode plugin, Pi).

The theorems are in modules of their own, one or two components in each:
`CompactStateProofs` (lemmas about the record's handlers), `ReviewRecordsProofs` (one
compact review, and schema v1's chain and gate), `CompactAuthorityProofs`,
`CompactStoreProofs`, `CompactGateProofs`, `SddReviewProofs`, `ConfigCommandsProofs`
(the pipeline, the commands) and `ProgramProofs` (the application, upgrades, a plugin's
removal, Pi's integration).

The review authority:

* **CompactState** has no variables. A record is a TLA+ record with the fields
  of the Go struct; each handler is a guard `...Allowed` and an operator that
  yields the record it leaves; `Valid` is `CompactState.Validate`, cut into
  named parts in the order of the code. Every Go handler works on a copy and
  ends in `return state.Validate()`, so a step needs both the guard and `Valid`
  of the result. (`Invalidate` is the exception, in the code and here.)
* **ReviewLifecycle** is the promise of one review without its bookkeeping:
  reviewers speak once, at most three attempts within one budget, a final
  verdict, withdrawal only before the review has begun.
* **CompactReview** drives one record through the handlers. A correction may
  leave any tree behind; the safety properties and the refinement mapping to
  `ReviewLifecycle` are here.
* **CompactAuthority** has `authority` (lineage to the record in its file, as a
  set with at most one member) and `receipts`. Each command is one action;
  `Recover` is `RecoverCompactAuthority`. `Revision(s)` stands for the SHA-256
  of the record and is injective.
* **CompactStore** adds `lock`, `residue` (directories with an abandoned
  `.atomic-*` file) and `proc`, the local state of each process: `Begin...` is
  the lock-free load, `Drive` computes finalize's next operation, `Acquire`,
  `Check`, `Publish`, `Release` and `Fail` are the steps of the write path,
  `WriteReceiptFile` the lock-free receipt, `Crash` the death of a process at
  any point (the system drops its lock). `Fail` stands for every error under
  the lock, also for a directory sync that fails after the rename.
* **CompactGate** adds a repository (the commits from the merge base to HEAD,
  the advertised tip of the publication branch, the working tree, the release
  artifacts) that changes freely, and validators that go through the steps of
  `EvaluateCompactGate`. The authority moves by the atomic commands, which may
  write only while no validator holds the lock (receipts excepted): that is
  what `CompactStore` shows of the real processes.
* **SddStatus** is `Resolve` without state: which phases of a change are ready,
  blocked or done and which one is recommended, as a function of what was read.
* **SddReview** has the change, the authorities, the binding with its lock, and
  the two kinds of processes: the agent (`sdd-status`, step by step: artifacts
  and binding, discovery, gate, answer; then it does what it was told) and the
  binders (`bind-sdd`: gate, load, lock, compare, publish). Reviews conclude and
  supersede each other meanwhile, and binders crash. A v1 transaction beside the
  change does not move: v1 is read-only (`ErrLegacyReadOnly`).
* **BindingRegister** is what binders promise: a compare-and-swap register.
* **LegacyTransaction** is the review of schema v1: each handler with its guard
  (ordinary, Judgment Day and release-critical reviews), the validity of a
  persisted transaction, its receipt, and the replay of a step, which is what a
  load asks of every event. **LegacyStore** has the chain in each clone: the
  sessions of an earlier version that append, and the current program, which
  loads, invalidates a pristine review, exports and imports. Processes are killed
  at every step. **LegacyGate** builds and evaluates a request for a v1 receipt,
  fresh or saved earlier, while the working tree, the commits, the advertised
  branches and the configuration of the remotes change.

The configuration commands:

* **Pipeline** has one variable, `exec`: the plan, the stage and the results so
  far. `Prepare` and `Apply` are one iteration of `Runner.Run`, `Undo` one of the
  loop of `ExecuteRollback`, the `End...` actions what `Orchestrator.Execute`
  does between the stages. The outcome of a step is arbitrary; plans are a
  parameter.
* **Backups** has the files and the backup directories, and what one call does
  to them: an archive, a manifest (written in place), a checksum, the choice of
  what to prune, a deletion, a restore. It has no actions of its own.
* **ConfigCommands** composes the two. `Begin` starts an install (from the
  command line or from the terminal interface, which collects errors), a sync, an
  upgrade or an uninstall. `Deduplicate`, `CreateArchive`, `WriteManifest`,
  `Annotate`, `Prune`, `DeleteBackup` and `EndPrune` are the snapshot;
  `SnapshotFails`, `AnnotateFails` and `DeleteFails` its failures; in install and
  sync they run inside the prepare stage. `ApplyComponent`, `ApplyGuidance` and
  their rollbacks are conjoined with the actions of `Pipeline`; `Change` is what
  upgrade and uninstall do to files. `Crash` kills the command anywhere. Between
  commands the user edits, restores and uses the Backups screen, whose list
  (`listed`) is as old as the last time it was filled.
* **Upgrades** is one tool or the program itself, upgraded: the check (its
  cooldown, what Homebrew says, what the installed program answers), the plan made
  of it, each strategy (a formula, a cask, a package of Go, a download, a script,
  a hint), and for the two downloaders the extraction, the check and the rename
  through `<path>.new`. Releases appear and package managers refresh at any time;
  a `Machine` says where the tool was installed from and what PATH finds. The program
  is the file that PATH finds under the product's name (`tui/branding.go`), and
  `GoInstallMainUpgrade` and the Windows installer, which install the upstream
  `gentle-ai`, leave it as it is. npm's `@latest` and GitHub's newest release
  (`PublishPackage`) move apart.
* **Planner** is the closure of a selection under dependencies, the topological
  order and the soft ordering, as functions.
* **PromptFile** has the text of a prompt file as a sequence of tokens (a
  section's opener, closer and body, headings, user text) and the functions that
  edit it: `InjectMarkdownSection` with its repairs, the strip functions, the
  cleaners. **ManagedFiles** runs installs, syncs and uninstalls over the files of
  agents of every kind, one component on one file per step, among a user who adds
  text and loses markers.
* **MutationJournal** is the journal of before-images: capture, the compare that
  precedes a write, a write that may fail before or after its rename, removal,
  restoration with its own compare. **OpenCodePlugin** is a plugin's way in and
  out, on the journal, while the user and OpenCode edit the same files. A file
  has the entries the program reads and the `odd` ones it does not: a list that is
  written again keeps the former only (`stringSlice`).
* **Adapters** has, for each of sixteen agents, the files and strategies its
  adapter answers with, and **ComponentFiles** what each component's injector puts
  into them, in the order of the code, which files a command backs up, and what an
  uninstall of chosen components from chosen agents removes, operation by
  operation. A file is the set of what is in it; an install is one step, an
  uninstall one step per operation and may be killed between two, and run again.
* **PiCodeGraph** is the reconciliation of Pi's overlays and MCP entry, their
  refresh, rollback and removal.

The program:

* **StateFile** is the file, **Operations** the goroutines that read and rewrite
  it, **Terminal** the screens that start them and wait for them, **Application**
  a launch: the deferred sync, the interface, its end, and being killed.
* **Navigation** has the chain of screens of the wizard and of the shortcuts into
  it, for the upstream installer and for the QE one: `Enter`, `Esc` and the
  `Back` rows, and the messages that arrive in between, as functions of what was
  chosen. `Terminal` has which operations run, `Navigation` what they are offered.

The **MC...** modules give the constants their values for TLC.

Operators introduced by a comment `Faulty:` are not used by any specification.
Each is a plausible bug of the definition that follows it, kept to confirm that
the property it is paired with in `PROJECT.json` notices it.

### Abstractions

The review authority. A tree is a function from paths to contents. The number of
lines changed between two trees and the risk tier are functions of the two trees
(constants `DiffLines` and `ClassifiedRisk`, with assumptions as weak as the
code's: a count of zero for equal trees, a known tier). A fix-delta hash is the
snapshot it is a hash of. Optional values are sets of at most one member;
optional line counts use `Nil`. Six causal dispositions are merged into the three
that `CompleteReview` tells apart. Policy bytes, claims and proof text,
follow-ups a targeted validation adds, intended-untracked lists (copied unchanged
from the initial snapshot) and traces are left out. One derivation of the live
target in the gate is atomic: the code reads Git several times inside it.

SDD. A report is denied on a review that does not allow, and only once what the
call went by does not either; a failure that was found by running something is one
value, whatever it is. One post-apply gate is one step, which is what `CompactGate` shows of an
allow; the denial that lock contention causes is folded into the denials. The
ledger's mirror and v1 receipts are left out; artifacts and binding are read in
one step; an invalidated review behaves like one that escalated without a
receipt.

Backups. A backup's identifier is the time it was taken, so identifiers grow; a
checksum is the set of files it was computed over with their contents; `Writes`
lets a component leave any managed file in any state, also when it fails. A
component is taken to write only files its command has backed up
(`backupTargets`, `syncBackupTargets`); the guidance step, which does not, keeps
what it found. Modes, descriptions, directories in place of files, and the plain
backups of old versions are left out.

Prompt files. A token stands for a run of lines; blank lines and front matter are
left out; agents differ by the strategy their file is written with (VS Code and
Kiro behave like the replacing ones). An uninstall edits agent by agent where the
program goes path by path. Commands do not overlap here.

Component files. A JSON file is the set of its keys, a prompt the set of its
sections, a TOML file that of its tables; files that are written as one (the
skills of a kind, the commands of an agent) are one; what is in a section is in
`PromptFile`. A file that an editor cannot parse is kept apart, as the editors
fail on it or replace it. The install is the global one with a workspace, strict
TDD and the single SDD mode; directories are left out, and so are `state.json`
and Pi's CodeGraph, which have modules of their own. An uninstall takes the paths
in one fixed order; the code sorts them. What older versions wrote and the program
still looks for is in two places, Claude Code's own Context7 file and VS Code's first
persona file; each is found as that version left it, with the user's additions, or
as a file of the user's. The merges that tolerate a settings file that does not parse
and those that do not are one operation: `MergeJSONObjects` starts such a file anew
for both.

Schema v1. A hash is the thing hashed, so a revision is the history it ends;
ledgers, proofs and fix deltas are kept as far as the validity of a transaction
tells them apart. In the gate a commit is the trees up to it, policy, ledger,
evidence and fix-delta files are one file that agrees with the receipt or not;
intended-untracked lists and the digests of bundles are left out. A reading of
the repository is atomic.

Screens. The inner cursors of a picker are left out: a screen is left with any of
the choices it offers.

Pi. The backup of an install is assumed to have been taken and not skipped as a
duplicate (that case is in `ConfigCommands`); the restore goes through its files
in any order (the code ranges over a map); what the probes of packages and
configuration answer is nondeterministic, and so is whether a removal can capture
the files of its manifest; user edits fall between commands.

Plugins. Of an entry it is kept whether the program reads it and which plugin it
names; order and repetitions are left out. An odd entry is told from its neighbours
by the plugin it is for.

Upgrades. A version is a number. The plugin's package is published with its release or
after it and never taken back, and the plugin is not newer than the package;
GitHub's releases appear one after the other.

## 4. The runs

| Run | What it checks | Bounds | States |
|---|---|---|---|
| `review` | routing of every finding; no record a handler builds is refused; whole histories of attempts: scope, budget; `ReviewLifecycle` is implemented. Schema v1: no handler makes what a load refuses (`HandlersAreReplayed`), chains only grow and load, an allow is of what was reviewed | 2 lenses, 2 findings in all classes, causalities and refuter answers; 2 paths of 3 contents (9 trees) per attempt; forecasts 0 to 3 around a cap of 2. Transactions of every mode and tier, 2 findings, 1 defect of a correction, 3 fix snapshots, lines 0 to 2 around a budget of 1; chains in 2 clones, 2 sessions, 3 events; the v1 gate with 3 reviews, 2 remotes, 3 commits, 2 moves and 1 saved request | 3.9 million |
| `store` | lock, compare and swap, recovery graph, discovery, receipts, immutability under interleaving and crashes; `CompactAuthority` is implemented | 2 processes, 3 lineages, 3 generations, reviews that are corrected, escalate or are withdrawn | 738 thousand |
| `store_rescope` | recovery of an approved review after its scope changed; every command ends | 2 processes, 2 lineages, fair | 84 thousand |
| `gate` | four gates under edits, commits, resets, branch and artifact movement, supersession | 1 validator; 3 working trees, 3 commits, 3 tips, 2 artifacts, 2 lineages | 1.2 million |
| `config_backups` | a rollback path before every change, complete rollback and restore, correct pruning; executables stay whole, an upgrade that reports success did install what it said and nothing is downgraded (`UpgradesAreSound`); in the wizard, back undoes forward (`BackIsReverse`) and what is offered is what was asked for (`OfferIsCurrent`); a backup has what a command changes (`ChangesAreBackedUp`), an uninstall keeps what others need (`OthersKept`) and removes what was chosen (`UninstallRemoves`) | 3 commands of 5 kinds, 2 files that exist or not, 1 backup kept, every failure and crash, every operation of the screen; or 2 upgrades of the program and a tool on computers of every sort, with a release between; or both flows of the wizard with 3 agents, both kinds of stores and 1 operation in flight; or each of 16 agents, a pair that shares its prompt file and a pair that shares nothing, all components, 4 uninstalls, killed anywhere and run again, in a fresh, a used and a broken home | 4.7 million |
| `config_duplicate` | finds a counterexample, see section 6 | 2 installs, no fault | |
| `upgrade_race` | finds a counterexample, see section 6 | 2 processes that upgrade the program | |
| `upgrade_beta` | finds a counterexample, see section 6 | 1 process, a program built from the main branch | |
| `application` | operations exclude one another (`OperationsExclusive`) and end (`OperationEnds`); the marker of a pending sync stands while one is owed (`MarkerMeansOwed`) | 2 launches from every kind of state file, every order of keys, messages, quits and kills | 501 thousand |
| `app_marker` | finds a counterexample, see section 6 | 1 launch | |
| `agent_files` | sections stand once and current, user text stays, syncs settle, uninstalls clean up; plugins are removed whole or not at all and foreign edits survive (`RemovalIsClean`); Pi's integration keeps the user's work, leaves no trace when it fails and gives back what it took (`LeavesAsFound`) | 3 commands and 1 edit on one prompt file per kind of agent; 2 plugin operations and 1 edit; 2 Pi commands and an edit between them; every failing step and kill | 4.2 million |
| `sdd` | archive and verification only on an authority good during the call, a failed report verified again only with another review or its own remediation (`VerifyIsEarned`); the binding is a register; a change with a standing review is archived, unless its failure is one that stays blocked | 1 change in 2 homes, 7 settings: without a v1 transaction, or with one that fixed this failure or another one, waits, verifies, fixes or is approved; 2 reviews, 2 binders, 2 trees, 1 disturbance (none in the setting with a mirror) | 645 thousand |

Why the bounds are enough. Three attempts are the code's own limit, and a cap
of two lines with forecasts from zero to three and edits of up to two lines per
path meets every side of the budget comparison (below, at, above, and a charge
that overruns a forecast that fitted); that a forecast of exactly what is left is let
through is explored, but a handler that refused it would only escalate sooner, which
no property forbids. Two processes are enough for every race
on one compare and swap because the critical sections are serialised by the
lock; a third lineage lets two recoveries compete for one predecessor and lets
a recovered lineage be recovered again. Two paths let an edit meet, miss or
partly meet the reviewed scope. A recovery after `scope_changed` is in
`store_rescope` and in the proof of `RecoveryIsJustified`, not in `store`. `MaxGeneration` (recoveries stop there) and
`MaxCommits` are the only bounds of the review modules that cut behaviour off;
both appear as guards. The `CorrectionsAlone` constraint of the store run leaves
out the histories in which a lineage is corrected while another lineage exists
as well: corrections touch one record only, and without it the run takes ten
times as long to say the same.

In the gate run the working tree and the published branch move among trees that
carry the reviewed change alone, with an unreviewed one, and that touch the
reviewed path or only another. The pipeline's safety properties
are checked with the plans of install and sync, and proved for plans of any length. For the configuration commands `MaxBackups` is
the number of commands: with one backup kept, the second snapshot already
prunes, and the third command meets whatever the first two and the screen left.
Two files let a restore stop half way. `Retention` is 5 in the code; nothing but
its comparison with a count depends on it.

An upgrade meets every machine of `MCUpgrades`: each way a tool can have been
installed, ahead of or behind the release, found first by PATH or not. One release
more than the one that was found is what tells a promised version from the
newest, and a second command meets what the first left.

In the wizard the three agents are the ones a screen is shown for (Claude's and
OpenCode's models, Pi's packages); the others take the same way. Of the component
files every agent is set up alone, because two agents meet only in a shared file;
one pair shares a prompt file, another shares none. In `agent_files` the appending
strategy is met on the file that Gemini and Antigravity share; Windsurf's file, which is
appended to and shared with nobody, is not in the run. The four uninstalls are all
components, a pair of components that share a file, a pair one of which has no
file of its own, and one with a single key in a settings file. For schema v1 two
clones and two sessions are what an append that lost a race needs, and three
events let a chain fork after a common prefix (the constraint `ChainsAreOfLowRisk`
begins every chain with the review of a low risk: what a step of a review may be is what
the transactions are about); two moves let the repository leave
the state that was validated and return to it.

In `application` two launches are what a marker needs: one that writes it and
one that clears it. The constraint `RestoreWatched` leaves out the states after
a restore's message has pulled the interface from another screen, from where
operations do overlap (section 6). In `agent_files` three commands are an
install, a sync that meets its output and an uninstall, or two syncs that repair
what the user broke in the first; larger instances were explored without a
violation: two edits and two runs for the plugin (15 million states), three
commands with an edit between any two for Pi (23 million), and three forms of a
child agent (10 million). The planner is checked by assumptions of
`MCAgentFiles`, on the program's graph and on all graphs of three components with
all selections. In `sdd` one disturbance (a review that is superseded, a tree
that is edited, a binding that is replaced) may fall into every step, in every setting but
the one with a mirror.

Symmetry is used in the store run, which has no liveness property (processes, and
the lineages nobody starts, are interchangeable), and in `config_duplicate`
(contents are). Deadlock is not checked where the system stops for good: once
every lineage has a verdict and a receipt and the generations are used up (the
store runs), when an execution has ended and `MaxBackups` is reached, when the
launches and commands are used up, when the change is archived.
(`CompactReview` has an explicit `Finished` step for the same reason, so that
there any other deadlock, a wedged review, is found.)

Fairness. `FairStoreSpec` assumes weak fairness of `Step(p)` only: the operating
system goes on scheduling a command that has started. Nothing obliges anybody to
start one, and crashes are never assumed to happen or not to happen. Under it
`CommandsEnd` holds because `acquireStoreLock` gives up instead of waiting.
`FairSpec` of `Application` assumes it of the steps of each operation that is
running and of the delivery of its message: goroutines and the event loop are
scheduled. `FairSpec` of `SddReview` assumes weak fairness of the agent's steps
(somebody asks it again, and it does what it is told; told that it is blocked it
changes nothing and stops, `Await`) and of the steps of a binder, and
strong fairness of a binder starting with the binding that is current: somebody
who is refused because another binder was faster reads the new revision and
tries again, again and again, so that one attempt is not overtaken. Nobody is
obliged to bind beside a denied report (`NoDenial`), and the promise says of such a
change that it has no binding: with one, the status does not recover from the report
(section 6). What
`StandingReviewArchives` assumes beyond that it says itself: the change is kept in
`openspec/`, no v1 transaction is left in `fixing`, and from some point on a
review of the live tree stands while the report, if there is one, passes, was denied
on another review (`Recoverable`), or awaits a remediation that the transaction
admits. A failure that was found by running something stays blocked, as the
specification of the recovery wants
(`openspec/changes/sdd-compact-authority-recovery`), and is promised no end.

## 5. The proofs

A theorem here holds for every value of the constants: any sets of lineages,
processes, lenses, findings, paths and files, histories and plans of any length,
any number of commands. From the constants only the named assumptions are used, which
TLC evaluates on the instances. Every invariant below was first checked with TLC on a
run.

No property that matters is inductive by itself. Each component has one
invariant that is, whose conjuncts are named for what they say; a lemma per
action, or per kind of action, shows that it is kept, and the properties follow
from it. `[s EXCEPT ...]` says nothing of a value of unknown shape, so each
invariant begins with the types.

### 5.1 One review

The first part of `ReviewRecordsProofs`, with the lemmas about each handler in `CompactStateProofs`:

| Theorem | Statement |
|---|---|
| `ReviewInvariance`, `ReviewTypeCorrectness` | `Spec => []ReviewIInv`, `Spec => []TypeOK` |
| `ScopeSafety` | `Spec => []CorrectionStaysInScope` |
| `ApprovalSafety` | `Spec => []ApprovalIsEarned` |
| `NoWedge` | `Spec => []HandlersMeetValidate` |
| `LifecycleRefinement` | `Spec => ImplementsLifecycle` |

One would like to say that a record is right because every handler ends in
`Validate`. That is not enough: `Validate` sees one record, and the scope of a
correction is a relation between the first snapshot, the last one and the tree on
disk. `ReviewIInv` adds what the validator does not ask: that a record under review
has produced nothing yet (`Untouched`), that the current tree differs from the
reviewed one within the genesis paths only (`InScope`), and how many corrections
have been tried (`Tries`): at most three, fewer while another is required, at
least one where a correction is recorded, and the last one of a record that is
validated or approved passed both of its checks. The validator leaves the last two
open because it also accepts records from before attempts were kept.

`NoWedge` compares the two copies of the rules. It has one lemma per handler
(`...Meets`): for any input the guard accepts, in any reachable state, the record
that results passes every part of `Validate`. The budget is a sum over the
attempts; as there are at most three, `LinesCharged` is unrolled, and no induction
is needed.

### 5.2 All reviews

`CompactAuthorityProofs`, about the atomic commands:

| Theorem | Statement |
|---|---|
| `Invariance`, `TypeCorrectness` | `Spec => []IInv`, `Spec => []AuthorityTypeOK` |
| `GraphSafety` | `Spec => []GraphStaysValid` |
| `RecoverySafety` | `Spec => []RecoveryIsJustified` |
| `ReceiptSafety` | `Spec => []ReceiptMatchesRecord` |
| `VerdictSafety` | `Spec => VerdictsImmutable` |

A link is exact only as long as the predecessor does not move, so `IInv` says of
every link that the predecessor still carries the verdict its disposition asked
for (`RecoveryIsJustified`), of every record that it has the shape and the name of
its directory (`Identified`), of the graph that it has no fork
(`Unforked`), and of every receipt that it is the receipt of a record with a
verdict (`ReceiptsAreVerdicts`: a receipt of an open record would be wrong one
step later). `StepKinds` sorts the eight commands into four kinds of steps: one
advances a record that is not closed and keeps its identity, one creates a first
record, one recovers from a closed one, one writes a receipt; one lemma per
kind shows that it keeps `IInv`. Because a closed record is never advanced,
links stay exact. The absence of cycles is not part of `IInv`: it follows
(`AcyclicByGeneration`) from generations that grow by one along every link, as a
closed set of lineages would have a member of least generation but that member's
predecessor has a lesser one. `VerdictSafety` uses that the predecessor of a link is
closed, so that only a first record could be written over a superseded one,
and that needs an empty lineage.

`CompactStoreProofs`, about the processes:

| Theorem | Statement |
|---|---|
| `StoreInvariance` | `StoreSpec => []StoreIInv` |
| `StoreRefinement` | `StoreSpec => ImplementsAuthority` |
| `StoreGraphSafety`, `StoreRecoverySafety`, `StoreReceiptSafety`, `StoreVerdictSafety` | the four properties above, of the disk under any interleaving with crashes |
| `StoreRecordsValid` | every record on disk passes `Validate` |

`StoreIInv` is `IInv`, the validity of every record (`RecordsValid`), the lock with its one holder, and what each process knows at
each of its steps: what it has prepared is a handler's result on what it loaded
(`Prepared`), a verdict in the copy it works on is still the one on disk (`Loaded`), what it has checked under the lock still holds while it
has the lock (`Authorized`), and a process between its rename and its release,
where a failing directory sync reports an error for a write that happened, has
installed what it prepared (`Installed`). A record that was loaded without the lock and compared under it
is the one on disk, and so `Publish` is the atomic command it was prepared for; every
other step, a crash in particular, changes nothing the authority can see. The
safety properties are then those of the atomic commands.

`CompactGateProofs`, about validators among moving repositories:

| Theorem | Statement |
|---|---|
| `GateInvariance` | `GateSpec => []GateIInv` |
| `AllowSafety` | `GateSpec => []AllowIsBacked` |
| `DeliverySafety` | `GateSpec => AllowedDeliveryIsReviewed`, of every step that allows, at all five gates |

`GateIInv` adds to `IInv` what a validator has established by each step
(`Checks(v)`: the record approves, the target is decided, the leaf is found) and
that there is always a base to publish onto (`RangeOK`). Between its second
reading and its answer a validator holds the lock (`LockHeld`), so the record and
its leaf stand. The repository does move in between, and what is delivered is
judged of the instant of the second reading: the verdict depends on history only
through the merge base, which no step gives up.

### 5.3 The status of a change

`SddReviewProofs`, for any number of binders, reviews and disturbances:

| Theorem | Statement |
|---|---|
| `SddInvariance` | `Spec => []SddIInv` |
| `ArchiveSafety` | `Spec => []ArchiveIsEarned` |
| `VerificationSafety` | `Spec => []VerifyIsEarned` |
| `BindingRefinement` | `Spec => ImplementsRegister` |

A status call reads artifacts and binding, then the gate, and the world moves
between the readings. Two things do not move back: a review that was settled
stays settled, and one that was superseded stays superseded. So a review that was
not superseded at the gate's second reading was not at its first one either,
and what the call has concluded by each step can be said of its past: `CallOK` does,
with a history variable that counts how far the call has found binding and review to
agree (`held`). Trying to prove `ArchiveIsEarned` as it was
first stated, that one instant of the call had binding, tree and review right
together, showed that it is false once a binding or a file may change twice and
come back during a call, which the instance for TLC was too small for. It now says
what the call does establish: during it the binding named the authority, the authority
stood while it was named, and the tree matched before and after. `VerifyIsEarned`
speaks of the report as well: an applied change that has none is verified on an authority
of the call or a waiting v1 transaction, and one whose report failed only when another
review than the denied one is good now, or when a complete remediation is bound to this
very failure. `BindingOK` says
that there is at most one binding, and that a binder that has compared holds the
lock and finds the binding it expects until it publishes; the refinement maps a publication to
the register's compare-and-swap, all else to a stutter.

### 5.4 The configuration commands

The first part of `ConfigCommandsProofs`, for any set of plans, of any length, any failure policies and
either rollback policy:

| Theorem | Statement |
|---|---|
| `PipelineTypeCorrect` | `Spec => []PipelineTypeOK` |
| `RollbackIsComplete` | `Spec => []RollbackComplete` |
| `RollbackIsOrdered` | `Spec => []RollbackOrdered` |
| `ApplyIsGuarded` | `Spec => []ApplyGuarded` |

`PipelineInv` has, beside the types and what each stage implies about the earlier
ones, the meaning of the rollback's cursor `exec.undo`: the steps undone so far
are exactly those above the cursor that must be undone, in decreasing order.
Completeness follows when no such step is left below it, and order because the
next step lies below all of them.

The second part, for any files and contents, any sets of targets, any
faults, any number of commands, backups and operations of the screen, and plans
that begin their apply stage, and only that, with the restore step:

| Theorem | Statement |
|---|---|
| `CommandInvariance` | `CommandSpec => []CommandIInv` |
| `RollbackPathSafety` | `CommandSpec => []RollbackPathGuarded` |
| `RestoreSafety` | `CommandSpec => []RollbackRestoresTargets` |
| `CommandRollbackComplete` | `CommandSpec => []RollbackComplete` |
| `PruneSafety` | `CommandSpec => PruneIsSafe` |

A manifest may be known to the disk, to a screen's old list, to a command that is
about to delete it or to the one that wrote it, and may be written back to disk by
any of them; so `Described` says of every manifest that anybody knows that its
archive, as long as there is one, is what its checksum says. That a command's own
backup is of what it found follows from its phase: no file is written before the
snapshot is complete (`Unwritten`, which needs the pipeline's invariant to know
that nothing is applied before the prepare stage has succeeded), no other manifest
has its identifier (`Newest`), so no deletion and no pin touches its directory
(`Owned`). `Protected` says that a command that writes has its snapshot or was
taken for a duplicate of the newest backup, whose checksum is then that of what
the command found: by `Described` it brings that back, unless its archive is gone.
`RestoredAtLast` is why the other steps' rollbacks do not matter: the restore step is
the first of the plan, the cursor only falls, so nothing is undone after it.

`PruneIsSafe` counts. What is chosen is chosen once and deleted later, one by
one, so `Pruning` says of every backup still to be deleted that enough newer
unpinned ones exist *that are not to be deleted themselves*. When the list is
made this holds (`PruneChooses`) because all that are newer than the newest chosen
one are kept, and there were enough of those for it to be chosen; afterwards the
kept ones only grow in number.

### 5.5 Schema v1

The rest of `ReviewRecordsProofs`, for any reviews, sessions, clones and length of a
chain, for any histories, remotes and configurations, and for any reviewers' reports,
causes, refuters' answers, corrections and budgets of a transaction:

| Theorem | Statement |
|---|---|
| `ChainInvariance` | `ChainSpec => []ChainIInv` |
| `ChainSafety` | `ChainSpec => ChainsOnlyGrow` |
| `LegacyGateInvariance` | `GateSpec => []LegacyGateIInv` |
| `LegacyDeliverySafety` | `GateSpec => AllowIsReviewed` |
| `ReplayInvariance` | `TransactionSpec => []ReplayIInv` |
| `ReplaySafety` | `TransactionSpec => []HandlersAreReplayed` |

A chain that loads has all of its events on disk and replays, each event from the one
before. The two parts last for different reasons, and `ChainIInv` keeps them apart:
events are never taken away (`Held`), and what a session is about to append was
made by a handler from the chain it loaded, without the lock (`Prepared`). It
replays once that chain is compared with HEAD under the lock. Between the link of
an event and the new HEAD one session holds the lock, so that the HEAD it
compared is still there, and the chain it installs extends it. Killed in between,
a session leaves an event nobody names.

The v1 gate derives its target twice, and in between everything it looked at may
move. `LegacyGateIInv` therefore says what was decided of the *target*, which does not
move, and nothing of the repository (`Judged`); the second derivation has to
give the same target again, and what the property asks of the repository at that
instant is what `Judged` says of the target. That a terminal state is `approved` or
`escalated` is `ReviewsAssumption`.

A transaction is appended only if `validate` accepts what the handler made and the
replay of the operation finds the same successor (`Succeeds`): three copies of the rules,
of which the handlers' is spread over a dozen functions. That they agree is not inductive,
because `validate` asks less than a handler relies on: it accepts, say, rounds of
correction counted before anything is frozen. `Replayable` adds that nothing of a correction
is counted before one has begun (`Uncorrected`), how far the one under way has come
(`Corrects`: the proposal, the tree, the rounds and the validations go in step), and
that a defect to be fixed was severe when it was last reported (`LastSevere`). For each
handler one lemma (`...Effect`) says which fields it changes and another (`...Passes`)
takes what it makes through every part of the validator and of the replay; the twelve
of them meet in `EveryStepPasses`. The proof finds the exception of section 6 and no other:
what is refused is a second report that withdraws a defect (`ReportsTwice`).
`TransactionAssumption` asks what `NewTransaction` enforces, that the lenses are as many as
the mode and the tier call for, and that budgets and line counts are natural numbers.

### 5.6 The program

`ProgramProofs`, for any state file found and any number of launches, and for any
computers, tools and releases:

| Theorem | Statement |
|---|---|
| `ApplicationInvariance`, `ApplicationTypeCorrectness` | `Spec => []ApplicationIInv`, `Spec => []TypeOK` |
| `OperationSafety` | `Spec => []OperationsExclusive` |
| `MarkerSafety` | `Spec => []MarkerMeansOwed` |
| `UpgradeInvariance` | `UpgradeSpec => []UpgradeIInv` |
| `WholeBinary` | `UpgradeSpec => []BinaryIsWhole` |
| `SoundUpgrades` | `UpgradeSpec => UpgradesAreSound` |

Nothing in the program says that operations exclude each other: each is started from a
screen, and a screen is left by keys and by messages. `Shown` says that what is in
flight holds the screen it was started from, so that no other can be started there,
until a restore's message has pulled the interface away (`yanked`, which section 6
is about). The marker is a field of a file that many read, keep and write back
later; `CopiesOwed` says of every copy, on disk, in a goroutine and in the interface,
that it carries the marker only while a sync is owed. What clears the debt clears every
copy, because nothing else is in flight then, which is `OperationsExclusive` again.

An upgrade is proved sound for one process (`Processes = {p}`), and the hypothesis is
needed: with two the run `upgrade_race` finds the counterexample of section 6. Success is
vouched for (`Vouched`) where the code installs the version itself; a formula, Engram's
downloader, npm, the main branch and Windows' installer bring what they bring. The
invariant follows one upgrade: what it promises has been released and is newer than what it
found (`Promised`), what it renames is what it verified (`Fetched`), and the executable
that PATH finds is whole (`Sane`). Of the computers the theorems assume what
`UpgradesAssumption` says: every executable starts out whole and at a version that has
been released. The plugin is never newer than the package npm has, which `UpgradeInit`
and `PublishPackage` say.

### 5.7 An OpenCode plugin

The last part of `ProgramProofs`, for any contents of the files, any number of
installations, removals and edits by others:

| Theorem | Statement |
|---|---|
| `PluginInvariance` | `PluginSpec => []PluginIInv` |
| `RemovalSafety` | `PluginSpec => RemovalIsClean` |

A removal meets files its installation left, files others changed since, and files that
change while it runs. `FilesAsKnown` and `DirsAsKnown` follow what nobody else touched:
at each step it is as it was found or as it is without the plugin, and the journal
decides which; `Journalled` says that the journal holds what was found, so that undoing
gives it back. An edit of others can be lost only in the moment between a comparison and
the write that follows it (`Expected`), and what is staged aside is told apart because
installations are numbered (`Unique`, `AsideAsKnown`). `PluginAssumption` asks that no file
and a broken file are different from each other and from every text.

### 5.8 Pi's CodeGraph integration

Also in `ProgramProofs`, for any installations of Pi the user may have, any number of
commands, edits and kills:

| Theorem | Statement |
|---|---|
| `PiInvariance` | `PiSpec => []PiIInv` |
| `UserWorkSafety` | `PiSpec => []UserWorkKept` |
| `TraceInvariance` | `PiSpec => []TraceIInv` |
| `LeavingSafety` | `PiSpec => LeavesAsFound` |

`UserWorkKept` says of a moment between two commands that every file holds what the user
had in it, and is not inductive: a command rewrites the files from what they hold, from
the manifest's records of what was there before, from a journal of before-images
when a phase fails, and from a snapshot when the whole command is rolled back, after
which the user may edit. `PiIInv` says that each of these sources holds the user's work
as well as the file does (`Keeps`): for the journal `IsLog`, for the snapshot
`Remembers`, and for the records `IsOwned` and `IsLedger`, where what was there before and
what was made of it hold the same notes. A file is taken away only when it is what the
integration made where nothing was; each edit leaves a new note, so nothing a user has
touched since is taken for that (`Differs`). While a command may still be rolled back, the
work of the user is what they have now and what the command found (`Known`). An
uninstall's cleanup comes after the manifest is gone (`Agenda`). `PiAssumption` asks that
`NoFile` is neither a content nor a manifest, and that the installations the program may
find are files with no edit of the user counted yet.

`LeavesAsFound` says two things: a removal leaves every file that nobody else changed as it
would be without the integration, and a phase or a command that fails leaves the files and
the manifest as it found them. `TraceIInv` is what makes both inductive, on top of
`PiIInv`. While no command was killed and no restoration failed, the files are what the
manifest says of them (`Sound`): what it does not own is as it would be, and what it owns
and nobody changed since is as the record says it was left, where the record's other half
is how it would be. Inside a reconciliation the same holds of the manifest that is about to
be written, so a failed write of the manifest needs nothing else; a removal has
given back what it has gone through and no longer holds (`Removes`), and what was recorded
stays recognizable because rendering a rendered child changes nothing (`RenderedTwice`).
Whatever was disturbed, a phase's journal says of each file it changed how it was when the
phase began (`Undoes`), and what a snapshot does not cover was not there and is not touched
(`Uncovered`), except for the overlay of a child that a package brought in the meantime:
that is why `LeavesAsFound` excepts it. A rollback's last phase is the restoration
(`RollsBack`).

### 5.9 What is not proved

`CommandsEnd`, `OperationEnds` and `StandingReviewArchives` stay with TLC, as
liveness under fairness is out of the prover's reach, and so is `ENABLED`. Induction
over data is too: what an edit of a text of any length yields (`PromptFile`), what
the planner's closure and order compute for any graph; these modules, and
`ManagedFiles` over them, use recursion, and are checked only.
Model-checked only, and not out of reach, are the wizard's screens and the component
files, which are tables that TLC reads whole.

## 6. What the checks found

Four statements of the repository are not what the code does; each has a run
that ends in the counterexample.

* **A failed install is not always undone** (`config_duplicate`). When the
  snapshot is skipped as a duplicate, `state.manifest` stays empty and the
  rollback restores nothing, with success, although the identical backup is
  there. The integration test that expects the files back
  (`internal/cli/run_integration_test.go:325-379`) runs without an earlier
  backup, so it never takes this path.
* **The marker of a pending sync may be lost** (`app_marker`). After an upgrade
  the interface starts a check of the tools and, when the user goes on, a sync.
  The check has read the state file, the sync's marker is written, and the check
  writes its copy back, without the marker.
* **An upgrade may install half a program** (`upgrade_race`). Two upgrades at once
  write the same `<path>.new`: the rename of the first installs the file the second
  has just truncated and is still writing. If the second fails then, the program
  does not start any more.
* **The main branch's build updates another program** (`upgrade_beta`). What it is
  offered is the head of its own repository; what `goInstallMainUpgrade` installs is
  the upstream `gentle-ai` (`update/upgrade/strategy.go:492`), under that name. The
  update counts as a success, and the next launch, of which `app/selfupdate.go:205`
  says that the new binary runs, runs the one there was. The Windows installer
  (`scripts/install.ps1:41-43`) installs the upstream program too, although
  `strategy.go:605` says that it replaces the binary.

Met while modelling, without a run of their own.

Review authority:

* An approved review need not be deliverable. A correction may undo the reviewed
  change of a path: it stays inside the genesis paths, which is all
  `CompleteCorrection` asks. The review is approved with the original path digest,
  and every gate compares that digest with the paths that still differ from the base,
  so the approved tree is `scope_changed` at each of them. Nothing in the repository
  promises otherwise; nothing tells the author of such a correction either.
* The gate takes the authority lock without waiting and reports contention as
  `invalidated`, so of two validators that overlap on an approved and unchanged
  target one is denied (`rt/compact_gate.go:130`).
* A transport of a recovered lineage may be imported into a clone that lacks the
  predecessor (`rt/compact_store.go:602`): the link dangles there.
* The pre-PR gate compares the advertised tip with HEAD, two trees, so for a
  branch that does not fork from the reviewed base the comparison may succeed
  although a merge would yield something else; `AllowedDeliveryIsReviewed` leaves
  this case out and says so. The pre-push gate binds the last commit of a
  publication range to the reviewed base and says nothing of the commits before
  that base.
* A passing verification report carries an evidence revision that is compared
  with nothing, although `sdd-verify/references/report-format.md:83` says stale
  evidence fails closed. A change kept in Engram never reaches verification on a
  compact review, and a v1 transaction left in `fixing` recommends remediation
  for ever; `StandingReviewArchives` names both. With a binding present, a
  report that was denied for want of a review is a dead end: the status asks for a
  recovery only where no binding is (`sddstatus/status.go:322-342`), and beside a
  good binding it finds a report and verifies nothing.
  The contract the agents are given makes `verify` ready only on a v1 transaction that
  waits for it (`sdd-status-contract.md:131`); the status makes it ready on a compact
  authority too, as the later recovery change (`sdd-compact-authority-recovery`) allows,
  and `VerifyIsEarned` follows the code and the later of the two.
  `BindApprovedReview` does not ask whether the lineage's paths belong to the
  change. Receipts of earlier changes make discovery ambiguous; a binding
  resolves it.

Backups and commands:

* Pinning an entry of an old list whose backup was pruned writes its manifest
  back without the archive (`backup/manifest.go:107`). When it is the newest
  entry, the next install of the same files is taken for its duplicate and runs
  without any backup. `RollbackPathGuarded`, which holds, says that a newest
  backup without its archive is the only way to get there; a deletion that failed
  half way leaves one too.
* Prune does not look again at what it deletes: a backup pinned meanwhile goes
  (`backup/retention.go:162`). A broken backup counts towards retention like any
  other.
* Backups of no files are never deduplicated: `Create` stores
  `emptyFilesChecksum`, and the value compared with it is the empty string
  (`internal/cli/run.go:613`), against the comment at `backup/snapshot.go:18`.
* The checksum is computed from a second reading of the files
  (`backup/snapshot.go:79`), so an edit between the two makes it describe
  something other than the archive, and the next run's duplicate check with it.
* `WriteManifest` truncates the manifest before it writes it: an annotation that
  fails (`cli/run.go:636`) hides the backup from every listing, and not only its
  label.
* Upgrade goes on when its snapshot fails (`update/upgrade/executor.go:464`), and
  takes one even when it would be a duplicate, against `docs/rollback.md:7-10`.

Schema v1:

* A defect that a correction caused and that is severe in the first re-judgment of
  a Judgment Day may come back without being severe, under the same identifier, in
  the second: `ValidateFixDeltaResult` accepts it and `validate` refuses the result,
  so the event can never be appended. `HandlersAreReplayed` leaves it out.
* Explicit finding identifiers that two lenses share pass `RecordLensResult` and
  can then never be frozen.
* `review-start` and `review-step` refuse a v1 lineage (`ErrLegacyReadOnly`). What
  still reaches these handlers is the replay, the import of a bundle, the
  invalidation of a pristine lineage (`cli/review_facade.go:287`) and the gate on
  a v1 receipt, which takes no lock.

Prompt files:

* A user who loses the closer of the SDD section in an appended file gets, at the
  next sync, a stray body and a second section; the sync after that strips from
  the stray title to the section's marker and with it whatever sections lie
  between, although `sdd/inject.go:2088-2091` says the strip ends at the next
  managed marker. The third sync puts them back. `SyncSettles` therefore promises
  a settled file after two further syncs.
* `stripOrphanMarkers` leaves complete duplicates, which `section.go:228-230`
  says collapse.
* For agents whose file is replaced, a sync with the Gentleman persona overwrites
  the user's text, although `cli/sync.go:275-277` says content outside markers is
  preserved, and installing the persona alone deletes the other sections. A
  preamble that bears the persona's fingerprint is taken off with the user's text
  in it. `UserTextKept` says which files it is about.
* Gemini and Antigravity share `~/.gemini/GEMINI.md`: uninstalling either removes
  the other's sections. The trigger rules and the guidance sections stay after an
  uninstall, and so does the preamble of a file without markers; the GGA files
  and OpenCode's logo are global but go with any agent.
* `install --agent X --persona P` writes persona P and keeps the old one in the
  state file, so the next sync takes it back. `state.go:97` says callers fall
  back to the Gentleman persona; `applyResolvedPersona` falls back to neutral.

Component files:

* A full uninstall of Hermes or Kimi fails half way: the cleaners of persona and
  theme run the JSON editor on `config.yaml` and `config.toml`, and the error leaves
  the state file as it was. Installing the theme overwrites those files with
  JSON.
* An uninstall leaves behind the paths of `Left` in `ComponentFiles`: among
  them the trigger rules, the `share` key, the logo in `tui.json`, the neutral output
  style, Kilocode's settings and plugins, OpenClaw's `mcp.servers.*` and its
  workspace files (it installs there and looks in the home directory), Kimi's modules,
  Codex's Context7, features, permissions and profiles, Hermes' YAML entries,
  and Antigravity's Engram plugin. A directory is tried before the one inside it,
  and stays.
* Uninstalling Skills removes the `judgment-day` skill, which SDD installed too.
  The logo has no owner: the visual polish of any agent removes it. An
  uninstall of all components in the project scope of Engram takes the agent out of
  the state file although its files stay.
* The backup of an install misses files it is about to write: the OpenCode and
  Kilocode settings that SDD merges into, Hermes' YAML, the Engram section of
  prompts that are not made of sections, Codex' hooks and Engram texts, Antigravity's
  plugin, Kimi's modules. `filemerge/json_merge.go:13-16` says that the backup step
  has a snapshot of the file.
* An install for VS Code deletes `~/.github/copilot-instructions.md`, which no backup
  has, as soon as it has two phrases of the first version's persona and no front
  matter (`persona/inject.go:812`), with whatever was written below them; the
  function's comment says that files with user-written content are left untouched.
  `ChangesAreBackedUp` leaves this file out.

OpenCode plugins and Pi:

* A plugin list that is written again, when a plugin is added or removed, loses
  every entry that is not a string, such as a plugin with its options
  (`opencodeplugin/plugin.go:262-274`). A removal does not recognise
  `[package, options]` as the package, although `removeTUIPlugin` speaks of every
  occurrence of it: where that is the only entry it stays and the removal succeeds,
  and where there is a plain one as well the rewrite drops the list's odd entries
  with it. `dependencies` or `devDependencies` of another shape become `{}` in a
  removal (`uninstall.go:185-192`). `RemovalIsClean` promises the entries the program
  reads, and the rest of the file.
* A removal of Pi's integration captures every child of the manifest and may write
  to the roots without a workspace only (`pi_codegraph.go:768-775`): when the manifest
  has a child of a workspace, it fails each time, with nothing changed.
* `WriteWithMode` of the journal may fail after its rename (a directory sync).
  The entry is then not marked as changed, so the restoration skips the file and
  the uninstall reports a complete rollback, although
  `uninstall_opencode_plugin.go` says changes are rolled back on an error. An
  edit between the compare and the rename is lost. A second write to a path is
  compared with the before-image and not with what the journal wrote
  (`journal.go:101`); no caller does that today. A kill leaves
  `.gentle-ai-uninstall-*` directories for good.
* A reconciliation killed before it writes its manifest disowns what it wrote:
  the next one adopts it as the user's, and no uninstall removes it. Its journal
  has no compare: an edit during the command may be overwritten. Engram and
  Context7 write the same `mcp.json` after the reconciliation recorded its hash,
  so an uninstall finds it drifted and leaves the entry. The reconcile step's
  rollback removes what earlier runs made as well, against its comment; the
  backup puts it back. When Pi's packages arrive during a fail-fast install, the
  overlays are in no snapshot and their step has no rollback.

Upgrades:

* The plugin is offered what GitHub's newest release is and installed as npm's
  `@latest` (`update/upgrade/strategy.go:152`); no success vouches for its version.
* The upgrade of the cask of `gentle-ai` is always reported as failed, as the tool
  has no `DetectCmd` to verify it with, so no sync is marked as owed. Nothing
  verifies a formula.
* Engram's downloader asks for the newest release again, although
  `engram/download.go:152` speaks of the same source of truth: it may install an
  older one than the check promised, and in a directory that PATH does not reach
  first.
* `selfUpdate` returns nil after it replaced the program, so the old one then runs
  the command it was started with; an `install` writes the state file anew and
  drops the marker. `gentle-ai upgrade` never writes one. The deferred sync only
  happens when the interface is launched.
* A self-update that was declined or failed is not offered again for six hours.
  The time a user takes to answer counts against the seven seconds of the update.
* On Windows the remaining tools of an upgrade are dropped when one asks the
  program to exit, and the self-update does not exit.
* A beta channel on a program that was released is never upgraded. The interface
  acts on the check made when it started: when another process has upgraded
  meanwhile, it may downgrade.

Screens:

* "& Sync" after a profile was created or deleted starts a sync without marking an
  operation as running, so a second one can be started, and the late message of
  the first clears the overrides meant for the second. The result screen of a
  plugin accepts Enter while an operation runs.
* The agent builder takes the message of a generation that was cancelled for the
  answer of the next one (`tui/model.go:829`).
* Back and Esc disagree: on the model picker without providers, on the leftovers
  of a partial uninstall and on the first step of a profile's creation. The skill
  picker's Back does not know the branch for Kiro.
* The custom preset goes on to the community tools, and not to the component
  selector; its way back skips the optional screens, an empty selection reaches
  the review with the plan of an earlier one, and Pi alone chosen afterwards keeps
  the custom components. The dependency tree goes back to the preset although
  `model_qe.go` says the preset screen is never shown in the QE flow.
* `InstallFlowActive` is never reset. Editing a profile writes the selection's own
  model assignments. The scope question for Engram is decided before "Full" has
  filled in the components.

The program:

* The message of a restore pulls the interface to its result from whatever screen
  it is on, without the screen's cleanup: a sync running behind it is then
  invisible and a second one can be started (`tui/model.go:529`). `Application`
  has this; the run leaves out what follows it.
* A rolled-back install never reaches the Complete screen, whose text for it is
  unreachable. Quitting before the marker is written loses the sync after an
  upgrade. `FinishDeferred` writes back the state it read at the start.

## 7. What is not modelled

* Transports between clones and the choice of a lineage without `--lineage`,
  and incidents (`rt/incident.go`), a predicate that no command asks.
* Git itself, remotes' identities and the signature of the CI attestation: a
  merge is the path-wise merge of disjoint changes, an attestation is the tree
  it attests.
* Commands that overlap, edits and uses of the screen during a command, the
  verification after a run (which does not roll back) and clocks that run back,
  in the configuration commands.
* What a settings file looks like: the JSON, TOML and YAML editors are modelled by
  the keys they add, keep and remove (`Adapters`, `ComponentFiles`), and not by
  the text they parse. The contents of skills and prompts are one value each.
* SDD profiles beyond their screens, the cursor of a list, forms and rendering,
  the agent builder's generation, the skill registry, the verification checks,
  installation scripts and tooling: tables and text manipulation with little state,
  where a model would repeat the code and show little.

## 8. Running

`tlc -config MCStore.cfg MCCompactStore` checks one run (the module and
configuration of each are in `PROJECT.json`), `tlapm CompactAuthorityProofs.tla`
checks the proofs.
