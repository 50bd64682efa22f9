----------------------------- MODULE PiCodeGraph -----------------------------
(***************************************************************************)
(* The CodeGraph integration of the Pi agent through installs, syncs and   *)
(* uninstalls: an entry in Pi's mcp.json, two blocks in each child agent's *)
(* file, and for a child that comes with a package an overlay, as packages *)
(* are not touched. A manifest remembers each of these files as it was and *)
(* as it was left. Engram and Context7 keep their entries in the same      *)
(* mcp.json. Every write may fail, before or after its rename, and the     *)
(* program may be killed between two writes; the user edits between        *)
(* commands.                                                               *)
(*                                                                         *)
(* mcp.json is NoFile or a record: codegraph is its entry ("none", "ours", *)
(* "other"), servers whether the other components' entries are there. A    *)
(* child is NoFile or a record: form is what its front matter says of      *)
(* tools (with "bash", "plain", or malformed, "bad"), proxy whether they   *)
(* list Pi's MCP proxy, tool whether the tool block is there, guide        *)
(* whether the guidance block is ("torn": its end is missing). note stands *)
(* for everything else; each edit makes a new note.                        *)
(***************************************************************************)
EXTENDS Naturals, Sequences

CONSTANTS
    NoFile,
    Children,       \* what users and packages put into a child's file
    InitialHomes,   \* mcp.json, the user's child and the packaged one at first
    MaxPiEdits,     \* bound on edits and package updates
    MaxPiCommands   \* bound on commands

McpFiles(notes) ==
    [codegraph : {"none", "ours", "other"}, servers : BOOLEAN, note : notes]
ChildTexts(notes) ==
    [form : {"bash", "plain", "bad"}, proxy : BOOLEAN, tool : BOOLEAN,
     guide : {"none", "block", "torn"}, note : notes]

ChildFiles == {"overlay", "user"}

(* A manifest: what was recorded of each file, as it was and as it was     *)
(* left.                                                                   *)
Manifests(notes) ==
    LET contents == {NoFile} \cup McpFiles(notes) \cup ChildTexts(notes)
        records  == [before : contents, after : contents]
    IN  [mcp : SUBSET records, children : UNION {[owned -> records] : owned \in SUBSET ChildFiles}]

ASSUME PiAssumption ==
    /\ NoFile \notin McpFiles(Nat) /\ NoFile \notin ChildTexts(Nat)
    /\ NoFile \notin Manifests(Nat)
    /\ Children \subseteq ChildTexts(Nat)
    /\ InitialHomes \subseteq [mcp : {NoFile} \cup McpFiles({0}),
                             user : {NoFile} \cup ChildTexts({0}),
                             packaged : {NoFile} \cup ChildTexts({0})]

VARIABLES
    piFiles,        \* "mcp", the user's child, and the overlay of the packaged one
    source,         \* the packaged child
    manifest,       \* what the integration owns: NoFile or [mcp, children]
    pi,             \* the command that runs, or the last one
    piEdits, piCommands,
    original,       \* observation: the files without the integration
    drifted,        \* observation: files changed by others after they were recorded
    disturbed       \* observation: was a command killed, or a restoration incomplete?

piVars == <<piFiles, source, manifest, pi, piEdits, piCommands, original, drifted, disturbed>>
observed == <<original, drifted, disturbed>>
counted == <<piEdits, piCommands>>

Paths == {"mcp"} \cup ChildFiles

(* Children are taken in the order of their names.                         *)
IsNext(child, children) ==
    child \in children /\ (child = "user" => "overlay" \notin children)

NoEntries == [p \in {} |-> NoFile]

(* f with a value for x, unless it has one.                                *)
WithNew(f, x, value) == [y \in DOMAIN f \cup {x} |-> IF y \in DOMAIN f THEN f[y] ELSE value]

Recorded == IF manifest = NoFile THEN [mcp |-> {}, children |-> NoEntries] ELSE manifest
OwnedPaths(m) == DOMAIN m.children \cup (IF m.mcp = {} THEN {} ELSE {"mcp"})

---------------------------------------------------------------------------
(* Children. *)

(* piChildTools: a child may use CodeGraph when its tools name bash.       *)
Compatible(child) == child.form = "bash"

(* Malformed tools, or a tool block that the tools do not allow.           *)
Misconfigured(child) == child.form = "bad" \/ (child.tool /\ ~ Compatible(child))

(* renderPiChild, and the blocks that are left as they are.                *)
Rendered(child) ==
    IF child.guide # "none" /\ (~ Compatible(child) \/ child.tool)
    THEN child
    ELSE [child EXCEPT !.guide = "block",
                       !.tool = Compatible(child),
                       !.proxy = @ \/ Compatible(child)]

(* An unmatched marker is an error, whatever becomes of the blocks.        *)
Renderable(child) == child.guide # "torn"

(* DiscoverCodeGraphChildren: an overlay hides the packaged child.         *)
Found(child) ==
    IF child = "overlay" /\ piFiles["overlay"] = NoFile THEN source ELSE piFiles[child]

Discovered == {child \in ChildFiles : Found(child) # NoFile}

---------------------------------------------------------------------------
(* A command is a sequence of phases; pc is the next step of the present   *)
(* one. held is the manifest it will write, journal the files as they were *)
(* before it first changed them, queue the children left, bad whether one  *)
(* was misconfigured. worked tells whether the last phase did, failed      *)
(* whether one did not, trouble whether a restoration was incomplete.      *)
(* found and begun, what the command and the phase started from, are       *)
(* observation.                                                            *)
PiIdle ==
    [kind |-> "none", collect |-> FALSE, pc |-> "ended", todo |-> <<>>, held |-> NoFile,
     journal |-> NoEntries, queue |-> {}, bad |-> FALSE, worked |-> TRUE, failed |-> FALSE,
     rolling |-> FALSE, trouble |-> FALSE, found |-> <<>>, begun |-> <<>>]

Phases(kind) ==
    CASE kind = "install"   -> <<"packages", "reconcile", "components", "reconcile">>
      [] kind = "deselect"  -> <<"packages", "components", "remove">>
      [] kind = "sync"      -> <<"components", "refresh">>
      [] kind = "uninstall" -> <<"remove", "cleanup">>

(* The snapshot of an install or a sync covers the files the manifest owns *)
(* and the children discovered before anything was done.                   *)
Snapshot ==
    [files |-> piFiles, manifest |-> manifest, source |-> source,
     original |-> original, drifted |-> drifted,
     covered |-> {"mcp"} \cup DOMAIN Recorded.children \cup Discovered]

BeginPi(kind, collect) ==
    /\ pi.pc = "ended" /\ piCommands < MaxPiCommands
    /\ piCommands' = piCommands + 1
    /\ pi' = [PiIdle EXCEPT !.kind = kind, !.collect = collect, !.pc = "phase",
                            !.todo = Phases(kind), !.found = Snapshot]
    /\ UNCHANGED <<piFiles, source, manifest, piEdits, observed>>

BeginCommand ==
    \/ \E collect \in BOOLEAN : BeginPi("install", collect) \/ BeginPi("deselect", collect)
    \/ BeginPi("sync", FALSE) \/ BeginPi("uninstall", FALSE)

PiGoes(c) == pi' = c /\ UNCHANGED counted
AtStep(pc) == pi.pc = pc
InPhase(phases) == pi.pc = "phase" /\ pi.todo # <<>> /\ Head(pi.todo) \in phases

PhaseOver(c) == [c EXCEPT !.pc = "phase", !.todo = Tail(@), !.held = NoFile,
                          !.journal = NoEntries, !.queue = {}, !.bad = FALSE,
                          !.worked = TRUE, !.begun = <<>>]

(* The terminal interface collects errors and goes on; the command line    *)
(* stops at the first one, and so does an uninstall.                       *)
PhaseFailed(c) ==
    LET over == [PhaseOver(c) EXCEPT !.worked = FALSE, !.failed = TRUE]
    IN  IF c.collect THEN over ELSE [over EXCEPT !.todo = <<>>]

---------------------------------------------------------------------------
(* The phases that are not the integration's own. *)

(* Installing Pi installs its packages, which may bring a child.           *)
Packages ==
    /\ InPhase({"packages"})
    /\ \/ source' = source /\ UNCHANGED counted
       \/ /\ source' \in {[c EXCEPT !.note = 0] : c \in Children} /\ source = NoFile
          /\ piEdits < MaxPiEdits /\ piEdits' = piEdits + 1 /\ UNCHANGED piCommands
    /\ pi' \in {PhaseOver(pi), PhaseFailed(pi)}
    /\ UNCHANGED <<piFiles, manifest, observed>>

EmptyMcp == [codegraph |-> "none", servers |-> FALSE, note |-> 0]
WithServers(mcp, there) ==
    IF mcp = NoFile
    THEN IF there THEN [EmptyMcp EXCEPT !.servers = TRUE] ELSE NoFile
    ELSE [mcp EXCEPT !.servers = there]

(* The components' entries in mcp.json are written or cleaned up. Without  *)
(* them the file is not touched.                                           *)
OtherEntries(there, after) ==
    LET mcp == WithServers(piFiles["mcp"], there)
    IN  /\ piFiles' = [piFiles EXCEPT !["mcp"] = mcp]
        /\ original' = [original EXCEPT !["mcp"] = WithServers(@, there)]
        /\ drifted' = IF mcp # piFiles["mcp"] /\ "mcp" \in OwnedPaths(Recorded)
                      THEN drifted \cup {"mcp"} ELSE drifted
        /\ PiGoes(after)
        /\ UNCHANGED <<source, manifest, disturbed>>

Components ==
    /\ InPhase({"components"})
    /\ \/ \E over \in {PhaseOver(pi), PhaseFailed(pi)} : OtherEntries(TRUE, over)
       \/ PiGoes(PhaseFailed(pi)) /\ UNCHANGED <<piFiles, source, manifest, observed>>

Cleanup ==
    InPhase({"cleanup"}) /\ \E over \in {PhaseOver(pi), PhaseFailed(pi)} : OtherEntries(FALSE, over)

---------------------------------------------------------------------------
(* ReconcilePiCodeGraph. *)

BeginReconcile ==
    /\ \/ InPhase({"reconcile"})
       \/ InPhase({"refresh"}) /\ manifest # NoFile
    /\ PiGoes([pi EXCEPT !.pc = "mcp", !.held = Recorded,
                         !.begun = [files |-> piFiles, manifest |-> manifest]])
    /\ UNCHANGED <<piFiles, source, manifest, observed>>

NothingToRefresh ==
    /\ InPhase({"refresh"}) /\ manifest = NoFile
    /\ PiGoes(PhaseOver(pi))
    /\ UNCHANGED <<piFiles, source, manifest, observed>>

(* The journal keeps what was there before the first write to a path.      *)
Journaled(path) == WithNew(pi.journal, path, piFiles[path])

UndoPhase(c) == [c EXCEPT !.pc = "undo"]

(* A write of a file, then what follows when it succeeds. A write that     *)
(* fails may have renamed the file.                                        *)
WriteHome(path, content, after) ==
    /\ \/ piFiles' = [piFiles EXCEPT ![path] = content] /\ PiGoes(after)
       \/ /\ piFiles' \in {piFiles, [piFiles EXCEPT ![path] = content]}
          /\ PiGoes(UndoPhase([pi EXCEPT !.journal = Journaled(path)]))
    /\ UNCHANGED <<source, manifest>>

AbandonPhase ==
    /\ PiGoes(UndoPhase(pi))
    /\ UNCHANGED <<piFiles, source, manifest>>

(* Faulty: the file is recorded as it is after the write.                  *)
OwnedAsWritten(journal, path, content) == [before |-> content, after |-> content]

OwnedFile(journal, path, content) == [before |-> journal[path], after |-> content]

(* reconcilePiMCP: an entry that is there is not touched, whoever made it; *)
(* one that is not CodeGraph's is an error.                                *)
ReconcileMcp ==
    /\ AtStep("mcp")
    /\ LET mcp == IF piFiles["mcp"] = NoFile THEN EmptyMcp ELSE piFiles["mcp"]
           wired == [mcp EXCEPT !.codegraph = "ours"]
       IN  \/ mcp.codegraph = "other" /\ AbandonPhase
           \/ /\ mcp.codegraph = "ours"
              /\ PiGoes([pi EXCEPT !.pc = "missing"])
              /\ UNCHANGED <<piFiles, source, manifest>>
           \/ /\ mcp.codegraph = "none"
              /\ WriteHome("mcp", wired,
                    [pi EXCEPT !.pc = "missing", !.journal = Journaled("mcp"),
                               !.held.mcp = {OwnedFile(Journaled("mcp"), "mcp", wired)}])
    /\ UNCHANGED observed

(* restoreMissingPiChildren: what was recorded and is gone is made again.  *)
MissingChildren == {p \in DOMAIN pi.held.children : piFiles[p] = NoFile}

RestoreMissing ==
    /\ AtStep("missing")
    /\ \/ \E path \in MissingChildren :
            /\ IsNext(path, MissingChildren)
            /\ WriteHome(path, pi.held.children[path].after,
                     [pi EXCEPT !.journal = Journaled(path)])
       \/ /\ MissingChildren = {}
          /\ PiGoes([pi EXCEPT !.pc = "child", !.queue = Discovered])
          /\ UNCHANGED <<piFiles, source, manifest>>
    /\ UNCHANGED observed

(* The first time a child is met it is recorded: as it was, and as it is   *)
(* left. One that needs no change is recorded as it is. A packaged child   *)
(* gets its overlay in any case: there is none yet.                        *)
Recording(path, content, journal) ==
    [pi EXCEPT !.queue = @ \ {path},
               !.journal = journal,
               !.held.children = WithNew(@, path, OwnedFile(journal, path, content))]

ChildUnchanged(path, content) ==
    LET journal == IF path \in DOMAIN pi.held.children THEN pi.journal ELSE Journaled(path)
    IN  /\ content = piFiles[path]
        /\ PiGoes(Recording(path, content, journal))
        /\ UNCHANGED <<piFiles, source, manifest>>

ReconcileChild ==
    /\ AtStep("child")
    /\ \/ \E path \in pi.queue :
            /\ IsNext(path, pi.queue)
            /\ LET content == Rendered(Found(path))
               IN  \/ /\ Misconfigured(Found(path))
                      /\ PiGoes([pi EXCEPT !.queue = @ \ {path}, !.bad = TRUE])
                      /\ UNCHANGED <<piFiles, source, manifest>>
                   \/ /\ ~ Misconfigured(Found(path)) /\ ~ Renderable(Found(path))
                      /\ AbandonPhase
                   \/ /\ ~ Misconfigured(Found(path)) /\ Renderable(Found(path))
                      /\ \/ /\ content # piFiles[path]
                            /\ WriteHome(path, content, Recording(path, content, Journaled(path)))
                         \/ ChildUnchanged(path, content)
       \/ /\ pi.queue = {}
          /\ PiGoes([pi EXCEPT !.pc = "verify"])
          /\ UNCHANGED <<piFiles, source, manifest>>
    /\ UNCHANGED observed

(* Pi's adapter and the server are probed; their answer is not ours.       *)
Verify ==
    /\ AtStep("verify")
    /\ \/ ~ pi.bad /\ PiGoes([pi EXCEPT !.pc = "manifest"])
       \/ PiGoes(UndoPhase(pi))
    /\ UNCHANGED <<piFiles, source, manifest, observed>>

(* The manifest comes last, and only when it differs. An entry recorded    *)
(* anew has not drifted from its record.                                   *)
WriteManifest ==
    /\ AtStep("manifest")
    /\ \/ /\ manifest' = pi.held
          /\ drifted' = IF pi.held.mcp = Recorded.mcp THEN drifted ELSE drifted \ {"mcp"}
          /\ PiGoes(PhaseOver(pi))
       \/ /\ pi.held # manifest
          /\ manifest' \in {manifest, pi.held}
          /\ PiGoes(UndoPhase([pi EXCEPT !.journal = WithNew(@, "manifest", manifest)]))
          /\ UNCHANGED drifted
    /\ UNCHANGED <<piFiles, source, original, disturbed>>

---------------------------------------------------------------------------
(* UninstallPiCodeGraph: everything is captured first; a file that is not  *)
(* as it was left is the user's and is kept. One that cannot be captured,  *)
(* such as a child in a workspace, which is none of the roots a removal    *)
(* may write to, stops it before anything is changed.                      *)
BeginRemove ==
    /\ InPhase({"remove"})
    /\ \/ manifest = NoFile /\ PiGoes(PhaseOver(pi))
       \/ manifest # NoFile /\ PiGoes(PhaseFailed(pi))
       \/ /\ manifest # NoFile
          /\ PiGoes([pi EXCEPT
                !.pc = "remove", !.held = manifest,
                !.begun = [files |-> piFiles, manifest |-> manifest],
                !.journal = WithNew([p \in OwnedPaths(manifest) |-> piFiles[p]],
                                   "manifest", manifest)])
    /\ UNCHANGED <<piFiles, source, manifest, observed>>

(* Faulty: what is recorded is put back, whatever is there now.            *)
GivesBackAlways(path, owned) == piFiles[path] # NoFile

GivesBack(path, owned) == piFiles[path] # NoFile /\ piFiles[path] = owned.after

(* Restores one file, or leaves it.                                        *)
GiveBack(path, owned, after) ==
    \/ /\ ~ GivesBack(path, owned)
       /\ PiGoes(after)
       /\ UNCHANGED <<piFiles, source, manifest>>
    \/ /\ GivesBack(path, owned)
       /\ WriteHome(path, owned.before, after)

RemoveChild ==
    /\ AtStep("remove")
    /\ \E path \in DOMAIN pi.held.children :
          GiveBack(path, pi.held.children[path],
                   [pi EXCEPT !.held.children =
                       [p \in DOMAIN @ \ {path} |-> @[p]]])
    /\ UNCHANGED observed

RemoveMcp ==
    /\ AtStep("remove") /\ DOMAIN pi.held.children = {}
    /\ \E owned \in pi.held.mcp : GiveBack("mcp", owned, [pi EXCEPT !.held.mcp = {}])
    /\ UNCHANGED observed

(* What is left from here on is the user's.                                *)
RemoveManifest ==
    /\ AtStep("remove") /\ OwnedPaths(pi.held) = {}
    /\ manifest' = NoFile
    /\ original' = piFiles
    /\ drifted' = {}
    /\ PiGoes(PhaseOver(pi))
    /\ UNCHANGED <<piFiles, source, disturbed>>

KeepManifest ==
    /\ AtStep("remove") /\ OwnedPaths(pi.held) = {}
    /\ PiGoes(UndoPhase(pi))
    /\ UNCHANGED <<piFiles, source, manifest, observed>>

---------------------------------------------------------------------------
(* Faulty: a file that was not there before is left.                       *)
UndoneIfThere(path, now) == IF pi.journal[path] = NoFile THEN now ELSE pi.journal[path]

(* What piJournal.restore makes of a path.                                 *)
Undone(path, now) == pi.journal[path]

(* A failed phase puts its journal back, without a comparison, path by     *)
(* path; a path that cannot be restored does not stop the others.          *)
Undo ==
    /\ AtStep("undo")
    /\ \E path \in DOMAIN pi.journal :
          LET rest == [pi EXCEPT !.journal = [p \in DOMAIN @ \ {path} |-> @[p]]]
          IN  \/ /\ PiGoes(rest)
                 /\ IF path = "manifest"
                    THEN manifest' = Undone(path, manifest) /\ UNCHANGED piFiles
                    ELSE /\ piFiles' = [piFiles EXCEPT ![path] = Undone(path, @)]
                         /\ UNCHANGED manifest
                 /\ UNCHANGED disturbed
              \/ /\ PiGoes([rest EXCEPT !.trouble = TRUE])
                 /\ disturbed' = TRUE
                 /\ UNCHANGED <<piFiles, manifest>>
    /\ UNCHANGED <<source, original, drifted>>

EndUndo ==
    /\ AtStep("undo") /\ DOMAIN pi.journal = {}
    /\ PiGoes(PhaseFailed(pi))
    /\ UNCHANGED <<piFiles, source, manifest, observed>>

---------------------------------------------------------------------------
(* The end of a command. A failed install or sync is rolled back: the last *)
(* phase by uninstalling the integration, when it succeeded and the errors *)
(* before it were collected, and then everything by restoring the          *)
(* snapshot. A failed uninstall stays where it is.                         *)
NoPhaseLeft == pi.pc = "phase" /\ pi.todo = <<>>

EndPi ==
    /\ NoPhaseLeft
    /\ pi.failed => pi.rolling \/ pi.kind = "uninstall"
    /\ PiGoes([PiIdle EXCEPT !.kind = pi.kind])
    /\ UNCHANGED <<piFiles, source, manifest, observed>>

Rollback ==
    /\ NoPhaseLeft /\ pi.failed /\ ~ pi.rolling /\ pi.kind # "uninstall"
    /\ PiGoes([pi EXCEPT !.rolling = TRUE, !.collect = TRUE,
                         !.todo = IF pi.worked /\ pi.kind # "sync"
                                  THEN <<"remove", "restore">> ELSE <<"restore">>])
    /\ UNCHANGED <<piFiles, source, manifest, observed>>

(* The snapshot is restored path by path, in no particular order, up to    *)
(* the first one that fails. What it does not cover and nobody owns is the *)
(* user's from now on. (A backup skipped as a duplicate restores nothing:  *)
(* that is in ConfigCommands.)                                             *)
Covered == pi.found.covered \cup {"manifest"}

Restore ==
    /\ InPhase({"restore"})
    /\ \E restored \in SUBSET Covered :
          /\ piFiles' = [p \in Paths |-> IF p \in restored THEN pi.found.files[p] ELSE piFiles[p]]
          /\ manifest' = IF "manifest" \in restored THEN pi.found.manifest ELSE manifest
          /\ disturbed' = (disturbed \/ restored # Covered)
          /\ PiGoes([PhaseOver(pi) EXCEPT !.trouble = @ \/ restored # Covered])
    /\ original' = [p \in Paths |->
                       IF p \in pi.found.covered THEN pi.found.original[p]
                       ELSE IF manifest' # NoFile /\ p \in OwnedPaths(manifest') THEN original[p]
                       ELSE piFiles'[p]]
    /\ drifted' = pi.found.drifted
    /\ UNCHANGED source

(* A command that is killed.                                               *)
KillPi ==
    /\ pi.pc # "ended"
    /\ PiGoes([PiIdle EXCEPT !.kind = pi.kind])
    /\ disturbed' = TRUE
    /\ UNCHANGED <<piFiles, source, manifest, original, drifted>>

---------------------------------------------------------------------------
(* The user between two commands: each edit makes a new note.              *)
PiEdit ==
    /\ pi.pc = "ended" /\ piEdits < MaxPiEdits
    /\ piEdits' = piEdits + 1
    /\ UNCHANGED <<manifest, pi, piCommands, disturbed>>

EditHome(path, contents) ==
    /\ PiEdit
    /\ \E content \in {NoFile} \cup {[c EXCEPT !.note = piEdits + 1] : c \in contents} :
          /\ content # piFiles[path]
          /\ piFiles' = [piFiles EXCEPT ![path] = content]
          /\ original' = [original EXCEPT ![path] = content]
    /\ drifted' = drifted \cup ({path} \cap OwnedPaths(Recorded))
    /\ UNCHANGED source

Reworded(path) == IF piFiles[path] = NoFile THEN {} ELSE {piFiles[path]}

(* An entry named codegraph may come, go, or be changed to another server. *)
Rewired ==
    LET mcp == IF piFiles["mcp"] = NoFile THEN EmptyMcp ELSE piFiles["mcp"]
    IN  {[mcp EXCEPT !.codegraph = e] : e \in {"none", "ours", "other"}}

UpdatePackage ==
    /\ PiEdit
    /\ source' \in {NoFile} \cup {[c EXCEPT !.note = piEdits + 1] : c \in Children}
    /\ source' # source
    /\ UNCHANGED <<piFiles, original, drifted>>

PiUser ==
    \/ \E path \in {"user", "overlay"} : EditHome(path, Children \cup Reworded(path))
    \/ EditHome("mcp", Rewired)
    \/ UpdatePackage

---------------------------------------------------------------------------
PiInit ==
    /\ \E home \in InitialHomes :
          /\ piFiles = [mcp |-> home.mcp, user |-> home.user, overlay |-> NoFile]
          /\ source = home.packaged
    /\ manifest = NoFile
    /\ pi = PiIdle
    /\ piEdits = 0 /\ piCommands = 0
    /\ original = piFiles
    /\ drifted = {}
    /\ disturbed = FALSE

Reconciling ==
    \/ BeginReconcile \/ NothingToRefresh \/ ReconcileMcp \/ RestoreMissing
    \/ ReconcileChild \/ Verify \/ WriteManifest

Removing == BeginRemove \/ RemoveChild \/ RemoveMcp \/ RemoveManifest \/ KeepManifest

PiNext ==
    \/ BeginCommand \/ Packages \/ Components \/ Cleanup
    \/ Reconciling \/ Removing \/ Undo \/ EndUndo
    \/ EndPi \/ Rollback \/ Restore \/ KillPi \/ PiUser

PiSpec == PiInit /\ [][PiNext]_piVars

---------------------------------------------------------------------------
(* Properties. *)

(* Whatever the user wrote into a child or into mcp.json is there at every *)
(* moment, through reconciliations, removals, rollbacks and crashes, in    *)
(* whatever order; an entry for another server named codegraph too         *)
(* (ReconcilePiCodeGraph, UninstallPiCodeGraph, piJournal).                *)
UserWorkKept ==
    \A p \in Paths : original[p] # NoFile =>
        /\ piFiles[p] # NoFile /\ piFiles[p].note = original[p].note
        /\ p = "mcp" /\ original[p].codegraph = "other" => piFiles[p].codegraph = "other"

(* Unless a command was killed or could not restore what it had to, a      *)
(* removal leaves every file that nobody else changed since it was         *)
(* recorded as it would be had the integration never been there.           *)
LeavesOriginals ==
    manifest # NoFile /\ manifest' = NoFile /\ pi.pc = "remove" /\ ~ disturbed =>
        \A p \in Paths \ drifted : piFiles[p] = original[p]

(* A reconciliation or a removal that fails leaves the files and the       *)
(* manifest as it found them, and so does a whole install or sync, except  *)
(* for what a package that came with it brought; a restoration that fails  *)
(* is the exception, and is reported.                                      *)
FailureLeavesNoTrace ==
    /\ pi.pc = "undo" /\ DOMAIN pi.journal = {} /\ ~ pi.trouble =>
          piFiles = pi.begun.files /\ manifest = pi.begun.manifest
    /\ NoPhaseLeft /\ pi.rolling /\ ~ pi.trouble =>
          /\ manifest = pi.found.manifest
          /\ \A p \in Paths : pi.found.source = source \/ p # "overlay" =>
                piFiles[p] = pi.found.files[p]

(* A removal leaves what nobody changed as if it had never been there      *)
(* (UninstallPiCodeGraph), and failed steps, and failed installs and       *)
(* syncs, leave no trace (piJournal, rollbackRestoreStep).                 *)
LeavesAsFound == [][FailureLeavesNoTrace' /\ LeavesOriginals]_piVars
=============================================================================
