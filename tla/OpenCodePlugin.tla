---------------------------- MODULE OpenCodePlugin ----------------------------
(***************************************************************************)
(* Adding a community plugin to OpenCode, and taking it away from its four *)
(* layers: the list in tui.json, package.json, the package's directory in  *)
(* node_modules and the one in OpenCode's cache. (The built-in logo has a  *)
(* list entry and a file.) Files are changed through the mutation journal, *)
(* directories are renamed aside until the removal commits. The user and   *)
(* OpenCode go on working meanwhile, every step may fail, and the program  *)
(* may be killed at any step.                                              *)
(*                                                                         *)
(* A file is Absent, Broken (not JSON) or a record: names are the entries  *)
(* the program recognises as a plugin, odd those of a shape it does not    *)
(* read (in tui.json's list anything but a non-blank string, a pair of a   *)
(* plugin and its options for one; in package.json a list of packages that *)
(* is no object), note stands for everything else; each edit makes a new   *)
(* note. A directory is Absent or the number of the installation that made *)
(* it.                                                                     *)
(***************************************************************************)
EXTENDS MutationJournal, Naturals, Sequences

CONSTANTS
    Broken,         \* the content of a file that cannot be parsed
    TuiTexts,       \* names and odd entries tui.json is found with
    PackageTexts,   \* those of package.json
    MaxTouches,     \* bound on what the user and OpenCode do
    MaxRuns         \* bound on the operations

(* What can be read in a file: the plugins of tui.json, the lists of       *)
(* package.json that name the package, what is of another shape, and a     *)
(* note of its own.                                                        *)
PluginEntries == {"npm", "logo", "other", "dependencies", "devDependencies"}
Texts == [names : SUBSET PluginEntries, odd : SUBSET PluginEntries, note : 0 .. MaxTouches]

Noted(text, note) == [names |-> text.names, odd |-> text.odd, note |-> note]
EmptyText == [names |-> {}, odd |-> {}, note |-> 0]

ASSUME PluginAssumption ==
    /\ MaxTouches \in Nat
    /\ TuiTexts \cup PackageTexts \subseteq [names : SUBSET PluginEntries, odd : SUBSET PluginEntries]
    /\ Absent # Broken /\ Absent \notin Texts /\ Broken \notin Texts
    /\ Absent \notin 0 .. MaxTouches

VARIABLES
    files,      \* contents of tui.json, package.json and the logo's file
    dirs,       \* the package's directories
    aside,      \* directories under a staging name
    run,        \* the operation that runs, or the last one
    edits,      \* number of edits so far
    runs        \* number of operations so far

pluginVars == <<files, dirs, aside, run, edits, runs>>

Files == {"tui", "package", "logo"}
Dirs == {"node_modules", "cache"}
Kinds == {"npm", "logo"}

(* The layers of a plugin, in the order in which Uninstall visits them.    *)
Layers(kind) ==
    IF kind = "npm" THEN <<"tui", "package", "node_modules", "cache">> ELSE <<"tui", "logo">>

Parsed(content) == content \notin {Absent, Broken}

(* Does a layer's file name the plugin, and what is it without it?         *)
NamesPlugin(file, kind, content) ==
    /\ Parsed(content)
    /\ CASE file = "tui" -> kind \in content.names
         [] file = "package" -> content.names # {}
         [] file = "logo" -> TRUE

(* What is kept of a plugin list that is written again: its readable entries.*)
StringSlice(content) == [content EXCEPT !.odd = {}]

(* Faulty: only the first list of packages is looked at.                   *)
WithoutDependency(file, kind, content) ==
    CASE file = "tui" -> [StringSlice(content) EXCEPT !.names = @ \ {kind}]
      [] file = "package" -> [content EXCEPT !.names = @ \ {"dependencies"}, !.odd = {}]
      [] file = "logo" -> Absent

(* In package.json a list that is no object becomes an empty one.          *)
WithoutPlugin(file, kind, content) ==
    CASE file = "tui" -> [StringSlice(content) EXCEPT !.names = @ \ {kind}]
      [] file = "package" -> [content EXCEPT !.names = {}, !.odd = {}]
      [] file = "logo" -> Absent

---------------------------------------------------------------------------
(* The operation: pc is the next step, at the layer it works on, next what *)
(* it is about to write, staged the directories it renamed, undo the files *)
(* it still has to restore, left what it reports as remaining, trouble     *)
(* whether a restoration failed. The rest is observation: what it found,   *)
(* whether a write failed after its rename, which layers others touched,   *)
(* and which of those edits it had a chance to notice.                     *)
NoOperation ==
    [pc |-> "idle", kind |-> "npm", at |-> 1, journal |-> NoJournal, next |-> Absent,
     staged |-> <<>>, undo |-> {}, left |-> {}, trouble |-> FALSE,
     found |-> <<>>, late |-> FALSE, touched |-> {}, noticeable |-> {}]

Over == {"idle", "killed", "added", "removed", "failed"}
Layer == Layers(run.kind)[run.at]

Goes(r) == run' = r /\ UNCHANGED <<edits, runs>>
Abandon(r) == [r EXCEPT !.pc = "unstage"]

Advance(r) ==
    LET layers == Layers(r.kind)
    IN  IF r.at = Len(layers)
        THEN [r EXCEPT !.pc = "commit"]
        ELSE [r EXCEPT !.at = @ + 1,
                       !.pc = IF layers[r.at + 1] \in Dirs THEN "stage" ELSE "capture"]

BeginOperation(kind, pc) ==
    /\ run.pc \in Over /\ runs < MaxRuns
    /\ runs' = runs + 1
    /\ run' = [NoOperation EXCEPT !.pc = pc, !.kind = kind,
                           !.found = [files |-> files, dirs |-> dirs, aside |-> aside]]
    /\ UNCHANGED <<files, dirs, aside, edits>>

BeginUninstall == \E kind \in Kinds : BeginOperation(kind, "capture")

Capture ==
    /\ run.pc = "capture"
    /\ \/ Goes([run EXCEPT !.pc = "edit",
                           !.journal = Captured(run.journal, Layer, files[Layer])])
       \/ Goes(Abandon(run))
    /\ UNCHANGED <<files, dirs, aside>>

(* The file is read once more to work out what it becomes.                 *)
EditLayer ==
    /\ run.pc = "edit"
    /\ LET content == files[Layer]
       IN  \/ content = Broken /\ Goes(Abandon(run))
           \/ /\ content # Broken /\ ~ NamesPlugin(Layer, run.kind, content)
              /\ Goes(Advance(run))
           \/ /\ NamesPlugin(Layer, run.kind, content)
              /\ Goes([run EXCEPT !.pc = "compare",
                                  !.next = WithoutPlugin(Layer, run.kind, content)])
    /\ UNCHANGED <<files, dirs, aside>>

Compare ==
    /\ run.pc = "compare"
    /\ IF MayReplace(run.journal, Layer, files[Layer])
       THEN Goes([run EXCEPT !.pc = "replace"])
       ELSE Goes(Abandon(run))
    /\ UNCHANGED <<files, dirs, aside>>

(* The rename of a written file may succeed and the write still fail, when *)
(* the directory cannot be synced: the journal then does not know of it.   *)
Replace ==
    /\ run.pc = "replace"
    /\ \/ /\ files' = [files EXCEPT ![Layer] = run.next]
          /\ Goes(Advance([run EXCEPT !.journal = Wrote(run.journal, Layer, run.next)]))
       \/ /\ Layer # "logo"
          /\ files' = [files EXCEPT ![Layer] = run.next]
          /\ Goes(Abandon([run EXCEPT !.late = TRUE]))
       \/ Goes(Abandon(run)) /\ UNCHANGED files
    /\ UNCHANGED <<dirs, aside>>

Stage ==
    /\ run.pc = "stage"
    /\ LET moved == [layer |-> Layer, made |-> dirs[Layer]]
       IN  \/ dirs[Layer] = Absent /\ Goes(Advance(run)) /\ UNCHANGED <<dirs, aside>>
           \/ /\ dirs[Layer] # Absent
              /\ dirs' = [dirs EXCEPT ![Layer] = Absent]
              /\ aside' = aside \cup {moved}
              /\ Goes(Advance([run EXCEPT !.staged = Append(@, moved)]))
           \/ Goes(Abandon(run)) /\ UNCHANGED <<dirs, aside>>
    /\ UNCHANGED files

(* The removal has committed: what was staged is deleted.                  *)
Commit ==
    /\ run.pc = "commit"
    /\ \/ /\ run.staged # <<>>
          /\ aside' = aside \ {Head(run.staged)}
          /\ Goes([run EXCEPT !.staged = Tail(@)])
       \/ /\ run.staged # <<>>
          /\ Goes([run EXCEPT !.staged = Tail(@), !.left = @ \cup {Head(run.staged)}])
          /\ UNCHANGED aside
       \/ run.staged = <<>> /\ Goes([run EXCEPT !.pc = "removed"]) /\ UNCHANGED aside
    /\ UNCHANGED <<files, dirs>>

---------------------------------------------------------------------------
(* The rollback: directories back, last one first, unless OpenCode has     *)
(* made them anew; then the files, by path.                                *)
Foremost(undo) ==
    IF "package" \in undo THEN "package" ELSE IF "logo" \in undo THEN "logo" ELSE "tui"

ButLast(s) == SubSeq(s, 1, Len(s) - 1)

(* Faulty: the journal is restored, the directories are not.               *)
UnstageNothing ==
    /\ run.pc = "unstage"
    /\ Goes([run EXCEPT !.pc = "restore", !.undo = ToRestore(run.journal), !.staged = <<>>])
    /\ UNCHANGED <<files, dirs, aside>>

Unstage ==
    /\ run.pc = "unstage"
    /\ IF run.staged = <<>>
       THEN /\ Goes([run EXCEPT !.pc = "restore", !.undo = ToRestore(run.journal)])
            /\ UNCHANGED <<dirs, aside>>
       ELSE LET moved == run.staged[Len(run.staged)]
            IN  \/ /\ dirs[moved.layer] = Absent
                   /\ dirs' = [dirs EXCEPT ![moved.layer] = moved.made]
                   /\ aside' = aside \ {moved}
                   /\ Goes([run EXCEPT !.staged = ButLast(@)])
                \/ /\ Goes([run EXCEPT !.staged = ButLast(@), !.trouble = TRUE,
                                       !.left = @ \cup {moved}])
                   /\ UNCHANGED <<dirs, aside>>
    /\ UNCHANGED files

CompareRestored ==
    /\ run.pc = "restore" /\ run.undo # {}
    /\ LET file == Foremost(run.undo)
       IN  IF MayRestore(run.journal, file, files[file])
           THEN Goes([run EXCEPT !.pc = "rewrite"])
           ELSE Goes([run EXCEPT !.undo = @ \ {file}, !.trouble = TRUE])
    /\ UNCHANGED <<files, dirs, aside>>

Rewrite ==
    /\ run.pc = "rewrite"
    /\ LET file == Foremost(run.undo)
           rest == [run EXCEPT !.pc = "restore", !.undo = @ \ {file}]
       IN  \/ files' = [files EXCEPT ![file] = run.journal[file].data] /\ Goes(rest)
           \/ /\ files' = [files EXCEPT ![file] = run.journal[file].data]
              /\ Goes([rest EXCEPT !.trouble = TRUE])
           \/ Goes([rest EXCEPT !.trouble = TRUE]) /\ UNCHANGED files
    /\ UNCHANGED <<dirs, aside>>

EndRestore ==
    /\ run.pc = "restore" /\ run.undo = {}
    /\ Goes([run EXCEPT !.pc = "failed"])
    /\ UNCHANGED <<files, dirs, aside>>

---------------------------------------------------------------------------
(* Install: the entry in tui.json, read and written without a journal; the *)
(* logo's file before it. OpenCode itself fetches the package.             *)
BeginInstall ==
    \E kind \in Kinds : BeginOperation(kind, IF kind = "logo" THEN "add logo" ELSE "add read")

AddLogo ==
    /\ run.pc = "add logo"
    /\ \/ /\ files' = [files EXCEPT !["logo"] = EmptyText]
          /\ Goes([run EXCEPT !.pc = "add read"])
       \/ Goes([run EXCEPT !.pc = "failed", !.trouble = TRUE]) /\ UNCHANGED files
    /\ UNCHANGED <<dirs, aside>>

AddRead ==
    /\ run.pc = "add read"
    /\ LET tui == files["tui"]
           list == IF Parsed(tui) THEN tui ELSE EmptyText
       IN  \/ /\ tui = Broken
              /\ Goes([run EXCEPT !.pc = "failed", !.trouble = TRUE])
           \/ /\ tui # Broken /\ run.kind \in list.names
              /\ Goes([run EXCEPT !.pc = "added"])
           \/ /\ tui # Broken /\ run.kind \notin list.names
              /\ Goes([run EXCEPT !.pc = "add write",
                                  !.next = [StringSlice(list) EXCEPT !.names = @ \cup {run.kind}]])
    /\ UNCHANGED <<files, dirs, aside>>

AddWrite ==
    /\ run.pc = "add write"
    /\ \/ files' = [files EXCEPT !["tui"] = run.next] /\ Goes([run EXCEPT !.pc = "added"])
       \/ Goes([run EXCEPT !.pc = "failed", !.trouble = TRUE]) /\ UNCHANGED files
    /\ UNCHANGED <<dirs, aside>>

Crash ==
    /\ run.pc \notin Over
    /\ Goes([NoOperation EXCEPT !.pc = "killed"])
    /\ UNCHANGED <<files, dirs, aside>>

---------------------------------------------------------------------------
(* The others. An edit can be noticed unless it falls between a comparison *)
(* and the write that follows it.                                          *)
Unnoticed(layer) ==
    \/ run.pc = "replace" /\ layer = Layer
    \/ run.pc = "rewrite" /\ layer = Foremost(run.undo)

Touch(layer) ==
    /\ edits < MaxTouches
    /\ edits' = edits + 1
    /\ run' = [run EXCEPT !.touched = @ \cup {layer},
                          !.noticeable = IF Unnoticed(layer) THEN @ \ {layer} ELSE @ \cup {layer}]

(* (Bringing back exactly what the journal captured is no edit to it.)     *)
EditFile(file, texts) ==
    /\ Touch(file)
    /\ \E content \in {Absent, Broken} \cup {Noted(text, edits + 1) : text \in texts} :
          /\ file \in DOMAIN run.journal => content # run.journal[file].data
          /\ files' = [files EXCEPT ![file] = content]
    /\ UNCHANGED <<dirs, aside, runs>>

OpenCodeInstalls(dir) ==
    /\ Touch(dir)
    /\ dirs' = [dirs EXCEPT ![dir] = edits + 1]
    /\ UNCHANGED <<files, aside, runs>>

Others ==
    \/ EditFile("tui", TuiTexts)
    \/ EditFile("package", PackageTexts)
    \/ \E dir \in Dirs : OpenCodeInstalls(dir)

---------------------------------------------------------------------------
Contents(texts) == {Absent} \cup {Noted(text, 0) : text \in texts}

PluginInit ==
    /\ \E tui \in Contents(TuiTexts), package \in Contents(PackageTexts),
          logo \in {Absent, EmptyText} :
          files = [tui |-> tui, package |-> package, logo |-> logo]
    /\ dirs \in [Dirs -> {Absent, 0}]
    /\ aside = {}
    /\ run = NoOperation
    /\ edits = 0
    /\ runs = 0

Uninstalling ==
    \/ Capture \/ EditLayer \/ Compare \/ Replace \/ Stage \/ Commit
    \/ Unstage \/ CompareRestored \/ Rewrite \/ EndRestore

Installing == AddLogo \/ AddRead \/ AddWrite

PluginNext ==
    \/ BeginUninstall \/ Uninstalling \/ BeginInstall \/ Installing \/ Crash \/ Others

PluginSpec == PluginInit /\ [][PluginNext]_pluginVars

---------------------------------------------------------------------------
(* Properties. *)

PluginTypeOK ==
    /\ \A f \in Files : files[f] \in {Absent, Broken} \/ files[f].note \in 0 .. MaxTouches
    /\ dirs \in [Dirs -> {Absent} \cup 0 .. MaxTouches]
    /\ aside \subseteq [layer : Dirs, made : 0 .. MaxTouches]
    /\ ToRestore(run.journal) \subseteq Files
    /\ run.at \in DOMAIN Layers(run.kind)

Untouched(layers) == layers \ run.touched
Note(content) == IF Parsed(content) THEN content.note ELSE content

(* A file out of which a plugin was taken no longer names it; the other    *)
(* plugins tui.json named and the rest of the file are kept. A file that   *)
(* did not name it is as it was.                                           *)
TakenOut(file, kind, before, after) ==
    /\ ~ NamesPlugin(file, kind, after)
    /\ ~ NamesPlugin(file, kind, before) => after = before
    /\ NamesPlugin(file, kind, before) /\ file # "logo" =>
          /\ Note(after) = Note(before)
          /\ file = "tui" => after.names = before.names \ {kind}

(* All or nothing (Uninstall, rollbackUninstall): a removal that reports   *)
(* success has taken the plugin from every layer and left no directory     *)
(* aside but those it names; one that fails and reports no restoration as  *)
(* failed leaves every layer as it was, odd entries included. What others  *)
(* touched meanwhile is theirs; a write that reported an error after its   *)
(* rename is the case the journal does not see. Of the entries of another  *)
(* shape nothing is claimed after a success: they are lost from a file     *)
(* that is rewritten, and a pair that names the plugin stays in one that   *)
(* is not.                                                                 *)
UninstallIsAtomic ==
    LET mine == {f \in Files : \E i \in DOMAIN Layers(run.kind) : Layers(run.kind)[i] = f}
        gone == {d \in Dirs : \E i \in DOMAIN Layers(run.kind) : Layers(run.kind)[i] = d}
    IN  /\ run.pc = "removed" =>
              /\ \A f \in Untouched(mine) :
                    TakenOut(f, run.kind, run.found.files[f], files[f])
              /\ \A d \in Untouched(gone) : dirs[d] = Absent
              /\ aside \ run.found.aside = run.left
        /\ run.pc = "failed" /\ ~ run.trouble /\ ~ run.late =>
              /\ \A f \in Untouched(Files) : files[f] = run.found.files[f]
              /\ \A d \in Untouched(Dirs) : dirs[d] = run.found.dirs[d]
              /\ aside = run.found.aside

(* What somebody else wrote into a file while the removal runs is neither  *)
(* overwritten by it nor by its rollback (verifyCurrent), unless it was    *)
(* written in the moment between a comparison and the write it guards.     *)
KeepsForeignEdits ==
    Uninstalling =>
        \A f \in run.noticeable \cap {"tui", "package"} : Note(files'[f]) = Note(files[f])

(* Removing a plugin from OpenCode takes it from all of its layers or,     *)
(* when it fails, from none (components/opencodeplugin/uninstall.go), and  *)
(* does not overwrite what others write meanwhile (verifyCurrent).         *)
RemovalIsClean == [][UninstallIsAtomic' /\ KeepsForeignEdits]_pluginVars
=============================================================================
