-------------------------------- MODULE Backups --------------------------------
(***************************************************************************)
(* internal/backup: the managed configuration files of one home directory  *)
(* and the snapshots kept of them, one directory each with a manifest and  *)
(* an archive.  The operators are what one call does to the disk; who      *)
(* calls them, in which order, and what can interrupt them is in           *)
(* ConfigCommands.                                                         *)
(*                                                                         *)
(* The identifier of a backup is the time it was taken, so identifiers are *)
(* ordered by creation.  A checksum is the set of files it was computed    *)
(* over with their contents (a hash without collisions), modes and         *)
(* descriptions are left out, and so are the plain backups of old versions.*)
(***************************************************************************)
EXTENDS Naturals, FiniteSets, Functions

CONSTANTS
    Path,        \* managed files
    Content,     \* what a file may hold
    Retention    \* unpinned backups that pruning keeps

ASSUME RetentionAssumption == Retention \in Nat

VARIABLES
    files,       \* the existing files of Path, with their content
    dirs         \* the backup directories

Files == UNION {[existing -> Content] : existing \in SUBSET Path}

NoFiles == [p \in {} |-> p]

Managed(fs, paths) == Restrict(fs, paths \cap DOMAIN fs)

(* A checksum is a set of at most one element; {} is the empty string.     *)
ComputeChecksum(paths) ==
    IF paths \cap DOMAIN files = {} THEN {} ELSE {Managed(files, paths)}

emptyFilesChecksum == {NoFiles}

Manifest(id, entries, existed, checksum) ==
    [id |-> id, entries |-> entries, existed |-> existed,
     checksum |-> checksum, pinned |-> FALSE]

Compressed(m) == m.existed # {}

(* A manifest that is missing, or cannot be read, is {}; so is an archive. *)
NoDir == [manifest |-> {}, archive |-> {}]

Dir(id) == IF id \in DOMAIN dirs THEN dirs[id] ELSE NoDir

WithDir(id, dir) ==
    [d \in DOMAIN dirs \union {id} |-> IF d = id THEN dir ELSE dirs[d]]

WithoutDir(id) == Restrict(dirs, DOMAIN dirs \ {id})

(* os.WriteFile empties the file before it fills it.                       *)
ManifestEmptied(id) == WithDir(id, [Dir(id) EXCEPT !.manifest = {}])

ManifestWritten(m) == WithDir(m.id, [Dir(m.id) EXCEPT !.manifest = {m}])

ArchiveWritten(id, existed) ==
    WithDir(id, [NoDir EXCEPT !.archive =
                    IF existed = {} THEN {} ELSE {Managed(files, existed)}])

ListManifests(disk) == UNION {disk[d].manifest : d \in DOMAIN disk}

IsDuplicate(checksum) ==
    /\ checksum # {}
    /\ \E latest \in ListManifests(dirs) :
          /\ \A m \in ListManifests(dirs) : m.id <= latest.id
          /\ latest.checksum = checksum

Unpinned(manifests) == {m \in manifests : ~m.pinned}

Newer(m, manifests) == {n \in manifests : n.id > m.id}

(* Faulty: sorted the other way round.                                     *)
ToDeleteNewest(manifests) ==
    IF Retention = 0 THEN {}
    ELSE {m \in Unpinned(manifests) :
             Cardinality({n \in Unpinned(manifests) : n.id < m.id}) >= Retention}

(* Faulty: off by one.                                                     *)
ToDeleteOneMore(manifests) ==
    IF Retention = 0 THEN {}
    ELSE {m \in Unpinned(manifests) :
             Cardinality(Newer(m, Unpinned(manifests))) + 1 >= Retention}

(* What Prune will delete.                                                 *)
ToDelete(manifests) ==
    IF Retention = 0 THEN {}
    ELSE {m \in Unpinned(manifests) :
             Cardinality(Newer(m, Unpinned(manifests))) >= Retention}

(* ExtractArchive succeeds and holds every file of the manifest.           *)
Restorable(m) ==
    Compressed(m) => \E archive \in Dir(m.id).archive :
                        m.existed \subseteq DOMAIN archive

(* The files after the entries of done were restored, each atomically.     *)
Restored(m, done) ==
    LET archive == CHOOSE a \in Dir(m.id).archive : TRUE
    IN  [p \in (DOMAIN files \ done) \union (done \cap m.existed) |->
            IF p \in done THEN archive[p] ELSE files[p]]

================================================================================
