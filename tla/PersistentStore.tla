-------------------------- MODULE PersistentStore --------------------------
(***************************************************************************)
(* The machine whose disk both kernels use.  Each start runs one of them:  *)
(* the 32-bit kernel with the shell and its packages (kernel/kmain.cpp,    *)
(* module Packages), or the 64-bit one (kernel/kmain64.cpp), whose console *)
(* keeps its root file system by snapshots.  Either replays the whole      *)
(* index, the other's entries included.                                    *)
(***************************************************************************)
EXTENDS Packages

CONSTANT Writes     \* the records that the console's commands write

VARIABLES
    running,        \* the kernel that was started last
    sound           \* the packages of which no start has left anything out

storeVars == <<vars, missed, todo, running, sound>>

-----------------------------------------------------------------------------
(* The console of the 64-bit kernel: storage_snapshot_save("rootfs") of    *)
(* kernel/storage.cpp, called by sync, exit, reboot and poweroff.  Between *)
(* snapshots commands create, change and remove files.                     *)

RootFs == "rootfs"

Markers == {Marker(name) : name \in Known \cup {RootFs}}
WritePaths == {record.path : record \in Writes}

\* A package has files.  No file, nor the root directory, is of two packages or
\* of a package and of those that the kernel starts with or the console's
\* commands write, or is a marker.
ASSUME StoreAssumption ==
    /\ Catalog \in Seq(Known) /\ RootFs \notin Known
    /\ \A p \in Known : DOMAIN FilesOf[p] # {}
    /\ \A f \in {Seed} \cup {FilesOf[p] : p \in Known} : f = [q \in DOMAIN f |-> f[q]]
    /\ \A p, q \in Known : p # q => DOMAIN FilesOf[p] \cap DOMAIN FilesOf[q] = {}
    /\ \A p \in Known :
         DOMAIN FilesOf[p] \cap (DOMAIN Seed \cup WritePaths \cup Markers \cup {<< >>}) = {}
    /\ (DOMAIN Seed \cup WritePaths) \cap (Markers \cup {<< >>}) = {}

\* A write for which there is no memory leaves the file empty.
WriteFile(record) ==
    /\ job = Idle
    /\ \E value \in {record.value, ""} : files' = Written(files, <<[path |-> record.path, value |-> value]>>)
    /\ UNCHANGED <<disk, sb, job, history>>

Unlink(p) ==
    /\ job = Idle /\ p \in DOMAIN files
    /\ files' = [q \in DOMAIN files \ {p} |-> files[q]]
    /\ UNCHANGED <<disk, sb, job, history>>

\* storage_snapshot_save up to storage_write: every file of the tree (Walker);
\* with no files it fails.
SnapshotSave ==
    /\ job = Idle
    /\ files # NoFiles
    /\ Store(RootFs, files)
    /\ UNCHANGED <<disk, sb, files>>

\* The commands do not look at what it returns.
SnapshotReturn ==
    /\ job.at \in {"stored", "failed"}
    /\ job' = Idle
    /\ UNCHANGED <<disk, sb, files, history>>

ConsoleStep ==
    \/ \E record \in Writes : WriteFile(record) \/ Unlink(record.path)
    \/ SnapshotSave
    \/ SnapshotReturn

-----------------------------------------------------------------------------
StoreInit == Init /\ todo = << >> /\ running = "kmain" /\ sound = Known

Start ==
    /\ Boot
    /\ running' \in {"kmain", "kmain64"}
    /\ sound' = {p \in sound : (DOMAIN FilesOf[p] \cup {Marker(p)}) \cap missed' = {}}
    /\ UNCHANGED todo

StoreNext ==
    \/ Start
    \/ PowerCut /\ todo' = << >> /\ UNCHANGED <<running, sound>>
    \/ StorageStep /\ UNCHANGED <<todo, running, sound, missed>>
    \/ running = "kmain" /\ ShellStep /\ UNCHANGED <<running, sound, missed>>
    \/ running = "kmain64" /\ ConsoleStep /\ UNCHANGED <<todo, running, sound, missed>>

StoreSpec == StoreInit /\ [][StoreNext]_storeVars

-----------------------------------------------------------------------------
\* Once a caller has been told that what it stored is stored, every start brings
\* back every file of it, or of what was tried later, with its contents, but for
\* those paths that this very start had no room for: whatever happened in
\* between to the power, to writes, to later jobs and in earlier starts.
SavedSurvives ==
    [][job = Off /\ job' = Idle /\ saved # NoFiles =>
         \E f \in {saved} \cup since :
           \A p \in DOMAIN f \ missed' : p \in DOMAIN files' /\ files'[p] = f[p]]_storeVars

\* Between the shell's commands a package is all there or not there at all, as
\* long as no start has left out a file of it or its marker: one with a marker
\* has all its files with their contents, one without has none of them, after
\* failed installs and upgrades and after starts that left out others.
AllOrNothing ==
    job = Idle /\ running = "kmain" => \A p \in sound :
      IF PackageInstalled(p) THEN Agrees(FilesOf[p], files)
      ELSE DOMAIN FilesOf[p] \cap DOMAIN files = {}

\* A package that is installed, and that no start has left anything out of, is on
\* the disk: it comes back with the next start that has room for it, now or after
\* any later failure.
InstalledIsStored ==
    \A p \in sound : PackageInstalled(p) => Agrees(FilesOf[p], Replay({}))

\* "restore any packages persisted on disk": a package that is restored has the
\* files that were stored for it.
RestoredAsStored ==
    [][job = Off => \A p \in Known : Marker(p) \in DOMAIN files' => Agrees(FilesOf[p], files')]_storeVars
=============================================================================
