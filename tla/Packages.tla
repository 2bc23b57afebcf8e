------------------------------ MODULE Packages ------------------------------
(***************************************************************************)
(* The shell's package manager, apt install, remove and upgrade            *)
(* (kernel/shell.cpp), over persistent storage: a package's files are      *)
(* written to the RAM file system, stored on disk with an index entry,     *)
(* and a marker file makes the package installed.  At boot                 *)
(* storage_restore_packages brings all entries back.                       *)
(***************************************************************************)
EXTENDS Storage

CONSTANTS
    Catalog,    \* the catalogue, a sequence of names (kPackages)
    FilesOf     \* the files of each, a function from paths to contents

VARIABLE todo   \* packages that the upgrade under way has still to look at

Known == {Catalog[i] : i \in DOMAIN Catalog}

PackageInstalled(p) == Marker(p) \in DOMAIN files

\* remove_package_files: the files, then the marker.
RemovePackageFiles(f, p) ==
    [q \in DOMAIN f \ (DOMAIN FilesOf[p] \cup {Marker(p)}) |-> f[q]]

\* install_package up to storage_write, on the files f: when the RAM file system
\* or the heap is full, what was written is removed again.
InstallFrom(f, p) ==
    \/ /\ files' = Layered(f, <<FilesOf[p]>>)
       /\ Store(p, FilesOf[p])
    \/ /\ files' = RemovePackageFiles(f, p)
       /\ UNCHANGED <<job, history>>

InstallPackage(p) ==
    /\ job = Idle /\ todo = << >>
    /\ ~PackageInstalled(p)
    /\ InstallFrom(files, p)
    /\ UNCHANGED <<disk, sb, todo>>

RemovePackage(p) ==
    /\ job = Idle /\ todo = << >>
    /\ files' = RemovePackageFiles(files, p)
    /\ UNCHANGED <<disk, sb, job, history, todo>>

Upgrade ==
    /\ job = Idle /\ todo = << >>
    /\ todo' = Catalog
    /\ UNCHANGED vars

\* One turn of upgrade's loop: an installed package is removed and installed.
UpgradeNext ==
    LET p == Head(todo)
    IN /\ job = Idle /\ todo # << >>
       /\ todo' = Tail(todo)
       /\ IF PackageInstalled(p) THEN InstallFrom(RemovePackageFiles(files, p), p)
          ELSE UNCHANGED <<files, job, history>>
       /\ UNCHANGED <<disk, sb>>

\* Mutant: a package that could not be stored keeps its files.
FailedInstallStays(p) == files

FailedInstall(p) == RemovePackageFiles(files, p)

\* install_package from storage_add_index_entry's return on: the marker, whose
\* write may fail.
InstallReturn ==
    /\ \/ /\ job.at = "stored"
          /\ files' = WithMarker(files, job.name)
       \/ /\ job.at \in {"stored", "failed"}
          /\ files' = FailedInstall(job.name)
    /\ job' = Idle
    /\ UNCHANGED <<disk, sb, history, todo>>

ShellStep ==
    \/ \E p \in Known : InstallPackage(p) \/ RemovePackage(p)
    \/ Upgrade \/ UpgradeNext \/ InstallReturn
=============================================================================
