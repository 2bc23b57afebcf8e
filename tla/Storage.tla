------------------------------ MODULE Storage ------------------------------
(***************************************************************************)
(* Persistent storage: kernel/storage.cpp.  A superblock with the next     *)
(* free sector, one sector of index, and data sectors that are only ever   *)
(* appended; at boot every entry of the index is replayed, in order, into  *)
(* a fresh RAM file system.                                                *)
(*                                                                         *)
(* The disk's operations are external: a write is atomic per sector and    *)
(* may fail before or after it took effect, a read may fail where          *)
(* ReadFaults says so, and the power may go between any two writes.  A     *)
(* record (path and contents) fills one sector.  The replay looks at none  *)
(* of its failures: the heap or the inode table of the RAM file system may *)
(* be full at any of its steps, and MaxLost bounds how often in one start. *)
(* log, saved, since and missed are history: what each index entry was     *)
(* written for, the last payload whose caller was told it is stored, the   *)
(* payloads tried after that, and what the last start left out.            *)
(***************************************************************************)
EXTENDS Integers, Sequences

CONSTANTS
    Seed,           \* the files of RamFs::init, a function from paths to contents
    DataStart,      \* DATA_START_LBA
    DiskEnd,        \* first sector past the disk
    IndexRoom,      \* entries that fit the index sector
    ReadFaults,     \* whether reads may fail
    MaxLost,        \* bound on what one start fails to bring back
    MaxJobs         \* bound on the storage jobs a behaviour starts

ASSUME StorageAssumption ==
    /\ DataStart \in Nat /\ DiskEnd \in Nat /\ DataStart <= DiskEnd
    /\ IndexRoom \in Nat /\ ReadFaults \in BOOLEAN
    /\ MaxLost \in Nat /\ MaxJobs \in Nat

VARIABLES
    super, index, data,     \* the disk
    sb,                     \* the superblock in memory
    files,                  \* the RAM file system
    job,                    \* storage_write and storage_add_index_entry, under way
    log, saved, since,
    jobs,                   \* how many jobs were started
    missed                  \* the paths that the last start failed to bring back

disk == <<super, index, data>>
history == <<log, saved, since, jobs>>
vars == <<disk, sb, files, job, history>>

Sectors == DataStart .. DiskEnd - 1
Marker(name) == <<"installed", name>>
NoRecord == [path |-> << >>, value |-> ""]
NoFiles == << >>
Idle == [at |-> "none"]
Off == [at |-> "off"]
Blank == [magic |-> FALSE, next |-> 0]
Empty == [magic |-> FALSE, next |-> DataStart]

\* Files over files, in order: the last that has a path wins.
Layered(f, layers) ==
    LET With(p) == {i \in DOMAIN layers : p \in DOMAIN layers[i]}
        Latest(p) == CHOOSE i \in With(p) : \A j \in With(p) : j <= i
    IN [p \in DOMAIN f \cup UNION {DOMAIN layers[i] : i \in DOMAIN layers} |->
          IF With(p) = {} THEN f[p] ELSE layers[Latest(p)][p]]

\* Writing records over files.
File(record) == [p \in {record.path} |-> record.value]
Written(f, records) == Layered(f, [i \in DOMAIN records |-> File(records[i])])

RecordsOf(f) == {[path |-> p, value |-> f[p]] : p \in DOMAIN f}

\* The records of an entry, up to the first empty one.
Decoded(entry) ==
    LET raw == [i \in 1 .. entry.sectors |-> data[entry.start + i - 1]]
        valid == {n \in 0 .. entry.sectors : \A i \in 1 .. n : raw[i] # NoRecord}
    IN SubSeq(raw, 1, CHOOSE n \in valid : \A k \in valid : k <= n)

WithMarker(f, name) == Written(f, <<[path |-> Marker(name), value |-> ""]>>)

\* What an entry brings back.
Restored(entry) == WithMarker(Written(NoFiles, Decoded(entry)), entry.name)

\* What may go wrong in a replay: there is no memory for the payload of entry i,
\* or it cannot be read, and it is skipped; path p of it cannot be created; p is
\* created or truncated, and cannot be written.
Skipped(i) == <<"skipped", i, << >>>>
Absent(i, p) == <<"absent", i, p>>
Emptied(i, p) == <<"empty", i, p>>

Mishaps ==
    UNION {{Skipped(i)} \cup {Absent(i, p) : p \in DOMAIN Restored(index[i])}
             \cup {Emptied(i, p) : p \in {q \in DOMAIN Restored(index[i]) : Restored(index[i])[q] # ""}}
           : i \in DOMAIN index}

\* Mutant: an entry is replayed in the place of another, the oldest last.
KeptOldest(i, lost) == Restored(index[Len(index) + 1 - i])

\* What is brought back of entry i: the marker is written whatever became of the
\* files.
Kept(i, lost) ==
    LET all == Restored(index[i])
    IN [p \in {q \in DOMAIN all : Skipped(i) \notin lost /\ Absent(i, q) \notin lost} |->
          IF Emptied(i, p) \in lost THEN "" ELSE all[p]]

\* storage_restore_packages, with these mishaps.
Replay(lost) == Layered(Seed, [i \in DOMAIN index |-> Kept(i, lost)])

\* Only a file that is not there yet can fail to be created.
Possible(lost) ==
    \A i \in DOMAIN index : \A p \in DOMAIN Restored(index[i]) :
      Absent(i, p) \in lost =>
        p \notin DOMAIN Seed /\ \A j \in 1 .. i - 1 : p \notin DOMAIN Kept(j, lost)

Missed(lost) ==
    UNION {{p \in DOMAIN Restored(index[i]) : {Skipped(i), Absent(i, p), Emptied(i, p)} \cap lost # {}}
           : i \in DOMAIN index}

\* At most MaxLost of a set.
Few(S) == UNION {{{g[k] : k \in 1 .. n} : g \in [1 .. n -> S]} : n \in 0 .. MaxLost}
-----------------------------------------------------------------------------
Init ==
    /\ super = Blank /\ index = << >>
    /\ data = [lba \in Sectors |-> NoRecord]
    /\ sb = Empty /\ files = NoFiles /\ job = Off
    /\ log = << >> /\ saved = NoFiles /\ since = {} /\ jobs = 0
    /\ missed = {}

\* storage_init with a disk: the superblock is read, and formatted anew when it
\* is not one; whether that write succeeds is not looked at.
StorageInit ==
    \/ /\ super.magic /\ super.next >= DataStart
       /\ sb' = super
       /\ UNCHANGED super
    \/ /\ ~(super.magic /\ super.next >= DataStart)
       /\ sb' = [magic |-> TRUE, next |-> DataStart]
       /\ super' \in {super, sb'}
    \/ /\ ReadFaults
       /\ sb' = Empty
       /\ UNCHANGED super

\* The kernel starts: RamFs::init, storage_init and storage_restore_packages.
Boot ==
    /\ job = Off
    /\ StorageInit
    /\ \E unread \in IF ReadFaults THEN SUBSET DOMAIN index ELSE {{}}, few \in Few(Mishaps) :
         LET lost == few \cup {Skipped(i) : i \in unread}
         IN /\ Possible(lost)
            /\ files' = Replay(lost)
            /\ missed' = Missed(lost)
    /\ job' = Idle
    /\ UNCHANGED <<index, data, history>>

\* The power goes, or the machine is reset.
PowerCut ==
    /\ job # Off
    /\ job' = Off
    /\ files' = NoFiles /\ missed' = {}
    /\ sb' = Empty
    /\ UNCHANGED <<disk, history>>
-----------------------------------------------------------------------------
\* A caller stores the records of f, in some order, under a name.
Store(name, f) ==
    /\ job' = [at |-> "data", name |-> name, files |-> f,
               left |-> RecordsOf(f), done |-> 0, start |-> sb.next]
    /\ since' = since \cup {f}
    /\ jobs < MaxJobs /\ jobs' = jobs + 1
    /\ UNCHANGED <<log, saved>>

Return(ok) == job' = [at |-> IF ok THEN "stored" ELSE "failed", name |-> job.name, files |-> job.files]

\* storage_write: one data sector.
WriteSector ==
    LET lba == job.start + job.done
        record == CHOOSE r \in job.left : TRUE
        filled == IF lba \in Sectors THEN [data EXCEPT ![lba] = record] ELSE data
    IN /\ job.at = "data" /\ job.left # {}
       /\ \/ /\ lba \in Sectors
             /\ data' = filled
             /\ job' = [job EXCEPT !.done = @ + 1, !.left = @ \ {record}]
          \/ /\ data' \in {data, filled}
             /\ Return(FALSE)
       /\ UNCHANGED <<super, index, sb, files, history>>

\* Mutant: the superblock is not written back.
WriteSuperblockLater ==
    /\ job.at = "data" /\ job.left = {}
    /\ sb' = [sb EXCEPT !.next = @ + job.done]
    /\ job' = [job EXCEPT !.at = "index"]
    /\ UNCHANGED <<disk, files, history>>

\* storage_write: then the superblock, advanced in memory first.
WriteSuperblock ==
    /\ job.at = "data" /\ job.left = {}
    /\ sb' = [sb EXCEPT !.next = @ + job.done]
    /\ \/ /\ super' = sb'
          /\ job' = [job EXCEPT !.at = "index"]
       \/ /\ super' \in {super, sb'}
          /\ Return(FALSE)
    /\ UNCHANGED <<index, data, files, history>>

Entry == [name |-> job.name, start |-> job.start, sectors |-> job.done]

\* Mutant: a new entry replaces the last one.
AppendedOver(entries, new) == Append(SubSeq(entries, 1, Len(entries) - 1), new)

\* A new entry goes behind the others.
Appended(entries, new) == Append(entries, new)

Full(entries) == Len(entries) >= IndexRoom

\* storage_add_index_entry: an index that cannot be read is taken for empty.
AddIndexEntry ==
    /\ job.at = "index"
    /\ \E kept \in {<<index, log>>} \cup (IF ReadFaults THEN {<<<< >>, << >>>>} ELSE {}) :
         LET new == Appended(kept[1], Entry)
         IN \/ /\ Full(kept[1])
               /\ Return(FALSE)
               /\ UNCHANGED <<index, history>>
            \/ /\ ~Full(kept[1])
               /\ index' = new /\ log' = Append(kept[2], job.files)
               /\ saved' = job.files /\ since' = {} /\ UNCHANGED jobs
               /\ Return(TRUE)
            \/ /\ ~Full(kept[1])
               /\ \/ UNCHANGED <<index, log>>
                  \/ index' = new /\ log' = Append(kept[2], job.files)
               /\ Return(FALSE)
               /\ UNCHANGED <<saved, since, jobs>>
    /\ UNCHANGED <<super, data, sb, files>>

StorageStep == WriteSector \/ WriteSuperblock \/ AddIndexEntry
-----------------------------------------------------------------------------
\* Every variable keeps its type.
TypeOK ==
    /\ super.magic \in BOOLEAN /\ super.next \in {0} \cup DataStart .. DiskEnd
    /\ sb.magic \in BOOLEAN /\ sb.next \in DataStart .. DiskEnd
    /\ Len(index) <= IndexRoom
    /\ \A i \in DOMAIN index : index[i].start \in Sectors
    /\ DOMAIN data = Sectors
    /\ job.at \in {"off", "none", "data", "index", "stored", "failed"}
    /\ jobs \in 0 .. MaxJobs

Agrees(f, g) == \A p \in DOMAIN f : p \in DOMAIN g /\ g[p] = f[p]

\* Every entry of the index is whole: its sectors hold the records it was
\* written for, wherever the power went and whichever writes failed, before or
\* since.
IndexIntact ==
    /\ Len(log) = Len(index)
    /\ \A i \in DOMAIN index : Written(NoFiles, Decoded(index[i])) = log[i]

\* What storage_write hands out lies above all that the index refers to, on the
\* disk too, so the next start of the kernel does not overwrite it.
LogAboveIndex ==
    \A i \in DOMAIN index : index[i].start + index[i].sectors <= super.next

\* Whenever the power goes, what is on the disk is an index of whole entries,
\* all of them below the sector from which the next start goes on writing.
StoreIntact == TypeOK /\ IndexIntact /\ LogAboveIndex
=============================================================================
