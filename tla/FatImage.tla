------------------------------ MODULE FatImage ------------------------------
(***************************************************************************)
(* The builder of the boot disk: tools/efiImageBuilder/main.cpp.  A FAT16  *)
(* volume is written into a file sector by sector, alone or as the first   *)
(* partition of a disk whose second partition is a file system made by     *)
(* mkfs.  An image sector is a token that says what was written there.     *)
(***************************************************************************)
EXTENDS Integers, Sequences, SequencesExt, FiniteSets

CONSTANTS
    SectorBytes,        \* kBytesPerSector
    SectorsPerCluster,  \* kSectorsPerCluster
    RootSectors,        \* root_dir_sectors()
    BootSectors,        \* sectors of the boot volume (kBootPartitionMiB)
    Alignment,          \* kPartitionAlignmentSectors
    Unit,               \* sectors of a MiB
    Runs                \* command lines: [kernels, sizes, disk, readable], the sizes
                        \* in bytes by file name and the disk in units

Reserved == 1
NumFats == 2
Eoc == 65535
ClusterBytes == SectorsPerCluster * SectorBytes
FatSlots == SectorBytes \div 2
Zero == <<"zero">>

VARIABLES
    opts,       \* the run
    stage,      \* where main() is; "written" and "failed" are its ends
    image       \* the output file: a function on its sectors

fatVars == <<opts, stage, image>>

-----------------------------------------------------------------------------
(* compute_layout                                                          *)

Ceil(n, d) == (n + d - 1) \div d

\* The number of clusters and the size of a FAT depend on each other.
RECURSIVE Settle(_, _)
Settle(i, fat) ==
    LET clusters == (BootSectors - Reserved - RootSectors - NumFats * fat) \div SectorsPerCluster
        needed == Ceil((clusters + 2) * 2, SectorBytes)
    IN IF needed = fat \/ i = 16 THEN [fat |-> needed, clusters |-> clusters]
       ELSE Settle(i + 1, needed)

Layout ==
    LET settled == Settle(1, 0)
    IN [fat |-> settled.fat, clusters |-> settled.clusters,
        root |-> Reserved + NumFats * settled.fat,
        data |-> Reserved + NumFats * settled.fat + RootSectors]

\* cluster_to_sector
ClusterToSector(cluster) == Layout.data + (cluster - 2) * SectorsPerCluster

-----------------------------------------------------------------------------
(* What is written, as functions from sectors of the volume.               *)

Files == <<"BOOTX64.EFI", "KERNEL.ELF", "KERNEL64.ELF", "GRUB.CFG">>
Included == IF opts.kernels THEN Files ELSE SubSeq(Files, 1, 1)
SizeOf(f) == opts.sizes[f]
ClustersOf(f) == Ceil(SizeOf(f), ClusterBytes)


FileStart == IF opts.kernels THEN 6 ELSE 4

\* Files follow each other.
StartOf(f) ==
    LET before == SelectInSeq(Files, LAMBDA g : g = f) - 1
    IN FoldLeft(LAMBDA sum, g : sum + ClustersOf(g), FileStart, SubSeq(Files, 1, before))

\* The entries that write_fat_tables sets; later settings win.
FatEntry(cluster) ==
    LET owner == {i \in DOMAIN Included : LET f == Included[i]
                    IN cluster \in StartOf(f) .. StartOf(f) + ClustersOf(f) - 1}
    IN IF owner # {}
       THEN LET f == Included[CHOOSE i \in owner : TRUE]
            IN IF cluster = StartOf(f) + ClustersOf(f) - 1 THEN Eoc ELSE cluster + 1
       ELSE CASE cluster = 0 -> 65528
              [] cluster \in {1, 2, 3, 5} -> Eoc
              [] cluster = 4 /\ opts.kernels -> Eoc
              [] OTHER -> 0

FatSector(k) == <<"fat", [j \in 0 .. FatSlots - 1 |-> FatEntry(k * FatSlots + j)]>>

Dir(name, cluster) == [name |-> name, dir |-> TRUE, cluster |-> cluster, size |-> 0]
File(name) == [name |-> name, dir |-> FALSE, cluster |-> StartOf(name), size |-> SizeOf(name)]

NoEntry == [name |-> "", dir |-> FALSE, cluster |-> 0, size |-> 0]

\* write_root_directory and write_directory_clusters.  The size of the seed is
\* always given as 0: its slot in BOOT stays empty, the one behind it is used.
RootEntries == <<Dir("EFI", 2)>> \o (IF opts.kernels THEN <<Dir("BOOT", 4)>> ELSE <<>>)
Directories ==
    [c \in IF opts.kernels THEN {2, 3, 4, 5} ELSE {2, 3} |->
       CASE c = 2 -> <<Dir(".", 2), Dir("..", 0), Dir("BOOT", 3)>>
         [] c = 3 -> <<Dir(".", 3), Dir("..", 2), File("BOOTX64.EFI")>>
         [] c = 4 -> <<Dir(".", 4), Dir("..", 0), File("KERNEL.ELF"), File("KERNEL64.ELF"),
                      NoEntry, Dir("GRUB", 5)>>
         [] OTHER -> <<Dir(".", 5), Dir("..", 4), File("GRUB.CFG")>>]

\* Sector s of a file: its bytes there.
Piece(f, s) == <<"file", f, s, LET left == SizeOf(f) - s * SectorBytes
                               IN IF left < SectorBytes THEN left ELSE SectorBytes>>

\* A write of contents at consecutive sectors of the volume that starts at base.
Written(base, at, contents) ==
    [i \in DOMAIN image |-> IF i - base - at \in 0 .. Len(contents) - 1
                            THEN contents[i - base - at + 1] ELSE image[i]]

-----------------------------------------------------------------------------
(* main()                                                                  *)

Base == IF opts.kernels THEN Alignment ELSE 0
PersistStart == Alignment + BootSectors
DiskSectors == opts.disk * Unit
PersistSectors == IF DiskSectors > PersistStart THEN DiskSectors - PersistStart ELSE 0

Required ==
    FoldLeft(LAMBDA sum, f : sum + ClustersOf(f), IF opts.kernels THEN 4 ELSE 3, Included)

Init == opts \in Runs /\ stage = "check" /\ image = <<>>

\* Files are read, the volume must be large enough, and the disk must have room
\* for the second partition, a whole number of MiB as it turns out.
Check ==
    /\ stage = "check"
    /\ stage' = IF ~opts.readable \/ Layout.clusters < Required THEN "failed"
                ELSE IF ~opts.kernels THEN "create"
                ELSE IF PersistSectors \div Unit = 0 THEN "failed" ELSE "mkfs"
    /\ UNCHANGED <<opts, image>>

\* The sectors that mkfs fills from the staged tree, which is as many whole MiB
\* as there is room for; none if a command fails.
MadeSectors(ok) == IF ok THEN (PersistSectors \div Unit) * Unit ELSE 0

\* The result must fill the partition.
MakeExt4 ==
    /\ stage = "mkfs"
    /\ \E ok \in BOOLEAN :
         stage' = IF MadeSectors(ok) = PersistSectors THEN "create" ELSE "failed"
    /\ UNCHANGED <<opts, image>>

\* A stage that writes goes wrong only at the end, when the stream is looked at.
WriteStage(from, to, new) ==
    /\ stage = from /\ stage' = to
    /\ image' = new
    /\ UNCHANGED opts

Create ==
    \/ WriteStage("create", "boot", [i \in 0 .. (IF opts.kernels THEN DiskSectors ELSE BootSectors) - 1 |-> Zero])
    \/ stage = "create" /\ stage' = "failed" /\ UNCHANGED <<opts, image>>

Mbr == <<"mbr", <<[start |-> Alignment, sectors |-> BootSectors], [start |-> PersistStart, sectors |-> PersistSectors]>>>>
BootSector == <<"bpb", [fat |-> Layout.fat, root |-> RootSectors, total |-> BootSectors]>>

\* write_mbr and write_boot_sector
WriteBoot ==
    LET boot == Written(Base, 0, <<BootSector>>)
    IN WriteStage("boot", "fat", IF opts.kernels THEN [boot EXCEPT ![0] = Mbr] ELSE boot)

\* write_fat_tables: both copies.
WriteFat ==
    WriteStage("fat", "dirs",
        Written(Base, Reserved, [k \in 1 .. NumFats * Layout.fat |-> FatSector((k - 1) % Layout.fat)]))

\* Every directory is a cluster with its entries at the start.
DirCluster(c) == <<<<"dir", Directories[c]>>>> \o [i \in 1 .. SectorsPerCluster - 1 |-> Zero]

WriteDirs ==
    LET root == Written(Base, Layout.root, <<<<"dir", RootEntries>>>> \o [i \in 1 .. RootSectors - 1 |-> Zero])
        Of(i) == {c \in DOMAIN Directories : i - Base - ClusterToSector(c) \in 0 .. SectorsPerCluster - 1}
    IN WriteStage("dirs", "files",
         [i \in DOMAIN image |->
            IF Of(i) = {} THEN root[i]
            ELSE LET c == CHOOSE d \in Of(i) : TRUE IN DirCluster(c)[i - Base - ClusterToSector(c) + 1]])

\* write_file_clusters: whole clusters, the last one padded.
FileSectors(f) ==
    [s \in 1 .. ClustersOf(f) * SectorsPerCluster |->
       IF (s - 1) * SectorBytes < SizeOf(f) THEN Piece(f, s - 1) ELSE Zero]

WriteFiles ==
    LET Owner(i) == {f \in Range(Included) :
                       i - Base - ClusterToSector(StartOf(f)) \in 0 .. Len(FileSectors(f)) - 1}
    IN WriteStage("files", "persist",
         [i \in DOMAIN image |->
            IF Owner(i) = {} THEN image[i]
            ELSE LET f == CHOOSE g \in Owner(i) : \A h \in Owner(i) :
                            SelectInSeq(Files, LAMBDA x : x = h) <= SelectInSeq(Files, LAMBDA x : x = g)
                 IN FileSectors(f)[i - Base - ClusterToSector(StartOf(f)) + 1]])

\* The second partition is copied behind the first, and the stream is looked at.
\* The stream that sized the disk is closed after that: only then does the byte
\* it put at the end of the disk reach the file.
Finish ==
    /\ stage = "persist"
    /\ stage' \in {"written", "failed"}
    /\ image' = IF opts.kernels
                THEN [Written(0, PersistStart, [s \in 1 .. PersistSectors |-> <<"ext4", s - 1>>])
                        EXCEPT ![DiskSectors - 1] = <<"last byte 0", @>>]
                ELSE image
    /\ UNCHANGED opts

Next == Check \/ MakeExt4 \/ Create \/ WriteBoot \/ WriteFat \/ WriteDirs \/ WriteFiles \/ Finish

Spec == Init /\ [][Next]_fatVars

-----------------------------------------------------------------------------
(* A reader of FAT volumes, which knows only the image.                    *)

Volume == IF image[0][1] = "mbr" THEN image[0][2][1].start ELSE 0
Bpb == image[Volume][2]
Link(c, copy) == image[Volume + Reserved + copy * Bpb.fat + c \div FatSlots][2][c % FatSlots]
SectorOf(c) == Volume + Reserved + NumFats * Bpb.fat + Bpb.root + (c - 2) * SectorsPerCluster

\* The clusters of a chain, as long as they are in the volume; a chain that is
\* not closed yields <<0>>.
RECURSIVE Chain(_, _)
Chain(c, seen) ==
    IF c = Eoc THEN <<>>
    ELSE IF c < 2 \/ c \in seen \/ SectorOf(c) + SectorsPerCluster > Volume + Bpb.total THEN <<0>>
    ELSE <<c>> \o Chain(Link(c, 0), seen \cup {c})

Entries(cluster) ==
    LET sector == image[IF cluster = 0 THEN Volume + Reserved + NumFats * Bpb.fat ELSE SectorOf(cluster)]
    IN IF sector[1] = "dir" THEN sector[2] ELSE <<>>

\* The entry with a name in a directory, or one that has no cluster.  An empty
\* slot ends a directory, unless the reader passes over it.
Absent == [name |-> "", dir |-> FALSE, cluster |-> 1, size |-> -1]
Lookup(cluster, name, past) ==
    LET entries == Entries(cluster)
        hit == SelectInSeq(entries, LAMBDA e : e.name = name \/ (e = NoEntry /\ ~past))
    IN IF hit = 0 THEN Absent ELSE IF entries[hit] = NoEntry THEN Absent ELSE entries[hit]

Path(f) ==
    CASE f = "BOOTX64.EFI" -> <<"EFI", "BOOT", f>>
      [] f = "GRUB.CFG" -> <<"BOOT", "GRUB", f>>
      [] OTHER -> <<"BOOT", f>>

RECURSIVE Find(_, _, _)
Find(cluster, path, past) ==
    LET entry == Lookup(cluster, Head(path), past)
    IN IF Len(path) = 1 THEN entry ELSE Find(entry.cluster, Tail(path), past)

\* Sectors of a file as its chain gives them, up to its size.
Content(entry) ==
    LET chain == IF entry.size = 0 THEN <<>> ELSE Chain(entry.cluster, {})
    IN [s \in 1 .. Ceil(entry.size, SectorBytes) |->
          LET k == (s - 1) \div SectorsPerCluster + 1
          IN IF k > Len(chain) \/ chain[k] < 2 THEN Zero
             ELSE image[SectorOf(chain[k]) + ((s - 1) % SectorsPerCluster)]]

ReadsBack(f, entry) ==
    /\ entry.size = SizeOf(f)
    /\ Content(entry) = [s \in 1 .. Ceil(SizeOf(f), SectorBytes) |-> Piece(f, s - 1)]

Found(past) == {f \in Range(Included) : ReadsBack(f, Find(0, Path(f), past))}

=============================================================================
