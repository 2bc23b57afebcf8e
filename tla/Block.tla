------------------------------- MODULE Block -------------------------------
(***************************************************************************)
(* The table of block devices (kernel/block.cpp) and the partitions found  *)
(* on them (kernel/block_partition.cpp).  Every device of the table is     *)
(* searched for a partition table, the partitions that the search adds     *)
(* included, so that a partition may lie in another.                       *)
(***************************************************************************)
EXTENDS Integers, Sequences, SequencesExt, FiniteSets

CONSTANTS
    Disks,          \* what drivers register: name -> [size, mod, writable, mbr], where
                    \* mod is the first block number that the driver cannot hand on
                    \* (2^28 for IDE) and mbr gives the entries in the sectors with
                    \* the signature
    TableSize,      \* entries of g_devices
    MaxPartitions,  \* kMaxPartitions
    NameParts       \* suffixes that fit in a name of 16 bytes

VARIABLES
    devices,    \* g_devices, up to the first free entry
    parts,      \* g_partitions, with their names: [used, base, start, sectors, name]
    visit,      \* the entry that block_visit_devices is at, 0 before it
    access      \* the last access and the blocks it touched

blockVars == <<devices, parts, visit, access>>

Slots == 1 .. MaxPartitions
Free == [used |-> FALSE, base |-> <<>>, start |-> 0, sectors |-> 0, name |-> <<>>]
NoAccess == [device |-> <<>>, op |-> "none", touched |-> {}]

Disk(d) == <<"disk", d>>
Partition(slot) == <<"part", slot>>
IsDisk(dev) == dev[1] = "disk"

Name(dev) == IF IsDisk(dev) THEN <<dev[2]>> ELSE parts[dev[2]].name

\* block_register_device: the table afterwards, the same when it is full.
Registered(table, dev) == IF Len(table) < TableSize THEN Append(table, dev) ELSE table

\* block_find_by_name
FindByName(name) == SelectInSeq(devices, LAMBDA dev : Name(dev) = name)

-----------------------------------------------------------------------------
\* Mutant: the length of the access is left out.
InsideStart(rec, lba, count) == lba < rec.sectors

Inside(rec, lba, count) == lba + count <= rec.sectors

\* What a driver hands on of a block number: IDE keeps the low 28 bits.
HandedOn(d, number) == <<d, number % Disks[d].mod>>

\* The blocks that a disk moves: one after the other, up to the first that it does
\* not have.  No driver compares them with the size of the disk.
Moved(d, lba, count) ==
    {HandedOn(d, lba + k) : k \in {j \in 0 .. count - 1 :
       \A i \in 0 .. j : HandedOn(d, lba + i)[2] < Disks[d].size}}

\* read_partition_impl and write_partition_impl down to the disk: the blocks
\* that are moved.  A partition has a write function when its base has one.
RECURSIVE Blocks(_, _, _, _, _)
Blocks(table, dev, op, lba, count) ==
    IF IsDisk(dev)
    THEN IF op = "write" => Disks[dev[2]].writable THEN Moved(dev[2], lba, count) ELSE {}
    ELSE LET rec == table[dev[2]]
         IN IF rec.used /\ Inside(rec, lba, count)
            THEN Blocks(table, rec.base, op, rec.start + lba, count) ELSE {}

\* build_partition_name, which leaves the number out when there is no room.
BuildName(base, i) == IF Len(base) > NameParts THEN base ELSE Append(base, i)

\* The entries of the boot sector, none without a signature or when it cannot
\* be read.
BootEntries(dev) ==
    LET boot == Blocks(parts, dev, "read", 0, 1)
    IN IF boot = {} THEN <<>>
       ELSE LET at == CHOOSE b \in boot : TRUE
                mbr == Disks[at[1]].mbr
            IN IF at[2] \in DOMAIN mbr THEN mbr[at[2]] ELSE <<>>

FreeSlots(table) == {slot \in Slots : ~table[slot].used}

\* Mutant: the slot of a partition that was not registered is not given back.
AddPartitionKept(dev, t, i, entry) ==
    LET slot == CHOOSE k \in FreeSlots(t.parts) : \A j \in FreeSlots(t.parts) : k <= j
        rec == [used |-> TRUE, base |-> dev, start |-> entry.start, sectors |-> entry.sectors,
                name |-> BuildName(Name(dev), i)]
    IN [parts |-> [t.parts EXCEPT ![slot] = rec], devices |-> Registered(t.devices, Partition(slot))]

\* An entry takes the first free slot, given back when it is not registered.
AddPartition(dev, t, i, entry) ==
    LET slot == CHOOSE k \in FreeSlots(t.parts) : \A j \in FreeSlots(t.parts) : k <= j
        rec == [used |-> Len(t.devices) < TableSize, base |-> dev, start |-> entry.start,
                sectors |-> entry.sectors, name |-> BuildName(Name(dev), i)]
    IN [parts |-> [t.parts EXCEPT ![slot] = rec], devices |-> Registered(t.devices, Partition(slot))]

\* scan_mbr_partitions: empty entries are passed over; without a free slot the
\* rest is not looked at.
ScanMbrPartitions(dev) ==
    LET entries == BootEntries(dev)
        Step(t, i) ==
            IF entries[i].type = 0 \/ entries[i].sectors = 0 \/ FreeSlots(t.parts) = {} THEN t
            ELSE AddPartition(dev, t, i, entries[i])
    IN FoldLeft(Step, [parts |-> parts, devices |-> devices], [i \in DOMAIN entries |-> i])

-----------------------------------------------------------------------------
Init ==
    /\ devices = <<>> /\ parts = [slot \in Slots |-> Free]
    /\ visit = 0 /\ access = NoAccess

\* A driver registers its disk at boot.
Register(d) ==
    /\ visit = 0 /\ FindByName(<<d>>) = 0
    /\ devices' = Registered(devices, Disk(d))
    /\ devices' # devices
    /\ UNCHANGED <<parts, visit, access>>

\* kmain visits the devices; the next entry, if there is one by then.
Visit ==
    /\ visit < TableSize
    /\ visit' = visit + 1
    /\ IF visit' <= Len(devices)
       THEN LET found == ScanMbrPartitions(devices[visit'])
            IN parts' = found.parts /\ devices' = found.devices
       ELSE UNCHANGED <<devices, parts>>
    /\ UNCHANGED access

\* A call of a device's read or write function.
Access(i, op, lba, count) ==
    /\ visit > 0 /\ i <= Len(devices)
    /\ access' = [device |-> devices[i], op |-> op, touched |-> Blocks(parts, devices[i], op, lba, count)]
    /\ UNCHANGED <<devices, parts, visit>>

Sizes == {Disks[d].size : d \in DOMAIN Disks}
MaxSize == CHOOSE n \in Sizes : \A k \in Sizes : k <= n

Next ==
    \/ \E d \in DOMAIN Disks : Register(d)
    \/ Visit
    \/ \E i \in 1 .. TableSize, op \in {"read", "write"}, lba \in 0 .. MaxSize, count \in 1 .. 2 :
         Access(i, op, lba, count)

Spec == Init /\ [][Next]_blockVars

-----------------------------------------------------------------------------
\* The block of the disk that holds a block of a device.
RECURSIVE Home(_, _)
Home(dev, k) ==
    IF IsDisk(dev) THEN <<dev[2], k>> ELSE Home(parts[dev[2]].base, parts[dev[2]].start + k)

\* Whether block k of a device is a block of every device it lies in.
RECURSIVE Within(_, _)
Within(dev, k) ==
    IsDisk(dev) \/ (k < parts[dev[2]].sectors /\ Within(parts[dev[2]].base, parts[dev[2]].start + k))

\* The blocks of the disk that are handed on for a partition's own.
Extent(dev) ==
    {HandedOn(Home(dev, k)[1], Home(dev, k)[2]) : k \in {j \in 0 .. parts[dev[2]].sectors - 1 : Within(dev, j)}}

RECURSIVE Bottom(_)
Bottom(dev) == IF IsDisk(dev) THEN dev[2] ELSE Bottom(parts[dev[2]].base)

\* An access through a partition moves only blocks that are its own and those of
\* every partition it lies in, as far as the driver hands their numbers on: a
\* table entry that reaches past the numbers of the driver (2^28 for IDE) comes
\* out at the start of the disk, every other one stays where it claims to be.
\* And nothing is written to a disk that has no write function.
PartitionsConfined ==
    access # NoAccess =>
      /\ ~IsDisk(access.device) => access.touched \subseteq Extent(access.device)
      /\ access.op = "write" /\ access.touched # {} => Disks[Bottom(access.device)].writable

\* Slots and table agree, also when either is full: a slot is in use exactly
\* when its partition is in the table, once, and block_find_by_name tells the
\* devices apart unless they are nested deeper than names have room for.
DeviceTableAgrees ==
    /\ \A slot \in Slots :
         Cardinality({i \in DOMAIN devices : devices[i] = Partition(slot)}) = IF parts[slot].used THEN 1 ELSE 0
    /\ \A i \in DOMAIN devices :
         Len(Name(devices[i])) <= NameParts => FindByName(Name(devices[i])) = i
=============================================================================
