------------------------------ MODULE RootSeed ------------------------------
(***************************************************************************)
(* How the 64-bit kernel gets its first directories (kernel/kmain64.cpp,   *)
(* kernel/efifs.cpp): from the seed the boot loader passed as a module,    *)
(* or else from the file ROOTFS.SEED of a FAT volume on the first disk     *)
(* that answers.  Text is a sequence of words, blanks and line ends; a     *)
(* sector holds SectorWords of them.  md() is recorded, not carried out.   *)
(***************************************************************************)
EXTENDS Integers, Sequences, SequencesExt

CONSTANTS
    SectorWords,    \* 512 bytes
    LineMax,        \* characters of a line that are kept
    FatClusters,    \* clusters whose entry is in the table that is read
    BufferSectors,  \* sizeof(file_buf), in sectors
    Machines        \* [modules, usb, ide]: the modules' texts, and the volume of
                    \* each disk or NoDisk; dirs is what a seed asks for, has whether
                    \* a volume has one under SeedName, and whole whether its chain
                    \* is as long as its size says

CONSTANTS NoDisk
Eoc == 65528
Newline == "\n"

VARIABLES
    machine,    \* what the kernel was booted on
    pc,         \* where it is; "loaded" and "none" are the results
    disk,       \* the volume on the chosen device
    cluster,    \* c, then fc
    seed,       \* file_start_cluster and file_size
    buffer,     \* the file as far as it was read
    made,       \* the paths given to md()
    faults      \* a read failed

seedVars == <<machine, pc, disk, cluster, seed, buffer, made, faults>>

-----------------------------------------------------------------------------
(* The lines of a seed.                                                    *)

\* The line is what stands between ends of line, cut at the buffer's length.
EatWord(acc, word) ==
    IF word = Newline
    THEN [lines |-> IF acc.line = <<>> THEN acc.lines ELSE Append(acc.lines, acc.line), line |-> <<>>]
    ELSE IF Len(acc.line) < LineMax THEN [acc EXCEPT !.line = Append(@, word)] ELSE acc

\* Mutant: what follows the last end of line is forgotten.
LinesOfEnded(text) == FoldLeft(EatWord, [lines |-> <<>>, line |-> <<>>], text).lines

LinesOf(text) ==
    LET eaten == FoldLeft(EatWord, [lines |-> <<>>, line |-> <<>>], text)
    IN IF eaten.line = <<>> THEN eaten.lines ELSE Append(eaten.lines, eaten.line)

SkipBlanks(line) ==
    LET start == SelectInSeq(line, LAMBDA w : w # " ")
    IN IF start = 0 THEN <<>> ELSE SubSeq(line, start, Len(line))

\* A command is a word; its argument is the rest of the line behind blanks.
Command(line) == IF SkipBlanks(line) = <<>> THEN "" ELSE Head(SkipBlanks(line))
Argument(line) == IF SkipBlanks(line) = <<>> THEN <<>> ELSE SkipBlanks(Tail(SkipBlanks(line)))

\* apply_rootfs_seed_line wants md and a path.
ModuleDirs(text) ==
    LET wanted == SelectSeq(LinesOf(text), LAMBDA l : Command(l) = "md" /\ Argument(l) # <<>>)
    IN [i \in DOMAIN wanted |-> Argument(wanted[i])]

\* efifs takes every command that begins with md, and an empty path too.
EspDirs(text) ==
    LET wanted == SelectSeq(LinesOf(text), LAMBDA l : Command(l) \in {"md", "mdx"})
    IN [i \in DOMAIN wanted |-> Argument(wanted[i])]

-----------------------------------------------------------------------------
(* The boot.                                                               *)

SeedInit ==
    /\ machine \in Machines
    /\ pc = "modules" /\ disk = NoDisk /\ cluster = 0 /\ seed = [start |-> 0, size |-> 0]
    /\ buffer = <<>> /\ made = <<>> /\ faults = FALSE

\* rootfs_module_visitor: the first module is the seed, whatever it holds.
VisitModules ==
    /\ pc = "modules"
    /\ IF machine.modules = <<>> THEN pc' = "device" /\ UNCHANGED made
       ELSE pc' = "loaded" /\ made' = ModuleDirs(Head(machine.modules).text)
    /\ UNCHANGED <<machine, disk, cluster, seed, buffer, faults>>

\* Sector 0 of the USB disk, and if that cannot be read of the IDE disk; it must
\* be the boot sector of a volume with sectors of 512 bytes.
SelectDevice ==
    /\ pc = "device"
    /\ \E usbReads, ideReads \in BOOLEAN :
         LET usb == machine.usb # NoDisk /\ usbReads
             ide == machine.ide # NoDisk /\ ideReads
         IN /\ disk' = IF usb THEN machine.usb ELSE IF ide THEN machine.ide ELSE NoDisk
            /\ faults' = ((machine.usb # NoDisk /\ ~usbReads) \/ (machine.ide # NoDisk /\ ~usb /\ ~ideReads))
            /\ pc' = IF ~usb /\ ~ide THEN "none"
                     ELSE IF (IF usb THEN machine.usb ELSE machine.ide).bps # 512 THEN "none" ELSE "root"
    /\ UNCHANGED <<machine, cluster, seed, buffer, made>>

ReadFails ==
    /\ pc \in {"root", "fat", "search", "file"}
    /\ pc' = "none" /\ faults' = TRUE
    /\ UNCHANGED <<machine, disk, cluster, seed, buffer, made>>

\* The eleven bytes that fat11_equal compares are, of "ROOTFSSEED", its ten and the
\* zero behind it.  No FAT writer makes them of ROOTFS.SEED: names are padded with
\* blanks to eight and three, and write_dir_entry of the image builder would cut
\* it down to "ROOTFS  SEE".
SeedName == "ROOTFSSEED\\0"
BootName == "BOOT       "

\* The first entry of one of the kinds and of the name, up to the end mark.
FirstEntry(entries, kinds, name) ==
    LET hit == SelectInSeq(entries, LAMBDA e : e.kind = "end" \/ (e.kind \in kinds /\ e.name = name))
    IN IF hit = 0 THEN 0 ELSE IF entries[hit].kind = "end" THEN 0 ELSE hit

\* The root directory is read whole if root_buf holds it, and BOOT looked up.
ReadRoot ==
    /\ pc = "root"
    /\ LET hit == FirstEntry(disk.root, {"dir"}, BootName)
       IN IF ~disk.rootFits \/ hit = 0 THEN pc' = "none" /\ UNCHANGED cluster
          ELSE pc' = "fat" /\ cluster' = disk.root[hit].cluster
    /\ UNCHANGED <<machine, disk, seed, buffer, made, faults>>

\* Its search loop runs while c is a cluster.
IsCluster(c) == c >= 2 /\ c < Eoc

ReadFat ==
    /\ pc = "fat"
    /\ pc' = IF disk.fatSectors > disk.fatBuffer THEN "none"
             ELSE IF IsCluster(cluster) THEN "search" ELSE "none"
    /\ UNCHANGED <<machine, disk, cluster, seed, buffer, made, faults>>

\* next_cluster
NextCluster(c) == IF c \in FatClusters THEN disk.fat[c] ELSE 65535

\* One cluster of BOOT: its sectors in order, each up to its end mark.
Search ==
    /\ pc = "search"
    /\ LET sectors == disk.data[cluster]
           At(s) == FirstEntry(sectors[s], {"dir", "file"}, SeedName)
           hits == SelectSeq([s \in DOMAIN sectors |-> s], LAMBDA s : At(s) # 0)
       IN IF hits # <<>>
          THEN LET e == sectors[Head(hits)][At(Head(hits))]
               IN /\ seed' = [start |-> e.cluster, size |-> e.size]
                  /\ cluster' = e.cluster
                  /\ pc' = IF e.cluster = 0 \/ e.size > BufferSectors * SectorWords THEN "none"
                           ELSE IF IsCluster(e.cluster) /\ e.size > 0 THEN "file" ELSE "apply"
          ELSE /\ cluster' = NextCluster(cluster)
               /\ pc' = IF IsCluster(cluster') THEN "search" ELSE "none"
               /\ UNCHANGED seed
    /\ UNCHANGED <<machine, disk, buffer, made, faults>>

\* One cluster of the file: sectors while something remains; the last one counts
\* only as far as the file goes.
ReadFile ==
    /\ pc = "file"
    /\ LET remaining == seed.size - Len(buffer)
           text == FlattenSeq(disk.data[cluster])
       IN /\ buffer' = buffer \o SubSeq(text, 1, IF remaining < Len(text) THEN remaining ELSE Len(text))
          /\ cluster' = NextCluster(cluster)
          /\ pc' = IF IsCluster(cluster') /\ Len(buffer') < seed.size THEN "file" ELSE "apply"
    /\ UNCHANGED <<machine, disk, seed, made, faults>>

\* Behind the end of a chain that is too short the static buffer is still zero,
\* and a zero ends the string that it is in.
Apply ==
    /\ pc = "apply"
    /\ made' = EspDirs(buffer)
    /\ pc' = "loaded"
    /\ UNCHANGED <<machine, disk, cluster, seed, buffer, faults>>

SeedNext == VisitModules \/ SelectDevice \/ ReadFails \/ ReadRoot \/ ReadFat \/ Search \/ ReadFile \/ Apply

SeedSpec == SeedInit /\ [][SeedNext]_seedVars

-----------------------------------------------------------------------------
\* The directories of the seed are made, all of them and in its order, wherever
\* its entry is in BOOT, however its clusters are scattered and whether or not
\* its last line is ended; if there is none or it cannot be read none is made.
\* A volume's seed is found exactly if an entry has the bytes of SeedName, and
\* given up only if there is a reason.  One seed is carried out by half: that of
\* a file whose chain ends before its size; the lines that were read are then
\* carried out, the last one as far as it goes.
SeedApplied ==
    /\ pc = "loaded" /\ machine.modules # <<>> => made = Head(machine.modules).dirs
    /\ pc = "loaded" /\ machine.modules = <<>> =>
         /\ disk.has
         /\ IF disk.whole THEN made = disk.dirs
            ELSE Len(made) <= Len(disk.dirs) /\ \A i \in 1 .. Len(made) - 1 : made[i] = disk.dirs[i]
    /\ pc = "none" => made = <<>> /\ (faults \/ disk = NoDisk \/ ~disk.has)
=============================================================================
