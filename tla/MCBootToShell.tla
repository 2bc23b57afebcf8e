---------------------------- MODULE MCBootToShell ----------------------------
(***************************************************************************)
(* From the tools to the prompt, as one model: a behaviour is one of the   *)
(* macro assembler's chain, of the image builder, of the loading of the    *)
(* seed, of the keyboard, of the line editor or of the shell's commands.   *)
(***************************************************************************)
EXTENDS Toolchain, SequencesExt

CONSTANTS
    SectorBytes, SectorsPerCluster, RootSectors, BootSectors, Alignment, Unit,
    SectorWords, LineMax, BufferSectors, NoDisk,
    RingSize, MaxKeys,
    Keys, MaxLine, Capacity, MaxLines,
    Bytes, MaxInodes, MaxFds, MaxPath, MaxSegments, Chunk, LdEntries, StatEntries, BufferMax, MaxCommands

VARIABLES
    part,
    opts, stage, sectors,
    machine, phase, disk, cluster, seed, text, made, faults,
    port, queue, pending, served, kbuf, head, tail, at, code, next, typed, taken, dropped, raced,
    buffer, pos, ring, count, view, draft, screen, entered, run,
    tree, open, result, cwd, job, shown, failed, before, commands

tools == vars
builder == <<opts, stage, sectors>>
loader == <<machine, phase, disk, cluster, seed, text, made, faults>>
keyboard == <<port, queue, pending, served, kbuf, head, tail, at, code, next, typed, taken, dropped, raced>>
editor == <<buffer, pos, ring, count, view, draft, screen, entered, run>>
shell == <<tree, open, result, cwd, job, shown, failed, before, commands>>
allVars == <<part, tools, builder, loader, keyboard, editor, shell>>

-----------------------------------------------------------------------------
(* Images: files of none to three clusters, disks too small, just too      *)
(* small and large enough, and more clusters than there are.               *)

FileNames == {"BOOTX64.EFI", "KERNEL.ELF", "KERNEL64.ELF", "GRUB.CFG"}
FileSizes == {s \in [FileNames -> {0, 1, 16, 17, 33}] :
                s["KERNEL.ELF"] \in {0, 16, 17} /\ s["KERNEL64.ELF"] \in {1, 17, 33} /\ s["GRUB.CFG"] \in {0, 16, 33}}
ImageRuns ==
    [kernels : BOOLEAN, disk : {11}, readable : {TRUE}, sizes : FileSizes]
      \cup [kernels : BOOLEAN, disk : {8, 10, 12}, readable : BOOLEAN, sizes : {[f \in FileNames |-> 16]}]

(* Seeds: up to three lines, one of them not for md, with and without an   *)
(* end; the file in BOOT's first or second cluster, in clusters in and out *)
(* of order.                                                               *)

SeedLines == {<<"md", " ", "a">>, <<" ", "md", " ", "b">>, <<"#", "md">>, <<>>}
Seeds ==
    {[lines |-> ls, ended |-> e] : ls \in UNION {[1 .. n -> SeedLines] : n \in 0 .. 3}, e \in BOOLEAN}
TextOf(s) ==
    FlattenSeq([i \in DOMAIN s.lines |->
                  s.lines[i] \o (IF i < Len(s.lines) \/ s.ended THEN <<"\n">> ELSE <<>>)])
DirsOf(s) ==
    LET asking == SelectSeq(s.lines, LAMBDA l : l # <<>> /\ Head(l) # "#")
    IN [i \in DOMAIN asking |-> <<Last(asking[i])>>]

Slot(kind, name, first, size) == [kind |-> kind, name |-> name, cluster |-> first, size |-> size]
End == Slot("end", "", 0, 0)
SeedName == "ROOTFSSEED\\0"
Old == Slot("deleted", SeedName, 6, 1)
Label == Slot("label", SeedName, 6, 1)
Kernel == Slot("file", "KERNEL  ELF", 7, 3)

\* Cluster k of a text: two sectors, with what is left of the last one filled up.
Slice(t, k) ==
    LET Word(i) == IF i <= Len(t) THEN t[i] ELSE "?"
    IN [s \in 1 .. 2 |-> [w \in 1 .. SectorWords |-> Word(2 * SectorWords * (k - 1) + SectorWords * (s - 1) + w)]]

\* BOOT is in clusters 3 and 2, the file in the clusters of chain, which may be
\* too few.
Volume(s, chain, inFirst) ==
    LET t == TextOf(s)
        file == Slot("file", SeedName, Head(chain), Len(t))
    IN [bps |-> 512, rootFits |-> TRUE, root |-> <<Slot("label", "BOOT       ", 9, 0), Slot("dir", "EFI        ", 9, 0), Slot("dir", "BOOT       ", 3, 0), End>>,
        fatSectors |-> 1, fatBuffer |-> 1,
        fat |-> [c \in 0 .. 8 |->
                   IF c = 3 THEN 2
                   ELSE IF \E k \in 1 .. Len(chain) - 1 : chain[k] = c
                   THEN chain[(CHOOSE k \in 1 .. Len(chain) - 1 : chain[k] = c) + 1]
                   ELSE 65528],
        data |-> [c \in 2 .. 8 |->
                    CASE c = 3 -> <<<<Old, Kernel>>, IF inFirst THEN <<file, Label>> ELSE <<Label, Kernel>>>>
                      [] c = 2 -> <<<<Label, Kernel>>, IF inFirst THEN <<End, End>> ELSE <<Old, file>>>>
                      [] \E k \in DOMAIN chain : chain[k] = c -> Slice(t, CHOOSE k \in DOMAIN chain : chain[k] = c)
                      [] OTHER -> Slice(<<>>, 1)],
        has |-> Len(t) <= BufferSectors * SectorWords, whole |-> Len(t) <= Len(chain) * 2 * SectorWords,
        dirs |-> DirsOf(s)]

Plain == CHOOSE s \in Seeds : Len(s.lines) = 1 /\ s.lines[1] = <<"md", " ", "a">> /\ s.ended
Volumes == {Volume(s, chain, inFirst) : s \in Seeds, chain \in {<<4, 5, 6, 7>>, <<8, 4, 7, 5>>}, inFirst \in BOOLEAN}
             \cup {Volume(s, chain, TRUE) : s \in Seeds, chain \in {<<6>>, <<8, 5>>}}
Bare(v) == [v EXCEPT !.data[3] = <<<<Kernel, End>>, <<End, End>>>>, !.fat[3] = 65535, !.has = FALSE]
Odd ==
    LET v == Volume(Plain, <<4>>, TRUE)
    IN {Bare(v), [v EXCEPT !.data[3][2][1].name = "ROOTFS  SEE", !.data[2][2] = <<End, End>>, !.has = FALSE], [v EXCEPT !.bps = 0, !.has = FALSE], [v EXCEPT !.rootFits = FALSE, !.has = FALSE], [v EXCEPT !.fatSectors = 2, !.has = FALSE],
        [v EXCEPT !.root = <<End>>, !.has = FALSE], [v EXCEPT !.root[3].cluster = 1, !.has = FALSE],
        [v EXCEPT !.data[3][2][1].cluster = 0, !.has = FALSE]}
Machine(modules, usb, ide) == [modules |-> modules, usb |-> usb, ide |-> ide]
SeedMachines ==
    {Machine(<<>>, v, NoDisk) : v \in Volumes \cup Odd}
      \cup {Machine(<<>>, u, i) : u \in Odd \cup {NoDisk}, i \in {NoDisk, Volume(Plain, <<4>>, TRUE)}}
      \cup {Machine(<<[text |-> TextOf(s), dirs |-> DirsOf(s)], [text |-> <<"?">>, dirs |-> <<>>]>>, NoDisk, NoDisk) : s \in Seeds}

(* Commands: every text of up to three of the characters / . a for cd, and *)
(* those of four that have two dots in a row; for the others every pair of *)
(* a few names.  Other programs have none, one or all of the descriptors.  *)

A == <<"a">>
D == <<"d">>
R == <<"r">>
Directory == [dir |-> TRUE, data |-> <<>>]
Regular(data) == [dir |-> FALSE, data |-> data]
ShellTrees ==
    {<<>> :> Directory @@ <<R>> :> Directory @@ <<R, A>> :> Regular(<<1, 0, 2>>)
       @@ <<D>> :> Directory @@ <<A>> :> Regular(<<1, 2>>)}
Other == [path |-> <<A>>, offset |-> 0, read |-> TRUE, write |-> FALSE]
ShellHeld == {<<>>, 3 :> Other, 3 :> Other @@ 4 :> Other}
Line(cmd, args) == [cmd |-> cmd, args |-> args, text |-> IF cmd \in {"write", "append"} THEN <<2>> ELSE <<>>]
Texts == {<<"a">>, <<"b">>, <<"/", "a">>, <<"/", "d">>, <<".", ".", "/", "d", "/", "a">>}
ShellLines ==
    {Line(c, <<t>>) : t \in Texts,
       c \in {"cd", "ld", "stat", "isdir", "md", "rd", "rm", "cat", "head", "size", "touch", "write", "append", "truncate"}}
      \cup {Line("cd", <<t>>) : t \in UNION {[1 .. n -> {"/", ".", "a"}] : n \in 0 .. 3}}
      \cup {Line("cd", <<t>>) : t \in {u \in [1 .. 4 -> {"/", ".", "a"}] : \E i \in 1 .. 3 : u[i] = "." /\ u[i + 1] = "."}}
      \cup {Line(c, <<t, u>>) : t \in Texts, u \in {<<"b">>, <<"/", "d">>, <<".", ".", "/", "d", "/", "a">>}, c \in {"cp", "mv", "cmp", "touchmany", "rmmany"}}
      \cup {Line("cd", <<>>), Line("ld", <<>>), Line("cat", <<>>), Line("mv", <<A, [i \in 1 .. 7 |-> IF i % 2 = 1 THEN "a" ELSE "/"]>>)}
ShortPaths == UNION {[1 .. n -> {A, D, R, <<"b">>}] : n \in 0 .. 3}

-----------------------------------------------------------------------------
P == INSTANCE ToolchainPrograms
MCPrograms == P!MCPrograms
F == INSTANCE FatImage WITH Runs <- ImageRuns, image <- sectors
S == INSTANCE RootSeed WITH pc <- phase, Machines <- SeedMachines, FatClusters <- 0 .. 8, buffer <- text
K == INSTANCE Keyboard
L == INSTANCE LineEditor
C == INSTANCE Shell WITH Trees <- ShellTrees, Held <- ShellHeld, Lines <- ShellLines, Removable <- ShortPaths

NoTools ==
    /\ program = [sources |-> <<>>, stems |-> <<>>] /\ status = "off" /\ reader = Idle
    /\ expanded = <<>> /\ objects = <<>> /\ image = NoImage
    /\ order = "off" /\ macros = "off" /\ base = "off" /\ mem = "off" /\ regs = "off"
    /\ pc = "off" /\ steps = "off" /\ printed = "off" /\ exitCode = "off"
NoBuilder == opts = "off" /\ stage = "off" /\ sectors = "off"
NoLoader ==
    /\ machine = "off" /\ phase = "off" /\ disk = "off" /\ cluster = "off"
    /\ seed = "off" /\ text = "off" /\ made = "off" /\ faults = "off"
NoKeyboard ==
    /\ port = "off" /\ queue = "off" /\ pending = "off" /\ served = "off" /\ kbuf = "off" /\ head = "off"
    /\ tail = "off" /\ at = "off" /\ code = "off" /\ next = "off" /\ typed = "off"
    /\ taken = "off" /\ dropped = "off" /\ raced = "off"
NoEditor ==
    /\ buffer = "off" /\ pos = "off" /\ ring = "off" /\ count = "off" /\ view = "off"
    /\ draft = "off" /\ screen = "off" /\ entered = "off" /\ run = "off"
NoShell ==
    /\ tree = "off" /\ open = "off" /\ result = "off" /\ cwd = "off" /\ job = "off"
    /\ shown = "off" /\ failed = "off" /\ before = "off" /\ commands = "off"

MCInit ==
    \/ part = "tools" /\ Init /\ NoBuilder /\ NoLoader /\ NoKeyboard /\ NoEditor /\ NoShell
    \/ part = "image" /\ F!Init /\ NoTools /\ NoLoader /\ NoKeyboard /\ NoEditor /\ NoShell
    \/ part = "seed" /\ S!SeedInit /\ NoTools /\ NoBuilder /\ NoKeyboard /\ NoEditor /\ NoShell
    \/ part = "keys" /\ K!KeyInit /\ NoTools /\ NoBuilder /\ NoLoader /\ NoEditor /\ NoShell
    \/ part = "line" /\ L!EditInit /\ NoTools /\ NoBuilder /\ NoLoader /\ NoKeyboard /\ NoShell
    \/ part = "shell" /\ C!Init /\ NoTools /\ NoBuilder /\ NoLoader /\ NoKeyboard /\ NoEditor

MCNext ==
    \/ part = "tools" /\ Next /\ UNCHANGED <<part, builder, loader, keyboard, editor, shell>>
    \/ part = "image" /\ F!Next /\ UNCHANGED <<part, tools, loader, keyboard, editor, shell>>
    \/ part = "seed" /\ S!SeedNext /\ UNCHANGED <<part, tools, builder, keyboard, editor, shell>>
    \/ part = "keys" /\ K!KeyNext /\ UNCHANGED <<part, tools, builder, loader, editor, shell>>
    \/ part = "line" /\ L!EditNext /\ UNCHANGED <<part, tools, builder, loader, keyboard, shell>>
    \/ part = "shell" /\ C!Next /\ UNCHANGED <<part, tools, builder, loader, keyboard, editor>>
    \/ part # "tools" /\ UNCHANGED allVars    \* may stop, where the tools may not

MCSpec == MCInit /\ [][MCNext]_allVars

-----------------------------------------------------------------------------

\* The seed's directories are made, all of them or none, but for a file whose
\* chain is too short (RootSeed).
SeedApplied == part = "seed" => S!SeedApplied

\* Keys reach the console in order, but for one at most (Keyboard).
KeysInOrder == part = "keys" => K!KeysInOrder

\* The line that is carried out is the line that is shown, and the history is
\* the last lines that were entered (LineEditor).
LinesExact == part = "line" => L!LinesExact

\* A command that does not complain has done what it is for (Shell).
CommandsExact == part = "shell" => C!CommandsExact

\* Between commands the shell holds no descriptor (Shell).
NothingLeftOpen == part = "shell" => C!NothingLeftOpen
=============================================================================
