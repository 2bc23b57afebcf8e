-------------------------------- MODULE Vfs --------------------------------
(***************************************************************************)
(* What a FileSystem (kernel/fs/vfs.hpp) promises the callers of the file  *)
(* system calls, over a tree of named files and directories and a table of *)
(* open files.  A path is the sequence of its names; result is what the    *)
(* last call returned.                                                     *)
(***************************************************************************)
EXTENDS Paths, FiniteSets

CONSTANTS
    Bytes,      \* what files hold
    MaxInodes,  \* how many files and directories there can be
    MaxFds,     \* how many can be open
    Removable   \* paths short enough for rd

VARIABLES
    tree,       \* path -> [dir, data], for the paths that exist
    open,       \* descriptor -> [path, offset, read, write], for the open ones
    result

vfsVars == <<tree, open, result>>

Number(n) == <<"number", n>>
Fail == Number(-1)

IsDir(p) == p \in DOMAIN tree /\ tree[p].dir
IsFile(p) == p \in DOMAIN tree /\ ~tree[p].dir
InUse(p) == \E d \in DOMAIN open : open[d].path = p
Children(p) == {q \in DOMAIN tree : q # << >> /\ Parent(q) = p}

With(f, x, y) == [z \in DOMAIN f \cup {x} |-> IF z = x THEN y ELSE f[z]]
Without(f, x) == [z \in DOMAIN f \ {x} |-> f[z]]

Returns(value) == result' = value
NoChange(value) == Returns(value) /\ UNCHANGED <<tree, open>>

-----------------------------------------------------------------------------
\* A file that is missing is created on request, when its parent is a
\* directory; the file is emptied on request.  Both stay done when it then
\* turns out that no descriptor is free.
VOpen(p, fl) ==
    LET exists == p \in DOMAIN tree
        creates == ~exists /\ fl.create /\ IsDir(Parent(p))
        file == IF exists /\ ~(fl.trunc /\ fl.write) THEN tree[p]
                ELSE [dir |-> FALSE, data |-> << >>]
    IN IF p = << >> \/ IsDir(p) \/ ~(exists \/ creates)
          \/ (creates /\ Cardinality(DOMAIN tree) = MaxInodes)
       THEN NoChange(Fail)
       ELSE /\ tree' = With(tree, p, file)
            /\ IF Cardinality(DOMAIN open) = MaxFds
               THEN Returns(Fail) /\ UNCHANGED open
               ELSE \E d \in (3 .. MaxFds + 2) \ DOMAIN open :
                      /\ open' = With(open, d, [path |-> p, offset |-> 0,
                                                read |-> fl.read, write |-> fl.write])
                      /\ Returns(Number(d))

VRead(d, n) ==
    IF d \notin DOMAIN open \/ (d \in DOMAIN open /\ ~open[d].read)
    THEN NoChange(Fail)
    ELSE LET data == tree[open[d].path].data
             from == open[d].offset
             got == IF from >= Len(data) THEN << >>
                    ELSE SubSeq(data, from + 1, IF from + n < Len(data) THEN from + n ELSE Len(data))
         IN /\ Returns(<<"bytes", got>>)
            /\ open' = [open EXCEPT ![d].offset = from + Len(got)]
            /\ UNCHANGED tree

\* Writing past the end leaves arbitrary bytes in the gap.  A write that makes
\* the file longer may find no memory.
VWrite(d, buf) ==
    IF d \notin DOMAIN open \/ (d \in DOMAIN open /\ ~open[d].write)
    THEN NoChange(Fail)
    ELSE LET old == tree[open[d].path].data
             from == open[d].offset
             end == from + Len(buf)
         IN \/ end > Len(old) /\ NoChange(Fail)
            \/ /\ \E gap \in [1 .. (IF from > Len(old) THEN from - Len(old) ELSE 0) -> Bytes] :
                    tree' = [tree EXCEPT ![open[d].path].data =
                               SubSeq(old \o gap, 1, from) \o buf
                               \o SubSeq(old, end + 1, Len(old))]
               /\ open' = [open EXCEPT ![d].offset = end]
               /\ Returns(Number(Len(buf)))

VClose(d) ==
    IF d \notin DOMAIN open THEN NoChange(Fail)
    ELSE /\ open' = Without(open, d)
         /\ Returns(Number(0))
         /\ UNCHANGED tree

VMd(p) ==
    IF IsDir(p) THEN NoChange(Number(0))
    ELSE IF p \in DOMAIN tree \/ ~IsDir(Parent(p)) \/ Cardinality(DOMAIN tree) = MaxInodes
    THEN NoChange(Fail)
    ELSE /\ tree' = With(tree, p, [dir |-> TRUE, data |-> << >>])
         /\ Returns(Number(0))
         /\ UNCHANGED open

\* The entries of a directory, as many as the caller has room for, if any.
VReaddir(p, room) ==
    IF ~IsDir(p) \/ room = 0 THEN NoChange(Fail)
    ELSE \E S \in SUBSET Children(p) :
           /\ Cardinality(S) = IF Cardinality(Children(p)) < room
                               THEN Cardinality(Children(p)) ELSE room
           /\ NoChange(<<"entries", {<<LastName(q), tree[q].dir>> : q \in S}>>)

\* Directories are removed when they are empty, files when they are not open.
VRd(p) ==
    IF p = << >> \/ ~IsDir(p) \/ Children(p) # {} \/ p \notin Removable THEN NoChange(Fail)
    ELSE /\ tree' = Without(tree, p)
         /\ Returns(Number(0))
         /\ UNCHANGED open

\* A path that is relative or too long.
VBadPath == NoChange(Fail)

VUnlink(p) ==
    IF ~IsFile(p) \/ InUse(p) THEN NoChange(Fail)
    ELSE /\ tree' = Without(tree, p)
         /\ Returns(Number(0))
         /\ UNCHANGED open

=============================================================================
