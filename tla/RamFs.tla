-------------------------------- MODULE RamFs --------------------------------
(***************************************************************************)
(* The RAM file system: kernel/fs/ramfs.cpp.  A flat table of inodes, each *)
(* with its whole path as its name, and one table of descriptors for all   *)
(* tasks.  Every operation holds m_lock from start to end, so each is one  *)
(* action (module SpinLock shows that the lock excludes).                  *)
(*                                                                         *)
(* A path is the sequence of its names; in a caller's path a name may be   *)
(* empty (a doubled or trailing slash).  A file's buffer is a sequence as  *)
(* long as its capacity, of which the first size bytes are the file.       *)
(***************************************************************************)
EXTENDS Paths, FiniteSets, FiniteSetsExt, Scan

CONSTANTS
    RawPaths,   \* paths callers pass
    NameLen,    \* the length of each name
    PathSize,   \* bytes of a path buffer
    Seeds,      \* the directories that init() makes after the root, in order
    Flags,      \* open flags callers pass, [read, write, create, trunc]
    Bytes,      \* what a byte can hold
    MinCapacity,\* capacity of a file's first buffer
    MaxSize,    \* bound: callers write no file longer than this
    MaxWrite,   \* bound: bytes of one write
    Rooms,      \* sizes of the arrays callers pass to readdir
    MaxInodes,  \* kMaxInodes
    MaxFds      \* kMaxFds

Empty == ""     \* a name of no characters
NoPath == <<Empty>>     \* normalize_path's failure
Root == << >>
Names == DOMAIN NameLen

ASSUME RamFsAssumption ==
    /\ RawPaths \subseteq Seq(Names)
    /\ \A c \in Names : NameLen[c] \in Nat
    /\ PathSize \in Nat /\ PathSize > 1
    /\ Flags \subseteq [read : BOOLEAN, write : BOOLEAN, create : BOOLEAN, trunc : BOOLEAN]
    /\ MinCapacity \in Nat \ {0} /\ MaxSize \in Nat /\ MaxWrite \in Nat
    /\ Rooms \subseteq Nat
    /\ MaxInodes \in Nat /\ MaxFds \in Nat
    /\ Seeds \in Seq(Seq(Names)) /\ Len(Seeds) < MaxInodes

VARIABLES
    inodes,     \* m_inodes
    fds,        \* m_fds
    ret         \* what the last call returned

vars == <<inodes, fds, ret>>

Inodes == 0 .. MaxInodes - 1
Fds == 0 .. MaxFds - 1
kFdOffset == 3
Descriptors == kFdOffset - 1 .. kFdOffset + MaxFds

FreeInode == [used |-> FALSE, dir |-> FALSE, name |-> Root, data |-> << >>, size |-> 0]
FreeFd == [used |-> FALSE, inode |-> 0, offset |-> 0, read |-> FALSE, write |-> FALSE]

-----------------------------------------------------------------------------
\* The characters of a normalised path: character 0 of a name is its slash.
PathLen(p) ==
    IF p = Root THEN 1
    ELSE Cardinality(UNION {{i} \X (0 .. NameLen[p[i]]) : i \in DOMAIN p})

\* How many names of a caller's path are not empty, up to the i-th.
Kept(raw, i) == Cardinality({j \in 1 .. i : raw[j] # Empty})

\* A path without its empty names.
WithoutEmpty(raw) ==
    [n \in 1 .. Kept(raw, Len(raw)) |-> raw[First({i \in DOMAIN raw : Kept(raw, i) >= n})]]

\* normalize_path drops empty names.  A trailing slash is written before it is
\* taken off again, so it needs room too.
NormalizePath(raw) ==
    LET p == WithoutEmpty(raw)
        slash == IF p # Root /\ LastName(raw) = Empty THEN 1 ELSE 0
    IN IF PathLen(p) + slash < PathSize THEN p ELSE NoPath

Used == {i \in Inodes : inodes[i].used}

\* find_inode: indices, because a scan may find none.
Named(p) == {i \in Used : inodes[i].name = p}

IsDirectory(p) == Named(p) # {} /\ inodes[First(Named(p))].dir

\* Mutant: the parent of a new file need only exist.
ParentAny(p) == p = Root \/ Named(Parent(p)) # {}

ParentDirectoryExists(p) == p = Root \/ IsDirectory(Parent(p))

NewInode(p, dir) == [used |-> TRUE, dir |-> dir, name |-> p, data |-> << >>, size |-> 0]

OpenOn(i) == \E d \in Fds : fds[d].used /\ fds[d].inode = i

\* get_fd
IsOpen(fd) == fd - kFdOffset \in Fds /\ fds[fd - kFdOffset].used

Number(n) == <<"number", n>>
Fail == Number(-1)
Returns(value) == ret' = value
Fails == Returns(Fail) /\ UNCHANGED <<inodes, fds>>

\* The directories of the seed are distinct, fit their buffers, and each lies in
\* the root or in one made before it.
ASSUME SeedsAssumption ==
    \A i \in DOMAIN Seeds :
      /\ Seeds[i] # Root /\ PathLen(Seeds[i]) < PathSize
      /\ Parent(Seeds[i]) \in {Root} \cup {Seeds[j] : j \in 1 .. i - 1}
      /\ \A j \in DOMAIN Seeds : Seeds[i] = Seeds[j] => i = j

\* init(): the root and the directories of the seed.
Init ==
    /\ inodes = [i \in Inodes |-> IF i = 0 THEN NewInode(Root, TRUE)
                                 ELSE IF i \in DOMAIN Seeds THEN NewInode(Seeds[i], TRUE)
                                 ELSE FreeInode]
    /\ fds = [d \in Fds |-> FreeFd]
    /\ ret = Number(0)

Empties(fl) == fl.trunc /\ fl.write

\* open, past its checks, with the table of inodes it leaves: alloc_fd comes
\* last, and when it finds none the file stays created and emptied.
OpenInode(i, table, fl) ==
    /\ inodes' = IF Empties(fl) THEN [table EXCEPT ![i].size = 0] ELSE table
    /\ LET free == {d \in Fds : ~fds[d].used}
       IN IF free = {} THEN Returns(Fail) /\ UNCHANGED fds
          ELSE /\ fds' = [fds EXCEPT ![First(free)] =
                            [used |-> TRUE, inode |-> i, offset |-> 0,
                             read |-> fl.read, write |-> fl.write]]
               /\ Returns(Number(First(free) + kFdOffset))

Open(raw, fl) ==
    LET p == NormalizePath(raw)
        free == Inodes \ Used
    IN CASE p \in {NoPath, Root} -> Fails
         [] p \notin {NoPath, Root} /\ Named(p) # {} ->
              IF IsDirectory(p) THEN Fails ELSE OpenInode(First(Named(p)), inodes, fl)
         [] OTHER ->
              IF ~fl.create \/ ~ParentDirectoryExists(p) \/ free = {} THEN Fails
              ELSE OpenInode(First(free), [inodes EXCEPT ![First(free)] = NewInode(p, FALSE)], fl)

Read(fd, count) ==
    LET d == fd - kFdOffset
        file == inodes[fds[d].inode]
        from == fds[d].offset
        n == IF from >= file.size THEN 0 ELSE Min({count, file.size - from})
    IN IF ~IsOpen(fd) THEN Fails
       ELSE IF ~fds[d].read THEN Fails
       ELSE /\ Returns(<<"bytes", SubSeq(file.data, from + 1, from + n)>>)
            /\ fds' = [fds EXCEPT ![d].offset = from + n]
            /\ UNCHANGED inodes

\* The capacity that ensure_capacity's loop doubles up to, as a set.
Capacity(file, required) ==
    LET base == IF Len(file.data) = 0 THEN MinCapacity ELSE Len(file.data)
    IN {c \in required .. base + 2 * required :
          (c = base \/ c < 2 * required) /\ \E k \in 0 .. required : c = base * 2^k}

\* Mutant: an old buffer is not copied into the new one.
GrownForgets(file, required) ==
    IF required <= Len(file.data) THEN {file.data}
    ELSE UNION {[1 .. c -> Bytes] : c \in Capacity(file, required)}

\* ensure_capacity: the buffers it may leave.  A new one holds the file's bytes
\* and, behind them, whatever the heap left there.
Grown(file, required) ==
    IF required <= Len(file.data) THEN {file.data}
    ELSE UNION {{SubSeq(file.data, 1, file.size) \o rest : rest \in [1 .. c - file.size -> Bytes]} :
                  c \in Capacity(file, required)}

Overwritten(data, from, buf) ==
    [i \in DOMAIN data |-> IF i - from \in DOMAIN buf THEN buf[i - from] ELSE data[i]]

SizeAfter(file, end) == IF end > file.size THEN end ELSE file.size

\* write; the heap may have no room for a larger buffer.
Write(fd, buf) ==
    LET d == fd - kFdOffset
        i == fds[d].inode
        from == fds[d].offset
        end == from + Len(buf)
    IN IF ~IsOpen(fd) THEN Fails
       ELSE IF ~fds[d].write THEN Fails
       ELSE /\ end <= MaxSize
            /\ \/ end > Len(inodes[i].data) /\ Fails
               \/ /\ \E data \in Grown(inodes[i], end) :
                       inodes' = [inodes EXCEPT ![i].data = Overwritten(data, from, buf),
                                                ![i].size = SizeAfter(inodes[i], end)]
                  /\ fds' = [fds EXCEPT ![d].offset = end]
                  /\ Returns(Number(Len(buf)))

Close(fd) ==
    IF ~IsOpen(fd) THEN Fails
    ELSE /\ fds' = [fds EXCEPT ![fd - kFdOffset] = FreeFd]
         /\ Returns(Number(0))
         /\ UNCHANGED inodes

Md(raw) ==
    LET p == NormalizePath(raw)
        free == Inodes \ Used
    IN CASE p = NoPath -> Fails
         [] p # NoPath /\ Named(p) # {} ->
              Returns(IF IsDirectory(p) THEN Number(0) ELSE Fail) /\ UNCHANGED <<inodes, fds>>
         [] OTHER ->
              IF ~ParentDirectoryExists(p) \/ free = {} THEN Fails
              ELSE /\ inodes' = [inodes EXCEPT ![First(free)] = NewInode(p, TRUE)]
                   /\ Returns(Number(0))
                   /\ UNCHANGED fds

\* Whether prefix + "/" fits in its buffer, as readdir and rd build it.
PrefixFits(p) == PathLen(p) + 1 < PathSize

\* Whether readdir lists an inode under p.
Listed(p, i) ==
    /\ Below(p, inodes[i].name) /\ Len(inodes[i].name) = Len(p) + 1
    /\ p = Root \/ PrefixFits(p)

\* readdir stops when the caller's array is full, and wants one with an entry.
Readdir(raw, room) ==
    LET p == NormalizePath(raw)
        listed == {i \in Used : Listed(p, i)}
        shown == {i \in listed : Cardinality({j \in listed : j < i}) < room}
    IN IF p = NoPath \/ room = 0 THEN Fails
       ELSE IF ~IsDirectory(p) THEN Fails
       ELSE Returns(<<"entries", {<<LastName(inodes[i].name), inodes[i].dir>> : i \in shown}>>)
            /\ UNCHANGED <<inodes, fds>>

HasEntries(p) == \E i \in Used : Below(p, inodes[i].name)

Rd(raw) ==
    LET p == NormalizePath(raw)
    IN IF p \in {NoPath, Root} THEN Fails
       ELSE IF ~IsDirectory(p) \/ ~PrefixFits(p) \/ HasEntries(p)
               \/ OpenOn(First(Named(p))) THEN Fails
       ELSE /\ inodes' = [inodes EXCEPT ![First(Named(p))] = FreeInode]
            /\ Returns(Number(0))
            /\ UNCHANGED fds

\* Mutant: an open file is removed too.
UnlinkOpen(raw) ==
    LET p == NormalizePath(raw)
    IN IF p \in {NoPath, Root} THEN Fails
       ELSE IF Named(p) = {} \/ IsDirectory(p) THEN Fails
       ELSE /\ inodes' = [inodes EXCEPT ![First(Named(p))] = FreeInode]
            /\ Returns(Number(0))
            /\ UNCHANGED fds

Unlink(raw) ==
    LET p == NormalizePath(raw)
    IN IF p \in {NoPath, Root} THEN Fails
       ELSE IF Named(p) = {} \/ IsDirectory(p) THEN Fails
       ELSE IF OpenOn(First(Named(p))) THEN Fails
       ELSE /\ inodes' = [inodes EXCEPT ![First(Named(p))] = FreeInode]
            /\ Returns(Number(0))
            /\ UNCHANGED fds

Buffers == UNION {[1 .. n -> Bytes] : n \in 0 .. MaxWrite}

Next ==
    \/ \E raw \in RawPaths, fl \in Flags : Open(raw, fl)
    \/ \E fd \in Descriptors, n \in 0 .. MaxSize : Read(fd, n)
    \/ \E fd \in Descriptors, buf \in Buffers : Write(fd, buf)
    \/ \E fd \in Descriptors : Close(fd)
    \/ \E raw \in RawPaths : Md(raw) \/ Rd(raw) \/ Unlink(raw)
    \/ \E raw \in RawPaths, room \in Rooms : Readdir(raw, room)

Spec == Init /\ [][Next]_vars

-----------------------------------------------------------------------------
Inode == [used : BOOLEAN, dir : BOOLEAN, name : Seq(Names), data : Seq(Bytes), size : 0 .. MaxSize]
Descriptor == [used : BOOLEAN, inode : Inodes, offset : 0 .. MaxSize, read : BOOLEAN, write : BOOLEAN]

\* Every variable keeps its type.
TypeOK ==
    /\ inodes \in [Inodes -> Inode]
    /\ \A i \in Inodes :
         PathLen(inodes[i].name) < PathSize /\ inodes[i].size <= Len(inodes[i].data)
    /\ fds \in [Fds -> Descriptor]
    /\ ret[1] \in {"number", "bytes", "entries"}

\* The flat table is a tree: no two inodes have the same path, there is always
\* a root, and everything lies in a directory that exists.
TreeWellFormed ==
    /\ \A i, j \in Used : inodes[i].name = inodes[j].name => i = j
    /\ IsDirectory(Root)
    /\ \A i \in Used : ParentDirectoryExists(inodes[i].name)

\* An open descriptor names a file in use: no unlink, rd or reuse of an inode
\* takes it from under a task that still reads or writes it.
HandlesValid ==
    \A d \in Fds : fds[d].used => inodes[fds[d].inode].used /\ ~inodes[fds[d].inode].dir

\* The inodes form a tree and the descriptors name its files, whatever calls
\* were made and however they failed.
TablesWellFormed == TypeOK /\ TreeWellFormed /\ HandlesValid

\* What a descriptor is open on never changes while it is open.
HandlesStable ==
    [][\A d \in Fds : fds[d].used /\ fds'[d].used =>
         inodes[fds[d].inode].name = inodes'[fds'[d].inode].name]_vars

=============================================================================
