----------------------------- MODULE RamFsCalls -----------------------------
(***************************************************************************)
(* RamFs implements Vfs, call by call: each call of RamFs is, on the tree  *)
(* and the open files that the two tables stand for, the call of Vfs with  *)
(* the same arguments.  kept remembers whether that was so of every call   *)
(* made, calls that change nothing included.  The callers of a behaviour   *)
(* share a workload: the paths, flags and lengths they pass.               *)
(***************************************************************************)
EXTENDS RamFs

CONSTANT Workloads  \* what callers may do, [paths, flags, longest]

ASSUME WorkloadsAssumption ==
    \A w \in Workloads : /\ w.paths \subseteq RawPaths /\ w.flags \subseteq Flags
                         /\ w.longest \in 0 .. MaxWrite

VARIABLES kept, workload

treeOf == [p \in {inodes[i].name : i \in Used} |->
             LET node == inodes[First(Named(p))]
             IN [dir |-> node.dir, data |-> SubSeq(node.data, 1, node.size)]]

openOf == [fd \in {d + kFdOffset : d \in {e \in Fds : fds[e].used}} |->
             LET d == fds[fd - kFdOffset]
             IN [path |-> inodes[d.inode].name, offset |-> d.offset,
                 read |-> d.read, write |-> d.write]]

V == INSTANCE Vfs WITH tree <- treeOf, open <- openOf, result <- ret,
                       Removable <- {p \in {NormalizePath(raw) : raw \in RawPaths} : PrefixFits(p)}

\* What is promised of a call with a path.
OnPath(p, promise) == IF p = NoPath THEN V!VBadPath ELSE promise

PathCalls(raw) ==
    LET p == NormalizePath(raw)
    IN \/ \E fl \in workload.flags : Open(raw, fl) /\ kept' = (kept /\ OnPath(p, V!VOpen(p, fl)))
       \/ Md(raw) /\ kept' = (kept /\ OnPath(p, V!VMd(p)))
       \/ Rd(raw) /\ kept' = (kept /\ OnPath(p, V!VRd(p)))
       \/ Unlink(raw) /\ kept' = (kept /\ OnPath(p, V!VUnlink(p)))
       \/ \E room \in Rooms :
            Readdir(raw, room) /\ kept' = (kept /\ OnPath(p, V!VReaddir(p, room)))

FdCalls(fd) ==
    \/ \E n \in 0 .. workload.longest : Read(fd, n) /\ kept' = (kept /\ V!VRead(fd, n))
    \/ \E buf \in {b \in Buffers : Len(b) <= workload.longest} :
         Write(fd, buf) /\ kept' = (kept /\ V!VWrite(fd, buf))
    \/ Close(fd) /\ kept' = (kept /\ V!VClose(fd))

CallNext ==
    /\ \/ \E raw \in workload.paths : PathCalls(raw)
       \/ \E fd \in Descriptors : FdCalls(fd)
    /\ UNCHANGED workload

CallInit == Init /\ kept = TRUE /\ workload \in Workloads

CallSpec == CallInit /\ [][CallNext]_<<vars, kept, workload>>

\* Every call does to the tree and to the open files, and returns, what a
\* FileSystem promises of it, for the path without its doubled slashes.
CallsAsPromised == kept

=============================================================================
