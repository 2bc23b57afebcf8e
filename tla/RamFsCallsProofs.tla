-------------------------- MODULE RamFsCallsProofs --------------------------
(***************************************************************************)
(* Every call of RamFs keeps its two tables in order: the inodes form a    *)
(* tree, descriptors name files that exist, and what a descriptor is open  *)
(* on does not change.  Then that RamFs does what Vfs promises, call by    *)
(* call, for tables of any size and any paths, flags, lengths and buffers  *)
(* of the callers.  The lemmas here need no induction; what they need of   *)
(* lengths, sizes and scans is SizesInOrder, which RamFsProofs shows.      *)
(***************************************************************************)
EXTENDS RamFsCalls, TLAPS

\* Zenon proves most leaves; the others name SMT.
USE Zenon

-----------------------------------------------------------------------------
(* The tree, as a property of a table of inodes.                           *)

\* The directory that a path lies in is a strict prefix of it: what rd looks
\* for before it removes a directory.
LEMMA ParentIsAbove ==
    ASSUME NEW p \in Seq(Names), p # Root
    PROVE  Below(Parent(p), p)
  BY SMT DEF Below, Parent, Root

\* No two inodes in use have the same name.
Unique(t) ==
    \A i, j \in Inodes : t[i].used /\ t[j].used /\ t[i].name = t[j].name => i = j

\* Some inode is the directory p.
HasDir(t, p) == \E i \in Inodes : t[i].used /\ t[i].name = p /\ t[i].dir

Tree(t) ==
    /\ Unique(t)
    /\ HasDir(t, Root)
    /\ \A i \in Inodes : t[i].used => t[i].name = Root \/ HasDir(t, Parent(t[i].name))

\* What lies in directory p, as indices.
EntriesIn(p) == {i \in Used : inodes[i].name # Root /\ Parent(inodes[i].name) = p}

\* find_inode finds the only inode with a name.
LEMMA FoundInode ==
    ASSUME Unique(inodes), NEW p, Named(p) # {}
    PROVE  /\ First(Named(p)) \in Inodes
           /\ inodes[First(Named(p))].used /\ inodes[First(Named(p))].name = p
           /\ \A i \in Named(p) : i = First(Named(p))
<1>1. PICK i \in Named(p) : \A j \in Named(p) : j = i
  BY DEF Named, Used, Unique
<1>2. First(Named(p)) \in Named(p)
  <2>1. i \in Int
    BY RamFsAssumption, SMT DEF Named, Used, Inodes
  <2>2. \A j \in Named(p) : i <= j
    BY <1>1, <2>1, SMT
  <2> QED
    BY <2>2 DEF First
<1> QED
  BY <1>2 DEF Named, Used, Unique

\* Asking find_inode for a directory is asking whether there is one.
LEMMA IsDirectoryIs ==
    Unique(inodes) => \A p : IsDirectory(p) <=> HasDir(inodes, p)
<1> SUFFICES ASSUME Unique(inodes), NEW p
             PROVE  IsDirectory(p) <=> HasDir(inodes, p)
  OBVIOUS
<1>1. CASE Named(p) = {}
  BY <1>1 DEF IsDirectory, HasDir, Named, Used
<1>2. CASE Named(p) # {}
  BY <1>2, FoundInode DEF IsDirectory, HasDir, Named, Used
<1> QED
  BY <1>1, <1>2

\* TreeWellFormed, which searches with find_inode, says that the table is a tree.
LEMMA TreeWellFormedIs ==
    TreeWellFormed <=> Tree(inodes)
<1>1. Unique(inodes) <=> \A i, j \in Used : inodes[i].name = inodes[j].name => i = j
  BY DEF Unique, Used
<1>2. CASE Unique(inodes)
  <2>1. \A p : IsDirectory(p) <=> HasDir(inodes, p)
    BY <1>2, IsDirectoryIs
  <2> QED
    BY <1>1, <2>1 DEF TreeWellFormed, Tree, Used, ParentDirectoryExists
<1>3. CASE ~Unique(inodes)
  BY <1>1, <1>3 DEF TreeWellFormed, Tree
<1> QED
  BY <1>2, <1>3

\* The same after a step.
LEMMA TreeWellFormedNext ==
    TreeWellFormed' <=> Tree(inodes')
<1>1. TreeWellFormed' <=> Tree(inodes)'
  BY TreeWellFormedIs, PTL
<1> QED
  BY <1>1 DEF Tree, Unique, HasDir

\* Whether an inode is the same in two tables as far as the tree goes.
Same(t, u, i) == u[i].used = t[i].used /\ u[i].name = t[i].name /\ u[i].dir = t[i].dir

\* Writing to a file leaves the tree alone.
LEMMA TreeKept ==
    ASSUME NEW t, NEW u, Tree(t), \A i \in Inodes : Same(t, u, i)
    PROVE  Tree(u)
<1>1. Unique(u)
  BY DEF Tree, Unique, Same
<1>2. ASSUME NEW p, HasDir(t, p) PROVE HasDir(u, p)
  BY <1>2 DEF HasDir, Same
<1>3. ASSUME NEW i \in Inodes, u[i].used PROVE u[i].name = Root \/ HasDir(u, Parent(u[i].name))
  BY <1>2, <1>3 DEF Tree, Same
<1> QED
  BY <1>1, <1>2, <1>3 DEF Tree

\* create_inode, for a name that no inode has and whose parent is a directory,
\* in a free entry.
LEMMA TreeGrows ==
    ASSUME NEW t, NEW u, Tree(t), NEW f \in Inodes, ~t[f].used,
           \A i \in Inodes \ {f} : Same(t, u, i),
           \A i \in Inodes : t[i].used => t[i].name # u[f].name,
           u[f].name = Root \/ HasDir(t, Parent(u[f].name))
    PROVE  Tree(u)
<1>1. Unique(u)
  <2> SUFFICES ASSUME NEW i \in Inodes, NEW j \in Inodes,
                      u[i].used, u[j].used, u[i].name = u[j].name
               PROVE  i = j
    BY DEF Unique
  <2>1. CASE i # f /\ j # f
    BY <2>1 DEF Tree, Unique, Same
  <2>2. CASE i = f \/ j = f
    BY <2>2 DEF Same
  <2> QED
    BY <2>1, <2>2
<1>2. ASSUME NEW p, HasDir(t, p) PROVE HasDir(u, p)
  BY <1>2 DEF HasDir, Same
<1>3. ASSUME NEW i \in Inodes, u[i].used PROVE u[i].name = Root \/ HasDir(u, Parent(u[i].name))
  BY <1>2, <1>3 DEF Tree, Same
<1> QED
  BY <1>1, <1>2, <1>3 DEF Tree

\* rd and unlink: an entry that is not the root, and in which nothing lies, is
\* given back.
LEMMA TreeShrinks ==
    ASSUME NEW t, NEW u, Tree(t), NEW f \in Inodes, ~u[f].used, t[f].name # Root,
           \A i \in Inodes \ {f} : Same(t, u, i),
           \A i \in Inodes : t[i].used /\ t[i].name # Root => Parent(t[i].name) # t[f].name
    PROVE  Tree(u)
<1>1. Unique(u)
  BY DEF Tree, Unique, Same
<1>2. ASSUME NEW p, p # t[f].name, HasDir(t, p) PROVE HasDir(u, p)
  BY <1>2 DEF HasDir, Same
<1>3. ASSUME NEW i \in Inodes, u[i].used PROVE u[i].name = Root \/ HasDir(u, Parent(u[i].name))
  BY <1>2, <1>3 DEF Tree, Same
<1> QED
  BY <1>1, <1>2, <1>3 DEF Tree

-----------------------------------------------------------------------------
(* The invariant, action by action.                                        *)

FreeFds == {d \in Fds : ~fds[d].used}

\* Of lengths and scans: a path that normalize_path accepts fits in a buffer, and
\* a scan for a free entry finds one when there is one.
SizesInOrder ==
    /\ \A raw \in RawPaths : NormalizePath(raw) # NoPath =>
         NormalizePath(raw) \in Seq(Names) /\ PathLen(NormalizePath(raw)) < PathSize
    /\ Inodes \ Used # {} => First(Inodes \ Used) \in Inodes \ Used
    /\ FreeFds # {} => First(FreeFds) \in FreeFds

Fits(x) == PathLen(x.name) < PathSize /\ x.size <= Len(x.data)

\* A free entry is an inode.
LEMMA FreeInodeType ==
    FreeInode \in Inode /\ Fits(FreeInode) /\ ~FreeInode.used
<1>1. PathLen(Root) = 1
  BY DEF PathLen
<1> QED
  BY <1>1, RamFsAssumption, SMT DEF FreeInode, Inode, Fits, Root

\* So is a new file.
LEMMA NewFile ==
    ASSUME NEW p \in Seq(Names), PathLen(p) < PathSize
    PROVE  /\ NewInode(p, FALSE) \in Inode /\ Fits(NewInode(p, FALSE))
           /\ NewInode(p, FALSE).used /\ ~NewInode(p, FALSE).dir /\ NewInode(p, FALSE).name = p
  BY RamFsAssumption, SMT DEF NewInode, Inode, Fits

\* So is a new directory.
LEMMA NewDirectory ==
    ASSUME NEW p \in Seq(Names), PathLen(p) < PathSize
    PROVE  /\ NewInode(p, TRUE) \in Inode /\ Fits(NewInode(p, TRUE))
           /\ NewInode(p, TRUE).used /\ NewInode(p, TRUE).dir /\ NewInode(p, TRUE).name = p
  BY RamFsAssumption, SMT DEF NewInode, Inode, Fits

\* What is left to show of a step.
LEMMA TablesStep ==
    ASSUME inodes' \in [Inodes -> Inode], \A i \in Inodes : Fits(inodes'[i]),
           fds' \in [Fds -> Descriptor], ret'[1] \in {"number", "bytes", "entries"},
           Tree(inodes'), HandlesValid'
    PROVE  TablesWellFormed'
<1>1. TreeWellFormed' <=> Tree(inodes')
  BY TreeWellFormedNext
<1>2. TypeOK'
  BY DEF TypeOK, Fits
<1> QED
  BY <1>1, <1>2 DEF TablesWellFormed

\* What holds before a step, in the form the proofs use.
LEMMA TablesNow ==
    ASSUME TablesWellFormed
    PROVE  /\ inodes \in [Inodes -> Inode] /\ \A i \in Inodes : Fits(inodes[i])
           /\ fds \in [Fds -> Descriptor]
           /\ Tree(inodes) /\ HandlesValid
  BY TreeWellFormedIs DEF TablesWellFormed, TypeOK, Fits

\* What is open is still open on the same inode, and that has the same name.
Stays ==
    \A d \in Fds : fds[d].used /\ fds'[d].used =>
      fds'[d].inode = fds[d].inode /\ inodes'[fds[d].inode].name = inodes[fds[d].inode].name

\* A new file or directory goes into a free entry.
LEMMA FreeEntry ==
    ASSUME SizesInOrder, Inodes \ Used # {}
    PROVE  First(Inodes \ Used) \in Inodes /\ ~inodes[First(Inodes \ Used)].used
  BY DEF SizesInOrder, Used

\* Descriptors stay valid when no inode in use changes.
LEMMA HandlesKept ==
    ASSUME TablesWellFormed, fds' = fds, \A i \in Inodes : inodes[i].used => inodes'[i] = inodes[i]
    PROVE  HandlesValid' /\ Stays
<1>1. \A d \in Fds : fds[d].inode \in Inodes
  BY TablesNow DEF Descriptor
<1>2. \A d \in Fds : fds[d].used => inodes'[fds[d].inode] = inodes[fds[d].inode]
  BY <1>1, TablesNow DEF HandlesValid
<1>3. HandlesValid'
  BY <1>2, TablesNow DEF HandlesValid
<1>4. Stays
  BY <1>2 DEF Stays
<1> QED
  BY <1>3, <1>4

\* init() leaves a tree and no open file.
LEMMA InitTables ==
    Init => TablesWellFormed
<1> SUFFICES ASSUME Init PROVE TablesWellFormed
  OBVIOUS
<1>1. 0 \in Inodes /\ DOMAIN Seeds = 1 .. Len(Seeds) /\ DOMAIN Seeds \subseteq Inodes
  BY RamFsAssumption, SMT DEF Inodes
<1>2. /\ inodes[0] = NewInode(Root, TRUE)
      /\ \A i \in DOMAIN Seeds : inodes[i] = NewInode(Seeds[i], TRUE)
      /\ \A i \in Inodes : i = 0 \/ i \in DOMAIN Seeds \/ inodes[i] = FreeInode
  <2>1. 0 \notin DOMAIN Seeds
    BY <1>1, RamFsAssumption, SMT
  <2> QED
    BY <1>1, <2>1 DEF Init
<1>3. /\ Root \in Seq(Names) /\ PathLen(Root) < PathSize
      /\ \A i \in DOMAIN Seeds : Seeds[i] \in Seq(Names) /\ PathLen(Seeds[i]) < PathSize
  BY RamFsAssumption, SeedsAssumption, SMT DEF Root, PathLen
<1>4. inodes \in [Inodes -> Inode] /\ \A i \in Inodes : Fits(inodes[i])
  <2>0. /\ inodes[0] \in Inode /\ Fits(inodes[0])
        /\ \A i \in DOMAIN Seeds : inodes[i] \in Inode /\ Fits(inodes[i])
    BY <1>2, <1>3, NewDirectory
  <2>1. \A i \in Inodes : inodes[i] \in Inode /\ Fits(inodes[i])
    BY <1>2, <2>0, FreeInodeType
  <2>2. DOMAIN inodes = Inodes /\ inodes = [i \in Inodes |-> inodes[i]]
    BY DEF Init
  <2> QED
    BY <2>1, <2>2
<1>5. Tree(inodes)
  <2>1. /\ inodes[0].used /\ inodes[0].dir /\ inodes[0].name = Root
        /\ \A i \in DOMAIN Seeds : inodes[i].used /\ inodes[i].dir /\ inodes[i].name = Seeds[i]
        /\ \A i \in Inodes : inodes[i].used => i = 0 \/ i \in DOMAIN Seeds
    <3>1. inodes[0].used /\ inodes[0].dir /\ inodes[0].name = Root
      BY <1>2, <1>3, NewDirectory
    <3>2. \A i \in DOMAIN Seeds : inodes[i].used /\ inodes[i].dir /\ inodes[i].name = Seeds[i]
      BY <1>2, <1>3, NewDirectory
    <3> QED
      BY <1>2, <3>1, <3>2, FreeInodeType
  <2>2. Unique(inodes)
    BY <2>1, SeedsAssumption DEF Unique
  <2>3. ASSUME NEW i \in DOMAIN Seeds PROVE HasDir(inodes, Parent(Seeds[i]))
    <3>1. CASE Parent(Seeds[i]) = Root
      BY <1>1, <2>1, <3>1 DEF HasDir
    <3>2. CASE \E j \in 1 .. i - 1 : Parent(Seeds[i]) = Seeds[j]
      <4>1. PICK j \in 1 .. i - 1 : Parent(Seeds[i]) = Seeds[j]
        BY <3>2
      <4>2. j \in DOMAIN Seeds
        BY <1>1, SMT
      <4> QED
        BY <1>1, <2>1, <4>1, <4>2 DEF HasDir
    <3> QED
      BY <3>1, <3>2, SeedsAssumption
  <2> QED
    BY <1>1, <2>1, <2>2, <2>3 DEF Tree, HasDir
<1>6. fds \in [Fds -> Descriptor] /\ HandlesValid
  <2>1. FreeFd \in Descriptor /\ ~FreeFd.used
    BY <1>1, RamFsAssumption, SMT DEF FreeFd, Descriptor
  <2> QED
    BY <2>1 DEF Init, HandlesValid
<1>7. ret[1] = "number"
  BY DEF Init, Number
<1> QED
  BY <1>4, <1>5, <1>6, <1>7, TreeWellFormedIs DEF TablesWellFormed, TypeOK, Fits

\* A call that fails, or only looks, changes neither table.
LEMMA TablesUnchanged ==
    ASSUME TablesWellFormed, inodes' = inodes, fds' = fds,
           ret'[1] \in {"number", "bytes", "entries"}
    PROVE  TablesWellFormed' /\ Stays
<1>1. HandlesValid' /\ Stays
  BY HandlesKept
<1> QED
  BY <1>1, TablesNow, TablesStep

\* A call that returns -1 where it has done nothing.
LEMMA FailsStep ==
    ASSUME TablesWellFormed, Fails
    PROVE  TablesWellFormed' /\ Stays
<1>1. ret'[1] = "number"
  BY DEF Fails, Returns, Fail, Number
<1> QED
  BY <1>1, TablesUnchanged DEF Fails

\* What open does: nothing, or it opens a file that it found or made.
LEMMA OpenCases ==
    ASSUME NEW raw, NEW fl, NEW p, p = NormalizePath(raw), Open(raw, fl)
    PROVE  \/ Fails
           \/ /\ p \notin {NoPath, Root} /\ Named(p) # {} /\ ~IsDirectory(p)
              /\ OpenInode(First(Named(p)), inodes, fl)
           \/ /\ p \notin {NoPath, Root} /\ Named(p) = {} /\ ParentDirectoryExists(p)
              /\ Inodes \ Used # {}
              /\ OpenInode(First(Inodes \ Used),
                           [inodes EXCEPT ![First(Inodes \ Used)] = NewInode(p, FALSE)], fl)
<1>1. CASE p \in {NoPath, Root}
  BY <1>1 DEF Open
<1>2. CASE p \notin {NoPath, Root} /\ Named(p) # {}
  BY <1>2 DEF Open
<1>3. CASE p \notin {NoPath, Root} /\ Named(p) = {}
  BY <1>3 DEF Open
<1> QED
  BY <1>1, <1>2, <1>3

\* The same for md.
LEMMA MdCases ==
    ASSUME NEW raw, NEW p, p = NormalizePath(raw), Md(raw)
    PROVE  \/ Fails
           \/ UNCHANGED <<inodes, fds>> /\ ret' \in {Number(0), Fail}
           \/ /\ p # NoPath /\ Named(p) = {} /\ ParentDirectoryExists(p)
              /\ Inodes \ Used # {}
              /\ inodes' = [inodes EXCEPT ![First(Inodes \ Used)] = NewInode(p, TRUE)]
              /\ ret' = Number(0) /\ UNCHANGED fds
<1>1. CASE p = NoPath
  BY <1>1 DEF Md
<1>2. CASE p # NoPath /\ Named(p) # {}
  BY <1>2 DEF Md, Returns
<1>3. CASE p # NoPath /\ Named(p) = {}
  BY <1>3 DEF Md, Returns
<1> QED
  BY <1>1, <1>2, <1>3

\* A table with a new inode.
LEMMA CreateInode ==
    ASSUME TablesWellFormed, NEW p, Named(p) = {}, ParentDirectoryExists(p),
           NEW f \in Inodes, ~inodes[f].used,
           NEW t, Fits(t[f]), t[f].used, t[f].name = p,
           \A i \in Inodes \ {f} : t[i] = inodes[i]
    PROVE  /\ \A i \in Inodes : Fits(t[i])
           /\ Tree(t)
           /\ \A i \in Inodes : inodes[i].used => t[i] = inodes[i]
<1>1. \A i \in Inodes : Fits(t[i])
  BY TablesNow
<1>2. Tree(t)
  <2>1. Tree(inodes) /\ Unique(inodes)
    BY TablesNow DEF Tree
  <2>2. \A i \in Inodes \ {f} : Same(inodes, t, i)
    BY DEF Same
  <2>3. \A i \in Inodes : inodes[i].used => inodes[i].name # t[f].name
    BY DEF Named, Used
  <2>4. t[f].name = Root \/ HasDir(inodes, Parent(t[f].name))
    BY <2>1, IsDirectoryIs DEF ParentDirectoryExists
  <2> QED
    BY <2>1, <2>2, <2>3, <2>4, TreeGrows
<1> QED
  BY <1>1, <1>2

\* open, past its checks: the file it found or made is emptied on request, and
\* is what the new descriptor names.
LEMMA OpenInodeStep ==
    ASSUME TablesWellFormed, SizesInOrder, NEW fl \in Flags, NEW i \in Inodes, NEW t \in [Inodes -> Inode],
           \A k \in Inodes : Fits(t[k]), Tree(t), t[i].used, ~t[i].dir,
           \A k \in Inodes : inodes[k].used => t[k] = inodes[k],
           OpenInode(i, t, fl)
    PROVE  TablesWellFormed' /\ Stays
<1>1. \A k \in Inodes : Same(t, inodes', k)
  BY DEF OpenInode, Same, Inode
<1>2. inodes' \in [Inodes -> Inode] /\ \A k \in Inodes : Fits(inodes'[k])
  <2>1. CASE ~Empties(fl)
    BY <2>1 DEF OpenInode
  <2>2. CASE Empties(fl)
    <3>1. inodes' = [t EXCEPT ![i].size = 0]
      BY <2>2 DEF OpenInode
    <3>2. [t[i] EXCEPT !.size = 0] \in Inode
      <4>1. t[i] \in Inode /\ 0 \in 0 .. MaxSize
        BY RamFsAssumption, SMT
      <4> QED
        BY <4>1 DEF Inode
    <3>3. Fits([t[i] EXCEPT !.size = 0])
      BY RamFsAssumption, SMT DEF Inode, Fits
    <3>4. inodes' = [t EXCEPT ![i] = [t[i] EXCEPT !.size = 0]]
      BY <3>1
    <3> QED
      BY <3>2, <3>3, <3>4
  <2> QED
    BY <2>1, <2>2
<1>3. Tree(inodes')
  BY <1>1, TreeKept
<1>4. \A k \in Inodes : inodes[k].used /\ ~inodes[k].dir => inodes'[k].used /\ ~inodes'[k].dir
  BY <1>1 DEF Same
<1>5. inodes'[i].used /\ ~inodes'[i].dir
  BY <1>1 DEF Same
<1>6. \A d \in Fds : fds[d].used => inodes'[fds[d].inode].name = inodes[fds[d].inode].name
  <2>1. \A d \in Fds : fds[d].inode \in Inodes
    BY TablesNow DEF Descriptor
  <2>2. \A d \in Fds : fds[d].used => inodes[fds[d].inode].used
    BY TablesNow DEF HandlesValid
  <2> QED
    BY <1>1, <2>1, <2>2 DEF Same
<1> DEFINE free == {d \in Fds : ~fds[d].used}
<1>7. CASE free = {}
  <2>1. fds' = fds /\ ret'[1] = "number"
    BY <1>7, SMT DEF OpenInode, Returns, Fail, Number
  <2>2. HandlesValid'
    BY <1>4, <2>1, TablesNow DEF HandlesValid, Descriptor
  <2>3. Stays
    BY <1>6, <2>1 DEF Stays
  <2> QED
    BY <1>2, <1>3, <2>1, <2>2, <2>3, TablesNow, TablesStep
<1>8. CASE free # {}
  <2> DEFINE new == [used |-> TRUE, inode |-> i, offset |-> 0, read |-> fl.read, write |-> fl.write]
  <2>1. fds' = [fds EXCEPT ![First(free)] = new] /\ ret'[1] = "number"
    BY <1>8, SMT DEF OpenInode, Returns, Number
  <2>2. new \in Descriptor
    BY RamFsAssumption, SMT DEF Descriptor
  <2>3. fds' \in [Fds -> Descriptor]
    BY <2>1, <2>2, TablesNow
  <2>4. HandlesValid'
    <3> SUFFICES ASSUME NEW d \in Fds, fds'[d].used
                 PROVE  inodes'[fds'[d].inode].used /\ ~inodes'[fds'[d].inode].dir
      BY DEF HandlesValid
    <3>1. CASE fds'[d] = new
      BY <1>5, <3>1, SMT
    <3>2. CASE fds'[d] = fds[d]
      <4>1. fds[d].inode \in Inodes
        BY TablesNow DEF Descriptor
      <4> QED
        BY <1>4, <3>2, <4>1, TablesNow DEF HandlesValid
    <3> QED
      BY <2>1, <3>1, <3>2, TablesNow
  <2>5. Stays
    <3>2. First(free) \in free
      BY <1>8 DEF SizesInOrder, FreeFds
    <3>3. \A d \in Fds : fds[d].used => fds'[d] = fds[d]
      BY <2>1, <3>2, TablesNow
    <3> QED
      BY <1>6, <3>3 DEF Stays
  <2> QED
    BY <1>2, <1>3, <2>1, <2>3, <2>4, <2>5, TablesStep
<1> QED
  BY <1>7, <1>8

\* open keeps the tables in order, whether it finds the file or makes it.
LEMMA OpenStep ==
    ASSUME TablesWellFormed, SizesInOrder, NEW raw \in RawPaths, NEW fl \in Flags, Open(raw, fl)
    PROVE  TablesWellFormed' /\ Stays
<1> DEFINE p == NormalizePath(raw)
           f == First(Inodes \ Used)
<1>1. Unique(inodes)
  BY TablesNow DEF Tree
<1>2. CASE Fails
  BY <1>2, FailsStep
<1>3. CASE Named(p) # {} /\ ~IsDirectory(p) /\ OpenInode(First(Named(p)), inodes, fl)
  <2> DEFINE i == First(Named(p))
  <2>1. i \in Inodes /\ inodes[i].used /\ ~inodes[i].dir
    BY <1>1, <1>3, FoundInode DEF IsDirectory
  <2> QED
    BY <1>3, <2>1, TablesNow, OpenInodeStep
<1>4. CASE /\ p \notin {NoPath, Root} /\ Named(p) = {} /\ ParentDirectoryExists(p)
           /\ Inodes \ Used # {}
           /\ OpenInode(f, [inodes EXCEPT ![f] = NewInode(p, FALSE)], fl)
  <2> DEFINE t == [inodes EXCEPT ![f] = NewInode(p, FALSE)]
  <2>1. p \in Seq(Names) /\ PathLen(p) < PathSize
    BY <1>4 DEF SizesInOrder
  <2>2. f \in Inodes /\ ~inodes[f].used
    BY <1>4, FreeEntry
  <2>3. NewInode(p, FALSE) \in Inode /\ t[f] = NewInode(p, FALSE)
    BY <2>1, <2>2, TablesNow, NewFile
  <2>4. t \in [Inodes -> Inode] /\ \A i \in Inodes \ {f} : t[i] = inodes[i]
    BY <2>3, TablesNow
  <2>5. Fits(t[f]) /\ t[f].used /\ ~t[f].dir /\ t[f].name = p
    BY <2>1, <2>3, NewFile
  <2> HIDE DEF t, f, p
  <2>6. /\ \A i \in Inodes : Fits(t[i])
        /\ Tree(t)
        /\ \A i \in Inodes : inodes[i].used => t[i] = inodes[i]
    BY <1>4, <2>2, <2>4, <2>5, CreateInode
  <2> QED
    BY <1>4, <2>2, <2>4, <2>5, <2>6, OpenInodeStep DEF t
<1> QED
  BY <1>2, <1>3, <1>4, OpenCases

\* md keeps the tables in order.
LEMMA MdStep ==
    ASSUME TablesWellFormed, SizesInOrder, NEW raw \in RawPaths, Md(raw)
    PROVE  TablesWellFormed' /\ Stays
<1> DEFINE p == NormalizePath(raw)
           f == First(Inodes \ Used)
<1>1. CASE Fails
  BY <1>1, FailsStep
<1>2. CASE UNCHANGED <<inodes, fds>> /\ ret' \in {Number(0), Fail}
  <2>1. ret'[1] = "number"
    BY <1>2, SMT DEF Number, Fail
  <2> QED
    BY <1>2, <2>1, TablesUnchanged
<1>3. CASE /\ p # NoPath /\ Named(p) = {} /\ ParentDirectoryExists(p)
           /\ Inodes \ Used # {}
           /\ inodes' = [inodes EXCEPT ![f] = NewInode(p, TRUE)]
           /\ ret' = Number(0) /\ UNCHANGED fds
  <2>1. p \in Seq(Names) /\ PathLen(p) < PathSize
    BY <1>3 DEF SizesInOrder
  <2>2. f \in Inodes /\ ~inodes[f].used
    BY <1>3, FreeEntry
  <2>3. NewInode(p, TRUE) \in Inode /\ inodes'[f] = NewInode(p, TRUE)
    BY <1>3, <2>1, <2>2, TablesNow, NewDirectory
  <2>4. inodes' \in [Inodes -> Inode] /\ \A i \in Inodes \ {f} : inodes'[i] = inodes[i]
    BY <1>3, <2>3, TablesNow
  <2>5. Fits(inodes'[f]) /\ inodes'[f].used /\ inodes'[f].name = p
    BY <2>1, <2>3, NewDirectory
  <2> HIDE DEF f, p
  <2>6. /\ \A i \in Inodes : Fits(inodes'[i])
        /\ Tree(inodes')
        /\ \A i \in Inodes : inodes[i].used => inodes'[i] = inodes[i]
    <3>1. Named(p) = {} /\ ParentDirectoryExists(p)
      BY <1>3
    <3> QED
      BY <2>2, <2>4, <2>5, <3>1, CreateInode
  <2>7. ret'[1] = "number"
    BY <1>3 DEF Number
  <2>8. HandlesValid' /\ Stays
    BY <1>3, <2>6, HandlesKept
  <2> QED
    BY <1>3, <2>4, <2>6, <2>7, <2>8, TablesNow, TablesStep
<1> QED
  BY <1>1, <1>2, <1>3, MdCases

\* rd and unlink past their checks: an entry that is not open, is not the root,
\* and in which nothing lies.
LEMMA RemoveStep ==
    ASSUME TablesWellFormed, NEW f \in Inodes, inodes[f].used, inodes[f].name # Root,
           ~OpenOn(f),
           \A i \in Inodes : inodes[i].used /\ inodes[i].name # Root
                             => Parent(inodes[i].name) # inodes[f].name,
           inodes' = [inodes EXCEPT ![f] = FreeInode], ret' = Number(0), UNCHANGED fds
    PROVE  TablesWellFormed' /\ Stays
<1>1. inodes'[f] = FreeInode /\ \A i \in Inodes \ {f} : inodes'[i] = inodes[i]
  BY TablesNow
<1>2. inodes' \in [Inodes -> Inode] /\ \A i \in Inodes : Fits(inodes'[i])
  BY <1>1, TablesNow, FreeInodeType
<1>3. ~inodes'[f].used
  BY <1>1, FreeInodeType
<1>4. \A i \in Inodes \ {f} : Same(inodes, inodes', i)
  BY <1>1 DEF Same
<1>5. Tree(inodes')
  BY <1>3, <1>4, TablesNow, TreeShrinks
<1>6. \A d \in Fds : fds[d].used => inodes'[fds[d].inode] = inodes[fds[d].inode]
  <2>1. \A d \in Fds : fds[d].inode \in Inodes
    BY TablesNow DEF Descriptor
  <2> QED
    BY <1>1, <2>1 DEF OpenOn
<1>7. HandlesValid' /\ Stays
  BY <1>6, TablesNow DEF HandlesValid, Stays
<1>8. ret'[1] = "number"
  BY DEF Number
<1> QED
  BY <1>2, <1>5, <1>7, <1>8, TablesNow, TablesStep

\* rd keeps the tables in order: a directory with entries is not removed.
LEMMA RdStep ==
    ASSUME TablesWellFormed, NEW raw \in RawPaths, Rd(raw)
    PROVE  TablesWellFormed' /\ Stays
<1> DEFINE p == NormalizePath(raw)
           f == First(Named(p))
<1>1. CASE Fails
  BY <1>1, FailsStep
<1>2. CASE /\ p # Root /\ IsDirectory(p) /\ ~HasEntries(p) /\ ~OpenOn(f)
           /\ inodes' = [inodes EXCEPT ![f] = FreeInode]
           /\ ret' = Number(0) /\ UNCHANGED fds
  <2>1. f \in Inodes /\ inodes[f].used /\ inodes[f].name = p
    BY <1>2, TablesNow, FoundInode DEF Tree, IsDirectory
  <2>2. ASSUME NEW i \in Inodes, inodes[i].used, inodes[i].name # Root
        PROVE  Parent(inodes[i].name) # p
    <3>1. inodes[i].name \in Seq(Names)
      BY TablesNow DEF Inode
    <3>2. Below(Parent(inodes[i].name), inodes[i].name)
      BY <2>2, <3>1, ParentIsAbove
    <3> QED
      BY <1>2, <2>2, <3>2 DEF HasEntries, Used
  <2> QED
    BY <1>2, <2>1, <2>2, RemoveStep
<1> QED
  BY <1>1, <1>2 DEF Rd, Returns

\* unlink keeps the tables in order: a directory is not removed by it.
LEMMA UnlinkStep ==
    ASSUME TablesWellFormed, NEW raw \in RawPaths, Unlink(raw)
    PROVE  TablesWellFormed' /\ Stays
<1> DEFINE p == NormalizePath(raw)
           f == First(Named(p))
<1>1. CASE Fails
  BY <1>1, FailsStep
<1>2. CASE /\ p # Root /\ Named(p) # {} /\ ~IsDirectory(p) /\ ~OpenOn(f)
           /\ inodes' = [inodes EXCEPT ![f] = FreeInode]
           /\ ret' = Number(0) /\ UNCHANGED fds
  <2>1. f \in Inodes /\ inodes[f].used /\ inodes[f].name = p
    BY <1>2, TablesNow, FoundInode DEF Tree
  <2>2. ASSUME NEW i \in Inodes, inodes[i].used, inodes[i].name # Root
        PROVE  Parent(inodes[i].name) # p
    BY <1>2, <2>2, TablesNow, IsDirectoryIs DEF Tree
  <2> QED
    BY <1>2, <2>1, <2>2, RemoveStep
<1> QED
  BY <1>1, <1>2 DEF Unlink, Returns

\* The smaller of two numbers.
LEMMA MinOfTwo ==
    ASSUME NEW a \in Int, NEW b \in Int
    PROVE  Min({a, b}) = IF a <= b THEN a ELSE b
<1>1. PICK m : m = IF a <= b THEN a ELSE b
  OBVIOUS
<1>2. m \in {a, b} /\ \A y \in {a, b} : m <= y
  BY <1>1, SMT
<1>3. \A x \in {a, b} : (\A y \in {a, b} : x <= y) => x = m
  BY <1>1, SMT
<1> QED
  BY <1>1, <1>2, <1>3 DEF Min

\* Moving the offset of a descriptor leaves what it is open on.
LEMMA OffsetMoved ==
    ASSUME TablesWellFormed, NEW d \in Fds, NEW o \in 0 .. MaxSize,
           fds' = [fds EXCEPT ![d].offset = o],
           \A i \in Inodes : Same(inodes, inodes', i)
    PROVE  fds' \in [Fds -> Descriptor] /\ HandlesValid' /\ Stays
<1>1. fds \in [Fds -> Descriptor] /\ HandlesValid
  BY TablesNow
<1>2. fds' \in [Fds -> Descriptor]
  <2>1. fds[d] \in Descriptor
    BY <1>1
  <2>2. [fds[d] EXCEPT !.offset = o] \in Descriptor
    BY <2>1 DEF Descriptor
  <2> QED
    BY <1>1, <2>2
<1>3. \A e \in Fds : fds'[e].used = fds[e].used /\ fds'[e].inode = fds[e].inode
  BY <1>1 DEF Descriptor
<1>4. \A e \in Fds : fds[e].inode \in Inodes
  BY <1>1 DEF Descriptor
<1>5. HandlesValid' /\ Stays
  BY <1>1, <1>3, <1>4 DEF HandlesValid, Same, Stays
<1> QED
  BY <1>2, <1>5

\* read keeps the tables in order; the offset stays within the file sizes.
LEMMA ReadStep ==
    ASSUME TablesWellFormed, NEW fd \in Descriptors, NEW count \in Nat, Read(fd, count)
    PROVE  TablesWellFormed' /\ Stays
<1> DEFINE d == fd - kFdOffset
           file == inodes[fds[d].inode]
           from == fds[d].offset
           n == IF from >= file.size THEN 0 ELSE Min({count, file.size - from})
<1>1. CASE ~IsOpen(fd) \/ ~fds[d].read
  <2>1. Fails
    BY <1>1 DEF Read
  <2> QED
    BY <2>1, FailsStep
<1>2. CASE IsOpen(fd) /\ fds[d].read
  <2>1. /\ fds' = [fds EXCEPT ![d].offset = from + n]
        /\ ret' = <<"bytes", SubSeq(file.data, from + 1, from + n)>>
        /\ inodes' = inodes
    BY <1>2 DEF Read, Returns
  <2>2. d \in Fds
    BY <1>2 DEF IsOpen
  <2>3. from \in 0 .. MaxSize /\ file.size \in 0 .. MaxSize
    BY <2>2, TablesNow DEF Descriptor, Inode
  <2>4. from + n \in 0 .. MaxSize
    <3>1. CASE from >= file.size
      BY <2>3, <3>1, RamFsAssumption, SMT
    <3>2. CASE ~(from >= file.size)
      <4>1. count \in Int /\ file.size - from \in Int
        BY <2>3, RamFsAssumption, SMT
      <4>2. n = IF count <= file.size - from THEN count ELSE file.size - from
        BY <3>2, <4>1, MinOfTwo
      <4>3. n \in Nat /\ n <= file.size - from
        BY <2>3, <3>2, <4>1, <4>2, SMT DEF n
      <4> HIDE DEF n, from, file
      <4>4. from + n \in Nat /\ from + n <= MaxSize
        BY <2>3, <4>3, RamFsAssumption, SMT
      <4> QED
        BY <4>4, RamFsAssumption, SMT
    <3> QED
      BY <3>1, <3>2
  <2>5. \A i \in Inodes : Same(inodes, inodes', i)
    BY <2>1 DEF Same
  <2> HIDE DEF n, from, d
  <2>6. fds' \in [Fds -> Descriptor] /\ HandlesValid' /\ Stays
    BY <2>1, <2>2, <2>4, <2>5, OffsetMoved
  <2>7. ret'[1] = "bytes"
    BY <2>1
  <2> QED
    BY <2>1, <2>6, <2>7, TablesNow, TablesStep
<1> QED
  BY <1>1, <1>2

\* close keeps the tables in order.
LEMMA CloseStep ==
    ASSUME TablesWellFormed, NEW fd \in Descriptors, Close(fd)
    PROVE  TablesWellFormed' /\ Stays
<1> DEFINE d == fd - kFdOffset
<1>1. CASE ~IsOpen(fd)
  BY <1>1, FailsStep DEF Close
<1>2. CASE IsOpen(fd)
  <2>1. fds' = [fds EXCEPT ![d] = FreeFd] /\ ret' = Number(0) /\ inodes' = inodes
    BY <1>2 DEF Close, Returns
  <2>2. d \in Fds /\ fds[d].inode \in Inodes
    BY <1>2, TablesNow DEF IsOpen, Descriptor
  <2>3. FreeFd \in Descriptor /\ ~FreeFd.used
    BY <2>2, RamFsAssumption, SMT DEF FreeFd, Descriptor, Inodes
  <2>4. fds' \in [Fds -> Descriptor]
    BY <2>1, <2>3, TablesNow
  <2>5. HandlesValid' /\ Stays
    BY <2>1, <2>2, <2>3, TablesNow DEF HandlesValid, Stays
  <2>6. ret'[1] = "number"
    BY <2>1 DEF Number
  <2> QED
    BY <2>1, <2>4, <2>5, <2>6, TablesNow, TablesStep
<1> QED
  BY <1>1, <1>2

\* readdir only looks.
LEMMA ReaddirStep ==
    ASSUME TablesWellFormed, NEW raw \in RawPaths, NEW room \in Rooms, Readdir(raw, room)
    PROVE  TablesWellFormed' /\ Stays
<1> DEFINE p == NormalizePath(raw)
<1>1. CASE p = NoPath \/ room = 0 \/ ~IsDirectory(p)
  <2>1. Fails
    BY <1>1 DEF Readdir
  <2> QED
    BY <2>1, FailsStep
<1>2. CASE p # NoPath /\ room # 0 /\ IsDirectory(p)
  <2>1. inodes' = inodes /\ fds' = fds /\ ret'[1] = "entries"
    BY <1>2, SMT DEF Readdir, Returns
  <2> QED
    BY <2>1, TablesUnchanged
<1> QED
  BY <1>1, <1>2

\* ensure_capacity leaves a buffer that is long enough, with the file's bytes.
LEMMA GrownHolds ==
    ASSUME NEW file \in Inode, file.size <= Len(file.data), NEW required \in Nat,
           NEW data \in Grown(file, required)
    PROVE  /\ data \in Seq(Bytes)
           /\ Len(data) >= required /\ Len(data) >= file.size
           /\ \A k \in 1 .. file.size : data[k] = file.data[k]
<1>1. file.data \in Seq(Bytes) /\ file.size \in Nat
  BY RamFsAssumption, SMT DEF Inode
<1>2. CASE required <= Len(file.data)
  <2>1. data = file.data
    BY <1>2 DEF Grown
  <2> QED
    BY <1>1, <1>2, <2>1
<1>3. CASE ~(required <= Len(file.data))
  <2>1. PICK c \in Capacity(file, required) :
          data \in {SubSeq(file.data, 1, file.size) \o rest : rest \in [1 .. c - file.size -> Bytes]}
    BY <1>3 DEF Grown
  <2>2. PICK rest \in [1 .. c - file.size -> Bytes] :
          data = SubSeq(file.data, 1, file.size) \o rest
    BY <2>1
  <2>3. c \in Int /\ c >= required
    BY SMT DEF Capacity
  <2>4. c - file.size \in Nat
    BY <1>1, <1>3, <2>3, SMT
  <2>5. rest \in Seq(Bytes) /\ Len(rest) = c - file.size
    BY <2>4, SMT
  <2> DEFINE old == SubSeq(file.data, 1, file.size)
  <2>6. old \in Seq(Bytes) /\ Len(old) = file.size /\ \A k \in 1 .. file.size : old[k] = file.data[k]
    BY <1>1, SMT
  <2> HIDE DEF old
  <2>7. data = old \o rest
    BY <2>2 DEF old
  <2> QED
    BY <1>1, <2>3, <2>4, <2>5, <2>6, <2>7, SMT
<1> QED
  BY <1>2, <1>3

\* copy_bytes into a buffer leaves a buffer of the same length.
LEMMA OverwrittenType ==
    ASSUME NEW data \in Seq(Bytes), NEW from \in Nat, NEW buf \in Seq(Bytes)
    PROVE  Overwritten(data, from, buf) \in Seq(Bytes) /\ Len(Overwritten(data, from, buf)) = Len(data)
<1>1. DOMAIN data = 1 .. Len(data) /\ Len(data) \in Nat
  BY SMT
<1>2. \A i \in DOMAIN data : (IF i - from \in DOMAIN buf THEN buf[i - from] ELSE data[i]) \in Bytes
  BY SMT
<1>3. Overwritten(data, from, buf) \in [1 .. Len(data) -> Bytes]
  BY <1>1, <1>2 DEF Overwritten
<1> QED
  BY <1>1, <1>3, SMT

\* A caller's buffer is a sequence of bytes.
LEMMA BufferType ==
    ASSUME NEW buf \in Buffers
    PROVE  buf \in Seq(Bytes) /\ Len(buf) \in 0 .. MaxWrite
<1>1. PICK n \in 0 .. MaxWrite : buf \in [1 .. n -> Bytes]
  BY DEF Buffers
<1> QED
  BY <1>1, SMT

\* write keeps the tables in order: the file stays within its buffer, and its
\* place in the tree is not touched.
LEMMA WriteStep ==
    ASSUME TablesWellFormed, NEW fd \in Descriptors, NEW buf \in Buffers, Write(fd, buf)
    PROVE  TablesWellFormed' /\ Stays
<1> DEFINE d == fd - kFdOffset
           i == fds[d].inode
           from == fds[d].offset
           end == from + Len(buf)
<1>1. CASE Fails
  BY <1>1, FailsStep
<1>2. CASE ~Fails
  <2>1. /\ IsOpen(fd)
        /\ end <= MaxSize
        /\ fds' = [fds EXCEPT ![d].offset = end]
        /\ ret' = Number(Len(buf))
    BY <1>2 DEF Write, Returns
  <2>2. PICK data \in Grown(inodes[i], end) :
          inodes' = [inodes EXCEPT ![i].data = Overwritten(data, from, buf),
                                   ![i].size = SizeAfter(inodes[i], end)]
    BY <1>2 DEF Write
  <2>3. d \in Fds
    BY <2>1 DEF IsOpen
  <2>4. i \in Inodes /\ from \in 0 .. MaxSize
    BY <2>3, TablesNow DEF Descriptor
  <2>5. inodes[i] \in Inode /\ Fits(inodes[i])
    BY <2>4, TablesNow
  <2>6. buf \in Seq(Bytes) /\ Len(buf) \in Nat
    BY BufferType, RamFsAssumption, SMT
  <2>7. end \in 0 .. MaxSize /\ from \in Nat /\ end \in Nat
    BY <2>1, <2>4, <2>6, RamFsAssumption, SMT
  <2>8. data \in Seq(Bytes) /\ Len(data) >= end /\ Len(data) >= inodes[i].size
    <3> HIDE DEF end, i
    <3> QED
      BY <2>5, <2>7, GrownHolds DEF Fits
  <2> DEFINE new == Overwritten(data, from, buf)
             size == SizeAfter(inodes[i], end)
  <2>9. new \in Seq(Bytes) /\ Len(new) = Len(data)
    BY <2>6, <2>7, <2>8, OverwrittenType
  <2>10. size \in 0 .. MaxSize /\ size <= Len(new)
    <3>1. inodes[i].size \in 0 .. MaxSize
      BY <2>5 DEF Inode
    <3> QED
      BY <2>7, <2>8, <2>9, <3>1 DEF SizeAfter
  <2> HIDE DEF new, size, end, from, i
  <2> DEFINE node == [inodes[i] EXCEPT !.data = new, !.size = size]
  <2>11. node \in Inode /\ Fits(node)
    BY <2>5, <2>9, <2>10 DEF Inode, Fits
  <2>12. inodes' = [inodes EXCEPT ![i] = node]
    <3>1. inodes' = [inodes EXCEPT ![i].data = new, ![i].size = size]
      BY <2>2 DEF new, size
    <3>2. inodes'[i] = node
      BY <2>4, <3>1, TablesNow
    <3>3. inodes' = [inodes EXCEPT ![i] = inodes'[i]]
      BY <2>4, <3>1, TablesNow
    <3> QED
      BY <3>2, <3>3
  <2>13. Same(inodes, inodes', i)
    BY <2>4, <2>12, TablesNow, SMT DEF Same
  <2>14. \A k \in Inodes \ {i} : inodes'[k] = inodes[k]
    BY <2>4, <2>12, TablesNow
  <2>15. \A k \in Inodes : Same(inodes, inodes', k)
    BY <2>13, <2>14 DEF Same
  <2>16. inodes' \in [Inodes -> Inode] /\ \A k \in Inodes : Fits(inodes'[k])
    <3> HIDE DEF node
    <3> QED
      BY <2>4, <2>11, <2>12, TablesNow
  <2>17. Tree(inodes')
    BY <2>15, TablesNow, TreeKept
  <2>18. fds' \in [Fds -> Descriptor] /\ HandlesValid' /\ Stays
    <3> HIDE DEF d
    <3> QED
      BY <2>1, <2>3, <2>7, <2>15, OffsetMoved
  <2>19. ret'[1] = "number"
    BY <2>1 DEF Number
  <2> QED
    BY <2>16, <2>17, <2>18, <2>19, TablesStep
<1> QED
  BY <1>1, <1>2

\* Every call keeps the tables in order, and what is open stays open on the
\* same file.
LEMMA NextTables ==
    ASSUME TablesWellFormed, SizesInOrder, [Next]_vars
    PROVE  TablesWellFormed' /\ Stays
<1>1. CASE \E raw \in RawPaths, fl \in Flags : Open(raw, fl)
  BY <1>1, OpenStep
<1>2. CASE \E fd \in Descriptors, n \in 0 .. MaxSize : Read(fd, n)
  <2>1. 0 .. MaxSize \in SUBSET Nat
    BY RamFsAssumption, SMT
  <2> QED
    BY <1>2, <2>1, ReadStep
<1>3. CASE \E fd \in Descriptors, buf \in Buffers : Write(fd, buf)
  BY <1>3, WriteStep
<1>4. CASE \E fd \in Descriptors : Close(fd)
  BY <1>4, CloseStep
<1>5. CASE \E raw \in RawPaths : Md(raw) \/ Rd(raw) \/ Unlink(raw)
  BY <1>5, MdStep, RdStep, UnlinkStep
<1>6. CASE \E raw \in RawPaths, room \in Rooms : Readdir(raw, room)
  BY <1>6, ReaddirStep
<1>7. CASE UNCHANGED vars
  <2>1. inodes' = inodes /\ fds' = fds /\ ret' = ret
    BY <1>7 DEF vars
  <2>2. ret[1] \in {"number", "bytes", "entries"}
    BY DEF TablesWellFormed, TypeOK
  <2> QED
    BY <2>1, <2>2, TablesUnchanged
<1> QED
  BY <1>1, <1>2, <1>3, <1>4, <1>5, <1>6, <1>7 DEF Next

-----------------------------------------------------------------------------
(* The tree and the open files that the tables stand for.                  *)

Node(x) == [dir |-> x.dir, data |-> SubSeq(x.data, 1, x.size)]

NamesIn(t) == {t[i].name : i \in {j \in Inodes : t[j].used}}

\* Whether F is the tree that table t stands for.
Shows(F, t) ==
    /\ F = [p \in NamesIn(t) |-> F[p]]
    /\ \A i \in Inodes : t[i].used => F[t[i].name] = Node(t[i])

Handle(t, h) == [path |-> t[h.inode].name, offset |-> h.offset, read |-> h.read, write |-> h.write]

OpenIn(u) == {d + kFdOffset : d \in {e \in Fds : u[e].used}}

\* Whether G is the table of open files that tables t and u stand for.
ShowsOpen(G, t, u) ==
    /\ G = [fd \in OpenIn(u) |-> G[fd]]
    /\ \A d \in Fds : u[d].used => G[d + kFdOffset] = Handle(t, u[d])

\* Vfs finds the tree and the table of open files full when RamFs finds no free
\* entry in its tables: a fact about their sizes, which RamFsProofs shows.
FullAlike ==
    /\ V!Cardinality(DOMAIN treeOf) = MaxInodes <=> Inodes \ Used = {}
    /\ V!Cardinality(DOMAIN openOf) = MaxFds <=> FreeFds = {}

\* A table stands for one tree.
LEMMA ShownOnce ==
    ASSUME NEW F, NEW G, NEW t, Shows(F, t), Shows(G, t)
    PROVE  F = G
<1>1. ASSUME NEW p \in NamesIn(t) PROVE F[p] = G[p]
  <2>1. PICK i \in Inodes : t[i].used /\ p = t[i].name
    BY DEF NamesIn
  <2> QED
    BY <2>1 DEF Shows
<1>2. F = [p \in NamesIn(t) |-> F[p]] /\ G = [p \in NamesIn(t) |-> G[p]]
  BY DEF Shows
<1>3. [p \in NamesIn(t) |-> F[p]] = [p \in NamesIn(t) |-> G[p]]
  BY <1>1
<1> QED
  BY <1>2, <1>3

\* Two tables stand for one table of open files.
LEMMA OpenShownOnce ==
    ASSUME NEW F, NEW G, NEW t, NEW u, ShowsOpen(F, t, u), ShowsOpen(G, t, u)
    PROVE  F = G
<1>1. ASSUME NEW p \in OpenIn(u) PROVE F[p] = G[p]
  <2>1. PICK d \in Fds : u[d].used /\ p = d + kFdOffset
    BY DEF OpenIn
  <2> QED
    BY <2>1 DEF ShowsOpen
<1>2. F = [p \in OpenIn(u) |-> F[p]] /\ G = [p \in OpenIn(u) |-> G[p]]
  BY DEF ShowsOpen
<1>3. [p \in OpenIn(u) |-> F[p]] = [p \in OpenIn(u) |-> G[p]]
  BY <1>1
<1> QED
  BY <1>2, <1>3

\* treeOf is the tree that m_inodes stands for.
LEMMA TreeShown ==
    Unique(inodes) => Shows(treeOf, inodes)
<1> SUFFICES ASSUME Unique(inodes) PROVE Shows(treeOf, inodes)
  OBVIOUS
<1>1. {inodes[i].name : i \in Used} = NamesIn(inodes)
  BY DEF NamesIn, Used
<1>2. treeOf = [p \in NamesIn(inodes) |-> Node(inodes[First(Named(p))])]
  BY <1>1 DEF treeOf, Node
<1>3. treeOf = [p \in NamesIn(inodes) |-> treeOf[p]]
  BY <1>2
<1>4. ASSUME NEW i \in Inodes, inodes[i].used
      PROVE  treeOf[inodes[i].name] = Node(inodes[i])
  <2>1. i \in Named(inodes[i].name)
    BY <1>4 DEF Named, Used
  <2>2. First(Named(inodes[i].name)) = i
    BY <2>1, FoundInode
  <2>3. inodes[i].name \in NamesIn(inodes)
    BY <1>4 DEF NamesIn
  <2> QED
    BY <1>2, <2>2, <2>3
<1> QED
  BY <1>3, <1>4 DEF Shows

\* The same after a step.
LEMMA TreeShownNext ==
    Unique(inodes') => Shows(treeOf', inodes')
<1>1. (Unique(inodes) => Shows(treeOf, inodes))'
  BY TreeShown, PTL
<1> QED
  BY <1>1 DEF Unique, Shows, NamesIn, Node

\* openOf is the table of open files that m_inodes and m_fds stand for.
LEMMA OpenShown ==
    MaxFds \in Nat => ShowsOpen(openOf, inodes, fds)
<1>1. openOf = [fd \in OpenIn(fds) |-> Handle(inodes, fds[fd - kFdOffset])]
  BY DEF openOf, OpenIn, Handle
<1>2. openOf = [fd \in OpenIn(fds) |-> openOf[fd]]
  BY <1>1
<1>3. ASSUME MaxFds \in Nat, NEW d \in Fds, fds[d].used
      PROVE  openOf[d + kFdOffset] = Handle(inodes, fds[d])
  <2> DEFINE x == d + kFdOffset
  <2>1. x - kFdOffset = d
    BY <1>3, SMT DEF Fds, kFdOffset
  <2>2. x \in OpenIn(fds)
    BY <1>3 DEF OpenIn
  <2>3. \A fd \in OpenIn(fds) : openOf[fd] = Handle(inodes, fds[fd - kFdOffset])
    BY <1>1
  <2> HIDE DEF x
  <2>4. openOf[x] = Handle(inodes, fds[x - kFdOffset])
    BY <2>2, <2>3
  <2>5. openOf[x] = Handle(inodes, fds[d])
    BY <2>1, <2>4
  <2> QED
    BY <2>5 DEF x
<1> QED
  BY <1>2, <1>3 DEF ShowsOpen

\* The same after a step.
LEMMA OpenShownNext ==
    MaxFds \in Nat => ShowsOpen(openOf', inodes', fds')
<1>1. (MaxFds \in Nat => ShowsOpen(openOf, inodes, fds))'
  BY OpenShown, PTL
<1> QED
  BY <1>1 DEF ShowsOpen, OpenIn, Handle

\* What the tree has at a path is what find_inode finds there.
LEMMA Lookup ==
    ASSUME TablesWellFormed, NEW p
    PROVE  /\ p \in DOMAIN treeOf <=> Named(p) # {}
           /\ Named(p) # {} => treeOf[p] = Node(inodes[First(Named(p))])
           /\ V!IsDir(p) <=> IsDirectory(p)
           /\ V!IsFile(p) <=> Named(p) # {} /\ ~IsDirectory(p)
<1>1. Unique(inodes)
  BY TablesNow DEF Tree
<1>2. Shows(treeOf, inodes)
  BY <1>1, TreeShown
<1>3. DOMAIN treeOf = NamesIn(inodes)
  BY <1>2 DEF Shows
<1>4. p \in NamesIn(inodes) <=> Named(p) # {}
  BY DEF NamesIn, Named, Used
<1>5. Named(p) # {} => treeOf[p] = Node(inodes[First(Named(p))])
  BY <1>1, <1>2, FoundInode DEF Shows
<1>6. \A x : Node(x).dir = x.dir
  BY DEF Node
<1> QED
  BY <1>3, <1>4, <1>5, <1>6 DEF V!IsDir, V!IsFile, IsDirectory

\* The descriptors that are open are the ones get_fd takes.
LEMMA LookupOpen ==
    ASSUME NEW fd \in Descriptors
    PROVE  /\ fd \in DOMAIN openOf <=> IsOpen(fd)
           /\ IsOpen(fd) => openOf[fd] = Handle(inodes, fds[fd - kFdOffset])
<1>1. ShowsOpen(openOf, inodes, fds)
  BY OpenShown, RamFsAssumption
<1>2. DOMAIN openOf = OpenIn(fds)
  BY <1>1 DEF ShowsOpen
<1>3. fd \in Int /\ fd - kFdOffset + kFdOffset = fd
  BY RamFsAssumption, SMT DEF Descriptors, kFdOffset
<1>4. ASSUME IsOpen(fd) PROVE fd \in OpenIn(fds) /\ openOf[fd] = Handle(inodes, fds[fd - kFdOffset])
  <2> DEFINE d == fd - kFdOffset
  <2>1. d \in Fds /\ fds[d].used
    BY <1>4 DEF IsOpen
  <2>2. d + kFdOffset = fd
    BY <1>3
  <2> HIDE DEF d
  <2>3. openOf[d + kFdOffset] = Handle(inodes, fds[d])
    BY <1>1, <2>1 DEF ShowsOpen
  <2>4. openOf[fd] = Handle(inodes, fds[d])
    BY <2>2, <2>3
  <2>5. fd \in OpenIn(fds)
    BY <2>1, <2>2 DEF OpenIn
  <2> QED
    BY <2>4, <2>5 DEF d
<1>5. ASSUME fd \in OpenIn(fds) PROVE IsOpen(fd)
  <2>1. PICK d \in Fds : fds[d].used /\ fd = d + kFdOffset
    BY <1>5 DEF OpenIn
  <2>2. fd - kFdOffset = d
    BY <2>1, RamFsAssumption, SMT DEF kFdOffset, Fds
  <2> QED
    BY <2>1, <2>2 DEF IsOpen
<1> QED
  BY <1>2, <1>4, <1>5

-----------------------------------------------------------------------------
(* What a change of the tables is to the tree and to the open files.       *)

\* Nothing changes in the tree when no inode does.
LEMMA TreeStays ==
    ASSUME TablesWellFormed, inodes' = inodes
    PROVE  treeOf' = treeOf
<1>1. Unique(inodes)
  BY TablesNow DEF Tree
<1>2. Shows(treeOf, inodes) /\ Shows(treeOf', inodes)
  BY <1>1, TreeShown, TreeShownNext
<1> QED
  BY <1>2, ShownOnce

\* The open files do not change when no descriptor does and no file that is
\* open is renamed.
LEMMA OpenStays ==
    ASSUME fds' = fds, Stays
    PROVE  openOf' = openOf
<1>1. ShowsOpen(openOf, inodes, fds) /\ ShowsOpen(openOf', inodes', fds)
  BY OpenShown, OpenShownNext, RamFsAssumption
<1>2. \A d \in Fds : fds[d].used => Handle(inodes, fds[d]) = Handle(inodes', fds[d])
  BY DEF Handle, Stays
<1>3. ShowsOpen(openOf, inodes', fds)
  BY <1>1, <1>2 DEF ShowsOpen
<1> QED
  BY <1>1, <1>3, OpenShownOnce

\* A call that changes no table.
LEMMA NothingDone ==
    ASSUME TablesWellFormed, inodes' = inodes, fds' = fds
    PROVE  V!NoChange(ret')
<1>1. Stays
  BY DEF Stays
<1> QED
  BY <1>1, TreeStays, OpenStays DEF V!NoChange, V!Returns

\* A call that returns -1 and changes no table.
LEMMA FailsAsPromised ==
    ASSUME TablesWellFormed, Fails
    PROVE  V!NoChange(V!Fail)
<1>1. inodes' = inodes /\ fds' = fds /\ ret' = V!Fail
  BY DEF Fails, Fail, Returns, Number, V!Fail, V!Number
<1> QED
  BY <1>1, NothingDone

\* One inode is new, or has new contents.
LEMMA TreeWith ==
    ASSUME Unique(inodes), Unique(inodes'), NEW f \in Inodes, inodes'[f].used,
           \A i \in Inodes \ {f} : inodes'[i] = inodes[i],
           inodes[f].used => inodes[f].name = inodes'[f].name
    PROVE  treeOf' = V!With(treeOf, inodes'[f].name, Node(inodes'[f]))
<1> DEFINE p == inodes'[f].name
           node == Node(inodes'[f])
           F == V!With(treeOf, p, node)
<1>1. Shows(treeOf, inodes) /\ Shows(treeOf', inodes')
  BY TreeShown, TreeShownNext
<1>2. DOMAIN treeOf = NamesIn(inodes)
  BY <1>1 DEF Shows
<1>3. NamesIn(inodes') = NamesIn(inodes) \cup {p}
  BY DEF NamesIn
<1>4. F = [q \in NamesIn(inodes') |-> IF q = p THEN node ELSE treeOf[q]]
  BY <1>2, <1>3 DEF V!With
<1>5. ASSUME NEW i \in Inodes, inodes'[i].used
      PROVE  F[inodes'[i].name] = Node(inodes'[i])
  <2>1. inodes'[i].name \in NamesIn(inodes')
    BY <1>5 DEF NamesIn
  <2>2. F[inodes'[i].name] = IF inodes'[i].name = p THEN node ELSE treeOf[inodes'[i].name]
    <3> HIDE DEF p, node, F
    <3> QED
      BY <1>4, <2>1
  <2>3. CASE i = f
    BY <2>2, <2>3
  <2>4. CASE i # f
    <3>1. inodes'[i].name # p
      BY <1>5, <2>4 DEF Unique
    <3>2. treeOf[inodes'[i].name] = Node(inodes'[i])
      BY <1>1, <1>5, <2>4 DEF Shows
    <3> QED
      BY <2>2, <3>1, <3>2
  <2> QED
    BY <2>3, <2>4
<1>6. F = [q \in NamesIn(inodes') |-> F[q]]
  <2> HIDE DEF p, node, F
  <2> QED
    BY <1>4
<1>7. Shows(F, inodes')
  BY <1>5, <1>6 DEF Shows
<1> QED
  BY <1>1, <1>7, ShownOnce

\* One inode is given back.
LEMMA TreeWithout ==
    ASSUME Unique(inodes), Unique(inodes'), NEW f \in Inodes, inodes[f].used, ~inodes'[f].used,
           \A i \in Inodes \ {f} : inodes'[i] = inodes[i]
    PROVE  treeOf' = V!Without(treeOf, inodes[f].name)
<1> DEFINE p == inodes[f].name
           F == V!Without(treeOf, p)
<1>1. Shows(treeOf, inodes) /\ Shows(treeOf', inodes')
  BY TreeShown, TreeShownNext
<1>2. DOMAIN treeOf = NamesIn(inodes)
  BY <1>1 DEF Shows
<1>3. NamesIn(inodes') = NamesIn(inodes) \ {p}
  <2>1. \A i \in Inodes \ {f} : inodes[i].used => inodes[i].name # p
    BY DEF Unique
  <2> QED
    BY <2>1, SMT DEF NamesIn
<1>4. F = [q \in NamesIn(inodes') |-> treeOf[q]]
  BY <1>2, <1>3 DEF V!Without
<1>5. \A q \in NamesIn(inodes') : F[q] = treeOf[q]
  <2> HIDE DEF F
  <2> QED
    BY <1>4
<1>6. ASSUME NEW i \in Inodes, inodes'[i].used
      PROVE  F[inodes'[i].name] = Node(inodes'[i])
  <2>1. inodes'[i].name \in NamesIn(inodes')
    BY <1>6 DEF NamesIn
  <2>2. i # f /\ treeOf[inodes'[i].name] = Node(inodes'[i])
    BY <1>1, <1>6 DEF Shows
  <2> QED
    BY <1>5, <2>1, <2>2
<1>7. F = [q \in NamesIn(inodes') |-> F[q]]
  <2> HIDE DEF F
  <2> QED
    BY <1>4
<1>8. Shows(F, inodes')
  BY <1>6, <1>7 DEF Shows
<1> QED
  BY <1>1, <1>8, ShownOnce

\* One descriptor is new, or has moved.
LEMMA OpenWith ==
    ASSUME NEW d \in Fds, fds'[d].used, Stays,
           \A e \in Fds \ {d} : fds'[e] = fds[e]
    PROVE  openOf' = V!With(openOf, d + kFdOffset, Handle(inodes', fds'[d]))
<1> DEFINE x == d + kFdOffset
           h == Handle(inodes', fds'[d])
           F == V!With(openOf, x, h)
<1>1. ShowsOpen(openOf, inodes, fds) /\ ShowsOpen(openOf', inodes', fds')
  BY OpenShown, OpenShownNext, RamFsAssumption
<1>2. DOMAIN openOf = OpenIn(fds)
  BY <1>1 DEF ShowsOpen
<1>3. OpenIn(fds') = OpenIn(fds) \cup {x}
  BY DEF OpenIn
<1>4. F = [q \in OpenIn(fds') |-> IF q = x THEN h ELSE openOf[q]]
  BY <1>2, <1>3 DEF V!With
<1>5. ASSUME NEW e \in Fds, fds'[e].used
      PROVE  F[e + kFdOffset] = Handle(inodes', fds'[e])
  <2> DEFINE y == e + kFdOffset
  <2>1. y \in OpenIn(fds')
    BY <1>5 DEF OpenIn
  <2>2. F[y] = IF y = x THEN h ELSE openOf[y]
    <3> HIDE DEF x, h, F, y
    <3> QED
      BY <1>4, <2>1
  <2>3. CASE e = d
    BY <2>2, <2>3
  <2>4. CASE e # d
    <3>1. y # x
      BY <2>4, RamFsAssumption, SMT DEF Fds, kFdOffset
    <3>2. openOf[y] = Handle(inodes, fds[e]) /\ fds'[e] = fds[e]
      BY <1>1, <1>5, <2>4 DEF ShowsOpen
    <3>3. Handle(inodes, fds[e]) = Handle(inodes', fds'[e])
      BY <1>5, <3>2 DEF Stays, Handle
    <3> QED
      BY <2>2, <3>1, <3>2, <3>3
  <2> QED
    BY <2>3, <2>4
<1>6. F = [q \in OpenIn(fds') |-> F[q]]
  <2> HIDE DEF x, h, F
  <2> QED
    BY <1>4
<1>7. ShowsOpen(F, inodes', fds')
  BY <1>5, <1>6 DEF ShowsOpen
<1> QED
  BY <1>1, <1>7, OpenShownOnce

\* One descriptor is given back.
LEMMA OpenWithout ==
    ASSUME NEW d \in Fds, fds[d].used, ~fds'[d].used, Stays,
           \A e \in Fds \ {d} : fds'[e] = fds[e]
    PROVE  openOf' = V!Without(openOf, d + kFdOffset)
<1> DEFINE x == d + kFdOffset
           F == V!Without(openOf, x)
<1>1. ShowsOpen(openOf, inodes, fds) /\ ShowsOpen(openOf', inodes', fds')
  BY OpenShown, OpenShownNext, RamFsAssumption
<1>2. DOMAIN openOf = OpenIn(fds)
  BY <1>1 DEF ShowsOpen
<1>3. OpenIn(fds') = OpenIn(fds) \ {x}
  <2>1. \A e \in Fds \ {d} : e + kFdOffset # x
    BY RamFsAssumption, SMT DEF Fds, kFdOffset
  <2> HIDE DEF x
  <2>2. \A q : q \in OpenIn(fds') <=> \E e \in Fds : e # d /\ fds[e].used /\ q = e + kFdOffset
    BY SMT DEF OpenIn
  <2>3. \A q : q \in OpenIn(fds) <=> \E e \in Fds : fds[e].used /\ q = e + kFdOffset
    BY DEF OpenIn
  <2> QED
    BY <2>1, <2>2, <2>3 DEF x
<1>4. F = [q \in OpenIn(fds') |-> openOf[q]]
  BY <1>2, <1>3 DEF V!Without
<1>5. \A q \in OpenIn(fds') : F[q] = openOf[q]
  <2> HIDE DEF F
  <2> QED
    BY <1>4
<1>6. ASSUME NEW e \in Fds, fds'[e].used
      PROVE  F[e + kFdOffset] = Handle(inodes', fds'[e])
  <2> DEFINE y == e + kFdOffset
  <2>1. y \in OpenIn(fds')
    BY <1>6 DEF OpenIn
  <2>2. openOf[y] = Handle(inodes, fds[e]) /\ fds'[e] = fds[e]
    BY <1>1, <1>6 DEF ShowsOpen
  <2>3. Handle(inodes, fds[e]) = Handle(inodes', fds'[e])
    BY <1>6, <2>2 DEF Stays, Handle
  <2> QED
    BY <1>5, <2>1, <2>2, <2>3
<1>7. F = [q \in OpenIn(fds') |-> F[q]]
  <2> HIDE DEF F
  <2> QED
    BY <1>4
<1>8. ShowsOpen(F, inodes', fds')
  BY <1>6, <1>7 DEF ShowsOpen
<1> QED
  BY <1>1, <1>8, OpenShownOnce

-----------------------------------------------------------------------------
(* The calls.                                                              *)

\* close does what Vfs promises.
LEMMA CloseAsPromised ==
    ASSUME TablesWellFormed, TablesWellFormed', Stays, NEW fd \in Descriptors, Close(fd)
    PROVE  V!VClose(fd)
<1> DEFINE d == fd - kFdOffset
<1>1. fd \in DOMAIN openOf <=> IsOpen(fd)
  BY LookupOpen
<1>2. CASE ~IsOpen(fd)
  <2>1. Fails
    BY <1>2 DEF Close
  <2> QED
    BY <1>1, <1>2, <2>1, FailsAsPromised DEF V!VClose
<1>3. CASE IsOpen(fd)
  <2>1. fds' = [fds EXCEPT ![d] = FreeFd] /\ ret' = Number(0) /\ inodes' = inodes
    BY <1>3 DEF Close, Returns
  <2>2. d \in Fds /\ fds[d].used
    BY <1>3 DEF IsOpen
  <2>3. ~fds'[d].used /\ \A e \in Fds \ {d} : fds'[e] = fds[e]
    BY <2>1, <2>2, TablesNow DEF FreeFd
  <2>4. Stays
    OBVIOUS
  <2>5. d + kFdOffset = fd
    BY RamFsAssumption, SMT DEF Descriptors, kFdOffset
  <2>6. openOf' = V!Without(openOf, fd)
    <3> HIDE DEF d
    <3>1. openOf' = V!Without(openOf, d + kFdOffset)
      BY <2>2, <2>3, <2>4, OpenWithout
    <3> QED
      BY <2>5, <3>1
  <2>7. treeOf' = treeOf
    BY <2>1, TreeStays
  <2>8. ret' = V!Number(0)
    BY <2>1 DEF Number, V!Number
  <2> QED
    BY <1>1, <1>3, <2>6, <2>7, <2>8 DEF V!VClose, V!Returns
<1> QED
  BY <1>2, <1>3

\* Whether an inode is open is whether its path is.
LEMMA InUseIs ==
    ASSUME TablesWellFormed, NEW f \in Inodes, inodes[f].used
    PROVE  V!InUse(inodes[f].name) <=> OpenOn(f)
<1>1. ShowsOpen(openOf, inodes, fds)
  BY OpenShown, RamFsAssumption
<1>2. \A d \in Fds : fds[d].inode \in Inodes
  BY TablesNow DEF Descriptor
<1>3. \A d \in Fds : fds[d].used => openOf[d + kFdOffset].path = inodes[fds[d].inode].name
  <2>1. \A t, h : Handle(t, h).path = t[h.inode].name
    BY DEF Handle
  <2> QED
    BY <1>1, <2>1 DEF ShowsOpen
<1>4. \A x : x \in DOMAIN openOf <=> \E d \in Fds : fds[d].used /\ x = d + kFdOffset
  <2>1. DOMAIN openOf = OpenIn(fds)
    BY <1>1 DEF ShowsOpen
  <2> QED
    BY <2>1 DEF OpenIn
<1>5. V!InUse(inodes[f].name)
      <=> \E d \in Fds : fds[d].used /\ inodes[fds[d].inode].name = inodes[f].name
  <2>1. V!InUse(inodes[f].name) <=> \E x \in DOMAIN openOf : openOf[x].path = inodes[f].name
    BY DEF V!InUse
  <2> QED
    BY <1>3, <1>4, <2>1
<1>6. \A d \in Fds : fds[d].used => inodes[fds[d].inode].used
  BY TablesNow DEF HandlesValid
<1>7. Unique(inodes)
  BY TablesNow DEF Tree
<1> QED
  BY <1>2, <1>5, <1>6, <1>7 DEF Unique, OpenOn

\* rd and unlink past their checks.
LEMMA RemovedAsPromised ==
    ASSUME TablesWellFormed, TablesWellFormed', Stays, NEW p, Named(p) # {},
           inodes' = [inodes EXCEPT ![First(Named(p))] = FreeInode], ret' = Number(0), fds' = fds
    PROVE  treeOf' = V!Without(treeOf, p) /\ ret' = V!Number(0) /\ openOf' = openOf
<1> DEFINE f == First(Named(p))
<1>1. Unique(inodes) /\ Unique(inodes')
  BY TablesNow, TreeWellFormedNext DEF Tree, TablesWellFormed
<1>2. f \in Inodes /\ inodes[f].used /\ inodes[f].name = p
  BY <1>1, FoundInode
<1>3. inodes'[f] = FreeInode /\ \A i \in Inodes \ {f} : inodes'[i] = inodes[i]
  BY <1>2, TablesNow
<1>4. ~inodes'[f].used
  BY <1>3, FreeInodeType
<1> HIDE DEF f
<1>5. treeOf' = V!Without(treeOf, inodes[f].name)
  BY <1>1, <1>2, <1>3, <1>4, TreeWithout
<1>6. openOf' = openOf
  BY OpenStays
<1> QED
  BY <1>2, <1>5, <1>6 DEF Number, V!Number

\* unlink does what Vfs promises.
LEMMA UnlinkAsPromised ==
    ASSUME TablesWellFormed, TablesWellFormed', Stays, NEW raw \in RawPaths, Unlink(raw),
           NEW p, p = NormalizePath(raw), p # NoPath
    PROVE  V!VUnlink(p)
<1> DEFINE f == First(Named(p))
<1>1. Unique(inodes) /\ IsDirectory(Root)
  BY TablesNow DEF Tree, TablesWellFormed, TreeWellFormed
<1>2. V!IsFile(p) <=> Named(p) # {} /\ ~IsDirectory(p)
  BY Lookup
<1>3. Named(p) # {} => (V!InUse(p) <=> OpenOn(f))
  BY <1>1, FoundInode, InUseIs
<1>4. CASE ~V!IsFile(p) \/ V!InUse(p)
  <2>1. p = Root \/ Named(p) = {} \/ IsDirectory(p) \/ OpenOn(f)
    BY <1>2, <1>3, <1>4
  <2>2. Fails
    BY <2>1 DEF Unlink
  <2> QED
    BY <1>4, <2>2, FailsAsPromised DEF V!VUnlink
<1>5. CASE V!IsFile(p) /\ ~V!InUse(p)
  <2>1. p # Root /\ Named(p) # {} /\ ~IsDirectory(p) /\ ~OpenOn(f)
    BY <1>1, <1>2, <1>3, <1>5
  <2>2. inodes' = [inodes EXCEPT ![f] = FreeInode] /\ ret' = Number(0) /\ fds' = fds
    BY <2>1 DEF Unlink, Returns
  <2>3. TablesWellFormed' /\ Stays
    OBVIOUS
  <2>4. treeOf' = V!Without(treeOf, p) /\ ret' = V!Number(0) /\ openOf' = openOf
    BY <2>1, <2>2, <2>3, RemovedAsPromised
  <2> QED
    BY <1>5, <2>4 DEF V!VUnlink, V!Returns
<1> QED
  BY <1>4, <1>5

\* The entries of a directory, by their inodes.
LEMMA ChildrenAre ==
    ASSUME TablesWellFormed, NEW p
    PROVE  V!Children(p) = {inodes[i].name : i \in EntriesIn(p)}
<1>1. DOMAIN treeOf = NamesIn(inodes)
  BY TablesNow, TreeShown DEF Tree, Shows
<1>2. V!Children(p) = {q \in NamesIn(inodes) : q # Root /\ Parent(q) = p}
  BY <1>1 DEF V!Children, V!Parent, Parent, Root
<1> QED
  BY <1>2, SMT DEF NamesIn, Used, EntriesIn

\* rd does what Vfs promises.
LEMMA RdAsPromised ==
    ASSUME TablesWellFormed, TablesWellFormed', Stays, NEW raw \in RawPaths, Rd(raw),
           NEW p, p = NormalizePath(raw), p # NoPath,
           p \in Seq(Names), HasEntries(p) <=> EntriesIn(p) # {}
    PROVE  V!VRd(p)
<1> DEFINE f == First(Named(p))
           removable == {q \in {NormalizePath(r) : r \in RawPaths} : PrefixFits(q)}
<1>1. p \in Seq(Names)
  OBVIOUS
<1>2. V!IsDir(p) <=> IsDirectory(p)
  BY Lookup
<1>3. V!Children(p) # {} <=> HasEntries(p)
  <2>1. V!Children(p) = {inodes[i].name : i \in EntriesIn(p)}
    BY ChildrenAre
  <2>2. V!Children(p) # {} <=> EntriesIn(p) # {}
    BY <2>1
  <2> QED
    BY <2>2
<1>4. p \in removable <=> PrefixFits(p)
  OBVIOUS
<1>5. IsDirectory(p) => Named(p) # {} /\ ~OpenOn(f)
  <2>1. ASSUME IsDirectory(p) PROVE Named(p) # {} /\ inodes[f].dir
    BY <2>1 DEF IsDirectory
  <2> QED
    BY <2>1, TablesNow DEF HandlesValid, OpenOn
<1> DEFINE fails == p = Root \/ ~IsDirectory(p) \/ HasEntries(p) \/ ~PrefixFits(p)
<1>6. CASE fails
  <2>1. Fails
    BY <1>6 DEF Rd
  <2> QED
    BY <1>2, <1>3, <1>4, <1>6, <2>1, FailsAsPromised DEF V!VRd, Root
<1>7. CASE ~fails
  <2>1. inodes' = [inodes EXCEPT ![f] = FreeInode] /\ ret' = Number(0) /\ fds' = fds
    BY <1>5, <1>7 DEF Rd, Returns
  <2>2. TablesWellFormed' /\ Stays
    OBVIOUS
  <2>3. treeOf' = V!Without(treeOf, p) /\ ret' = V!Number(0) /\ openOf' = openOf
    BY <1>5, <1>7, <2>1, <2>2, RemovedAsPromised
  <2> QED
    BY <1>2, <1>3, <1>4, <1>7, <2>3 DEF V!VRd, V!Returns, Root
<1> QED
  BY <1>6, <1>7

\* What a new inode is in the tree.
LEMMA NewNode ==
    ASSUME NEW p
    PROVE  /\ Node(NewInode(p, TRUE)) = [dir |-> TRUE, data |-> << >>]
           /\ Node(NewInode(p, FALSE)) = [dir |-> FALSE, data |-> << >>]
<1>1. SubSeq(<< >>, 1, 0) = << >>
  BY SMT
<1> QED
  BY <1>1 DEF Node, NewInode

\* md does what Vfs promises.
LEMMA MdAsPromised ==
    ASSUME TablesWellFormed, TablesWellFormed', Stays, NEW raw \in RawPaths, Md(raw),
           NEW p, p = NormalizePath(raw), p # NoPath, SizesInOrder, FullAlike
    PROVE  V!VMd(p)
<1> DEFINE f == First(Inodes \ Used)
           new == NewInode(p, TRUE)
<1>1. Unique(inodes) /\ IsDirectory(Root)
  BY TablesNow DEF Tree, TablesWellFormed, TreeWellFormed
<1>2. /\ p \in DOMAIN treeOf <=> Named(p) # {}
      /\ V!IsDir(p) <=> IsDirectory(p)
      /\ V!IsDir(V!Parent(p)) <=> IsDirectory(Parent(p))
  BY Lookup DEF V!Parent, Parent
<1>3. V!Cardinality(DOMAIN treeOf) = MaxInodes <=> Inodes \ Used = {}
  BY DEF FullAlike
<1>4. IsDirectory(p) => Named(p) # {}
  BY DEF IsDirectory
<1>5. CASE Named(p) # {}
  <2>1. /\ ret' = IF IsDirectory(p) THEN V!Number(0) ELSE V!Fail
        /\ inodes' = inodes /\ fds' = fds
    BY <1>5 DEF Md, Returns, Number, Fail, V!Number, V!Fail
  <2>2. V!NoChange(ret')
    BY <2>1, NothingDone
  <2> QED
    BY <1>2, <1>5, <2>1, <2>2 DEF V!VMd
<1>6. CASE Named(p) = {} /\ (~ParentDirectoryExists(p) \/ Inodes \ Used = {})
  <2>1. Fails
    BY <1>6 DEF Md
  <2>2. ~IsDirectory(p) /\ (IsDirectory(Parent(p)) => Inodes \ Used = {})
    BY <1>4, <1>6 DEF ParentDirectoryExists
  <2> QED
    BY <1>2, <1>3, <2>1, <2>2, FailsAsPromised DEF V!VMd
<1>7. CASE Named(p) = {} /\ ParentDirectoryExists(p) /\ Inodes \ Used # {}
  <2>1. inodes' = [inodes EXCEPT ![f] = new] /\ ret' = V!Number(0) /\ fds' = fds
    BY <1>7 DEF Md, Returns, Number, V!Number
  <2>2. p # Root /\ ~IsDirectory(p) /\ IsDirectory(Parent(p))
    BY <1>1, <1>4, <1>7 DEF ParentDirectoryExists, IsDirectory
  <2>3. f \in Inodes /\ ~inodes[f].used
    BY <1>7, FreeEntry
  <2>4. inodes'[f] = new /\ \A i \in Inodes \ {f} : inodes'[i] = inodes[i]
    BY <2>1, <2>3, TablesNow
  <2>5. inodes'[f].used /\ inodes'[f].name = p
    <3>1. new.used /\ new.name = p
      BY DEF NewInode
    <3> QED
      BY <2>4, <3>1
  <2>6. TablesWellFormed' /\ Stays
    OBVIOUS
  <2>7. Unique(inodes')
    BY <2>6, TreeWellFormedNext DEF Tree, TablesWellFormed
  <2>8. Node(inodes'[f]) = [dir |-> TRUE, data |-> << >>]
    BY <2>4, NewNode
  <2> HIDE DEF f, new
  <2>9. treeOf' = V!With(treeOf, inodes'[f].name, Node(inodes'[f]))
    BY <1>1, <2>3, <2>4, <2>5, <2>7, TreeWith
  <2>10. treeOf' = V!With(treeOf, p, [dir |-> TRUE, data |-> << >>])
    BY <2>5, <2>8, <2>9
  <2>11. openOf' = openOf
    BY <2>1, <2>6, OpenStays
  <2> QED
    BY <1>2, <1>3, <1>7, <2>1, <2>2, <2>10, <2>11 DEF V!VMd, V!Returns
<1> QED
  BY <1>5, <1>6, <1>7

\* The descriptor that open hands out, when there is one.
LEMMA OpenFileAsPromised ==
    ASSUME Stays, NEW fl \in Flags, NEW i \in Inodes, NEW t, OpenInode(i, t, fl),
           NEW p, inodes'[i].name = p, fds \in [Fds -> Descriptor],
           SizesInOrder, FullAlike
    PROVE  IF V!Cardinality(DOMAIN openOf) = MaxFds
           THEN ret' = V!Fail /\ openOf' = openOf
           ELSE \E d \in (3 .. MaxFds + 2) \ DOMAIN openOf :
                  /\ openOf' = V!With(openOf, d, [path |-> p, offset |-> 0,
                                                 read |-> fl.read, write |-> fl.write])
                  /\ ret' = V!Number(d)
<1> DEFINE free == {d \in Fds : ~fds[d].used}
           d == First(free)
           new == [used |-> TRUE, inode |-> i, offset |-> 0, read |-> fl.read, write |-> fl.write]
           h == [path |-> p, offset |-> 0, read |-> fl.read, write |-> fl.write]
<1>1. V!Cardinality(DOMAIN openOf) = MaxFds <=> free = {}
  BY DEF FullAlike, FreeFds
<1>2. CASE free = {}
  <2>1. ret' = V!Fail /\ fds' = fds
    BY <1>2 DEF OpenInode, Returns, Fail, Number, V!Fail, V!Number
  <2>2. openOf' = openOf
    BY <2>1, OpenStays
  <2> QED
    BY <1>1, <1>2, <2>1, <2>2
<1>3. CASE free # {}
  <2>1. fds' = [fds EXCEPT ![d] = new] /\ ret' = V!Number(d + kFdOffset)
    BY <1>3 DEF OpenInode, Returns, Number, V!Number
  <2>3. d \in Fds /\ ~fds[d].used
    BY <1>3 DEF SizesInOrder, FreeFds
  <2>4. fds'[d] = new /\ \A e \in Fds \ {d} : fds'[e] = fds[e]
    BY <2>1, <2>3
  <2>5. fds'[d].used /\ Handle(inodes', fds'[d]) = h
    <3>1. new.used /\ Handle(inodes', new) = h
      BY DEF Handle
    <3> QED
      BY <2>4, <3>1
  <2> DEFINE x == d + kFdOffset
  <2>6. x \in 3 .. MaxFds + 2 /\ x - kFdOffset = d /\ x \in Descriptors
    <3>1. d \in Int /\ 0 <= d /\ d <= MaxFds - 1 /\ MaxFds \in Nat
      BY <2>3, RamFsAssumption, SMT DEF Fds
    <3> HIDE DEF d
    <3> QED
      BY <3>1, SMT DEF kFdOffset, Descriptors
  <2>7. x \notin DOMAIN openOf
    <3> HIDE DEF d, x
    <3> QED
      BY <2>3, <2>6, LookupOpen DEF IsOpen
  <2>8. openOf' = V!With(openOf, x, h)
    <3> HIDE DEF d, h, new
    <3>1. openOf' = V!With(openOf, d + kFdOffset, Handle(inodes', fds'[d]))
      BY <2>3, <2>4, <2>5, OpenWith
    <3> QED
      BY <2>5, <3>1
  <2>9. ret' = V!Number(x)
    BY <2>1
  <2> HIDE DEF d, x, h
  <2>10. \E y \in (3 .. MaxFds + 2) \ DOMAIN openOf : openOf' = V!With(openOf, y, h) /\ ret' = V!Number(y)
    BY <2>6, <2>7, <2>8, <2>9
  <2> QED
    BY <1>1, <1>3, <2>10 DEF h
<1> QED
  BY <1>2, <1>3

\* open, past its checks, on a file found or made at p.
LEMMA OpenedAsPromised ==
    ASSUME TablesWellFormed, TablesWellFormed', Stays, NEW fl \in Flags,
           NEW i \in Inodes, NEW t \in [Inodes -> Inode], OpenInode(i, t, fl),
           t[i].used, ~t[i].dir, \A k \in Inodes \ {i} : t[k] = inodes[k],
           inodes[i].used => inodes[i].name = t[i].name
    PROVE  /\ treeOf' = V!With(treeOf, t[i].name,
                               IF Empties(fl) THEN [dir |-> FALSE, data |-> << >>] ELSE Node(t[i]))
           /\ inodes'[i].name = t[i].name
<1>1. Unique(inodes) /\ Unique(inodes')
  BY TablesNow, TreeWellFormedNext DEF Tree, TablesWellFormed
<1>2. /\ inodes'[i].used /\ inodes'[i].name = t[i].name
      /\ \A k \in Inodes \ {i} : inodes'[k] = inodes[k]
  BY DEF OpenInode, Inode
<1>3. Node(inodes'[i]) = IF Empties(fl) THEN [dir |-> FALSE, data |-> << >>] ELSE Node(t[i])
  <2>1. CASE ~Empties(fl)
    BY <2>1 DEF OpenInode
  <2>2. CASE Empties(fl)
    <3>1. inodes'[i].size = 0 /\ inodes'[i].dir = t[i].dir /\ inodes'[i].data = t[i].data
      BY <2>2 DEF OpenInode, Inode
    <3>2. t[i].dir = FALSE /\ SubSeq(t[i].data, 1, 0) = << >>
      BY SMT DEF Inode
    <3> QED
      BY <2>2, <3>1, <3>2 DEF Node
  <2> QED
    BY <2>1, <2>2
<1>4. treeOf' = V!With(treeOf, inodes'[i].name, Node(inodes'[i]))
  BY <1>1, <1>2, TreeWith
<1> QED
  BY <1>2, <1>3, <1>4

\* open does what Vfs promises.
LEMMA OpenAsPromised ==
    ASSUME TablesWellFormed, TablesWellFormed', Stays, NEW raw \in RawPaths, NEW fl \in Flags,
           Open(raw, fl), NEW p, p = NormalizePath(raw), p # NoPath, p \in Seq(Names),
           PathLen(p) < PathSize, SizesInOrder, FullAlike
    PROVE  V!VOpen(p, fl)
<1> DEFINE f == First(Inodes \ Used)
           t == [inodes EXCEPT ![f] = NewInode(p, FALSE)]
           exists == p \in DOMAIN treeOf
           creates == ~exists /\ fl.create /\ V!IsDir(V!Parent(p))
           file == IF exists /\ ~(fl.trunc /\ fl.write) THEN treeOf[p]
                   ELSE [dir |-> FALSE, data |-> << >>]
           fails == p = Root \/ V!IsDir(p) \/ ~(exists \/ creates)
                    \/ (creates /\ V!Cardinality(DOMAIN treeOf) = MaxInodes)
<1>1. Unique(inodes) /\ IsDirectory(Root) /\ fds \in [Fds -> Descriptor]
  BY TablesNow DEF Tree, TablesWellFormed, TreeWellFormed
<1>2. /\ exists <=> Named(p) # {}
      /\ Named(p) # {} => treeOf[p] = Node(inodes[First(Named(p))])
      /\ V!IsDir(p) <=> IsDirectory(p)
      /\ V!IsDir(V!Parent(p)) <=> IsDirectory(Parent(p))
  BY Lookup DEF V!Parent, Parent
<1>3. V!Cardinality(DOMAIN treeOf) = MaxInodes <=> Inodes \ Used = {}
  BY DEF FullAlike
<1>4. TablesWellFormed' /\ Stays
  OBVIOUS
<1>5. CASE fails
  <2>1. \/ p = Root
        \/ p # Root /\ Named(p) # {} /\ IsDirectory(p)
        \/ /\ p # Root /\ Named(p) = {}
           /\ ~fl.create \/ ~ParentDirectoryExists(p) \/ Inodes \ Used = {}
    BY <1>2, <1>3, <1>5 DEF ParentDirectoryExists, IsDirectory
  <2> HIDE DEF fails
  <2>2. Fails
    BY <2>1 DEF Open
  <2>3. V!NoChange(V!Fail)
    BY <2>2, FailsAsPromised
  <2> QED
    BY <1>5, <2>3 DEF V!VOpen, Root, fails
<1>6. ASSUME ~fails, NEW i \in Inodes, NEW u, inodes'[i].name = p, OpenInode(i, u, fl),
             treeOf' = V!With(treeOf, p, file)
      PROVE  V!VOpen(p, fl)
  <2>1. IF V!Cardinality(DOMAIN openOf) = MaxFds
        THEN ret' = V!Fail /\ openOf' = openOf
        ELSE \E d \in (3 .. MaxFds + 2) \ DOMAIN openOf :
               /\ openOf' = V!With(openOf, d, [path |-> p, offset |-> 0,
                                              read |-> fl.read, write |-> fl.write])
               /\ ret' = V!Number(d)
    BY <1>1, <1>4, <1>6, OpenFileAsPromised
  <2> QED
    BY <1>6, <2>1 DEF V!VOpen, V!Returns, Root
<1>7. CASE ~fails /\ exists
  <2> DEFINE i == First(Named(p))
  <2>1. i \in Inodes /\ inodes[i].used /\ inodes[i].name = p /\ ~inodes[i].dir
    BY <1>1, <1>2, <1>7, FoundInode DEF IsDirectory
  <2>2. OpenInode(i, inodes, fl)
    BY <1>2, <1>7 DEF Open
  <2>3. file = IF Empties(fl) THEN [dir |-> FALSE, data |-> << >>] ELSE Node(inodes[i])
    BY <1>2, <1>7 DEF Empties
  <2> HIDE DEF i, file
  <2>4. treeOf' = V!With(treeOf, p, file) /\ inodes'[i].name = p
    BY <1>4, <2>1, <2>2, <2>3, TablesNow, OpenedAsPromised
  <2> QED
    BY <1>6, <1>7, <2>1, <2>2, <2>4
<1>8. CASE ~fails /\ ~exists
  <2>1. Inodes \ Used # {} /\ OpenInode(f, t, fl)
    BY <1>2, <1>3, <1>8 DEF Open, ParentDirectoryExists
  <2>2. f \in Inodes /\ ~inodes[f].used
    BY <2>1, FreeEntry
  <2>3. p \in Seq(Names) /\ PathLen(p) < PathSize
    OBVIOUS
  <2>4. t[f] = NewInode(p, FALSE) /\ t \in [Inodes -> Inode] /\ \A k \in Inodes \ {f} : t[k] = inodes[k]
    BY <2>2, <2>3, NewFile, TablesNow
  <2>5. t[f].used /\ ~t[f].dir /\ t[f].name = p
    BY <2>3, <2>4, NewFile
  <2>6. file = IF Empties(fl) THEN [dir |-> FALSE, data |-> << >>] ELSE Node(t[f])
    BY <1>8, <2>4, NewNode
  <2> HIDE DEF f, t, file
  <2>7. treeOf' = V!With(treeOf, p, file) /\ inodes'[f].name = p
    BY <1>4, <2>1, <2>2, <2>4, <2>5, <2>6, OpenedAsPromised
  <2> QED
    BY <1>6, <1>8, <2>1, <2>2, <2>7
<1> QED
  BY <1>5, <1>7, <1>8

-----------------------------------------------------------------------------
(* What read and write copy.                                               *)

\* The first bytes of a buffer.
LEMMA Prefix ==
    ASSUME NEW data \in Seq(Bytes), NEW size \in Nat, size <= Len(data)
    PROVE  /\ SubSeq(data, 1, size) \in Seq(Bytes) /\ Len(SubSeq(data, 1, size)) = size
           /\ \A k \in 1 .. size : SubSeq(data, 1, size)[k] = data[k]
  BY SMT

\* Two buffers with the same bytes are the same.
LEMMA SameBytes ==
    ASSUME NEW s \in Seq(Bytes), NEW t \in Seq(Bytes), Len(s) = Len(t), \A k \in 1 .. Len(s) : s[k] = t[k]
    PROVE  s = t
  BY SMT

\* One buffer behind another.
LEMMA Joined ==
    ASSUME NEW s \in Seq(Bytes), NEW t \in Seq(Bytes)
    PROVE  /\ s \o t \in Seq(Bytes) /\ Len(s \o t) = Len(s) + Len(t)
           /\ \A k \in 1 .. Len(s) + Len(t) : (s \o t)[k] = IF k <= Len(s) THEN s[k] ELSE t[k - Len(s)]
  BY SMT

\* What write is about to overwrite: old is the file, data the buffer it is in.
Overwrites(data, old, from, buf, end, size) ==
    /\ data \in Seq(Bytes) /\ old \in Seq(Bytes) /\ buf \in Seq(Bytes) /\ from \in Nat
    /\ end = from + Len(buf) /\ size = (IF end > Len(old) THEN end ELSE Len(old))
    /\ Len(data) >= size /\ \A k \in 1 .. Len(old) : data[k] = old[k]

\* What write leaves, as Vfs has it.
Leaves(left, old, from, buf, end) ==
    \E gap \in [1 .. (IF from > Len(old) THEN from - Len(old) ELSE 0) -> Bytes] :
      left = SubSeq(old \o gap, 1, from) \o buf \o SubSeq(old, end + 1, Len(old))

\* write leaves what Vfs promises: the bytes before the offset, with whatever
\* was in the buffer where the file had none, then the caller's, then the rest
\* of the file.
LEMMA WrittenBytes ==
    ASSUME NEW data, NEW old, NEW from, NEW buf, NEW end, NEW size,
           Overwrites(data, old, from, buf, end, size)
    PROVE  Leaves(SubSeq(Overwritten(data, from, buf), 1, size), old, from, buf, end)
<1> DEFINE g == IF from > Len(old) THEN from - Len(old) ELSE 0
           gap == [k \in 1 .. g |-> data[Len(old) + k]]
           new == Overwritten(data, from, buf)
           left == SubSeq(new, 1, size)
           head == SubSeq(old \o gap, 1, from)
           tail == SubSeq(old, end + 1, Len(old))
<1>1. /\ data \in Seq(Bytes) /\ old \in Seq(Bytes) /\ buf \in Seq(Bytes) /\ from \in Nat
      /\ end = from + Len(buf) /\ size = (IF end > Len(old) THEN end ELSE Len(old))
      /\ Len(data) >= size /\ \A k \in 1 .. Len(old) : data[k] = old[k]
  BY SMT DEF Overwrites
<1>2. /\ Len(old) \in Nat /\ Len(buf) \in Nat /\ end \in Nat /\ size \in Nat /\ g \in Nat
      /\ end <= size /\ Len(old) <= size /\ from <= end /\ Len(old) + g >= from
  BY <1>1, SMT
<1>3. \A k \in 1 .. g : data[Len(old) + k] \in Bytes
  BY <1>1, <1>2, SMT
<1>4. gap \in [1 .. g -> Bytes]
  BY <1>3
<1>5. gap \in Seq(Bytes) /\ Len(gap) = g /\ \A k \in 1 .. g : gap[k] = data[Len(old) + k]
  <2> HIDE DEF g
  <2>1. \A k \in 1 .. g : gap[k] = data[Len(old) + k]
    BY SMT
  <2> HIDE DEF gap
  <2> QED
    BY <1>2, <1>4, <2>1, SMT
<1>6. /\ new \in Seq(Bytes) /\ Len(new) = Len(data)
      /\ \A k \in 1 .. Len(data) : new[k] = IF k - from \in 1 .. Len(buf) THEN buf[k - from] ELSE data[k]
  <2>1. \A i \in DOMAIN data : (IF i - from \in DOMAIN buf THEN buf[i - from] ELSE data[i]) \in Bytes
    BY <1>1, SMT
  <2>2. DOMAIN data = 1 .. Len(data) /\ DOMAIN buf = 1 .. Len(buf) /\ Len(data) \in Nat
    BY <1>1, SMT
  <2>3. new \in [1 .. Len(data) -> Bytes]
    BY <2>1, <2>2 DEF Overwritten
  <2> QED
    BY <2>2, <2>3, SMT DEF Overwritten
<1> HIDE DEF g, gap, new
<1>7. left \in Seq(Bytes) /\ Len(left) = size /\ \A k \in 1 .. size : left[k] = new[k]
  BY <1>1, <1>2, <1>6, SMT
<1>8. head \in Seq(Bytes) /\ Len(head) = from /\ \A k \in 1 .. from : head[k] = data[k]
  <2> DEFINE both == old \o gap
  <2>1. /\ both \in Seq(Bytes) /\ Len(both) = Len(old) + g
        /\ \A k \in 1 .. Len(old) + g : both[k] = IF k <= Len(old) THEN old[k] ELSE gap[k - Len(old)]
    <3>1. /\ old \o gap \in Seq(Bytes) /\ Len(old \o gap) = Len(old) + Len(gap)
          /\ \A k \in 1 .. Len(old) + Len(gap) : (old \o gap)[k] = IF k <= Len(old) THEN old[k] ELSE gap[k - Len(old)]
      BY <1>1, <1>5, Joined
    <3> QED
      BY <1>5, <3>1
  <2>2. \A k \in 1 .. from : both[k] = data[k]
    BY <1>1, <1>2, <1>5, <2>1, SMT
  <2> HIDE DEF both
  <2>3. SubSeq(both, 1, from) \in Seq(Bytes) /\ Len(SubSeq(both, 1, from)) = from
        /\ \A k \in 1 .. from : SubSeq(both, 1, from)[k] = both[k]
    BY <1>1, <1>2, <2>1, SMT
  <2> QED
    BY <2>2, <2>3 DEF both
<1>9. /\ tail \in Seq(Bytes) /\ Len(tail) = size - end
      /\ \A k \in 1 .. size - end : tail[k] = data[end + k]
  BY <1>1, <1>2, SMT
<1> HIDE DEF left, head, tail
<1> DEFINE right == head \o buf \o tail
<1>10. /\ right \in Seq(Bytes) /\ Len(right) = size
      /\ \A k \in 1 .. size : right[k] = IF k - from \in 1 .. Len(buf) THEN buf[k - from] ELSE data[k]
  <2> DEFINE front == head \o buf
  <2>1. /\ front \in Seq(Bytes) /\ Len(front) = end
        /\ \A k \in 1 .. end : front[k] = IF k <= from THEN head[k] ELSE buf[k - from]
    BY <1>1, <1>2, <1>8, SMT
  <2> HIDE DEF front
  <2>2. /\ front \o tail \in Seq(Bytes) /\ Len(front \o tail) = size
        /\ \A k \in 1 .. size : (front \o tail)[k] = IF k <= end THEN front[k] ELSE tail[k - end]
    <3>1. tail \in Seq(Bytes) /\ front \in Seq(Bytes) /\ Len(front) = end /\ Len(tail) = size - end
      BY <1>9, <2>1, SMT
    <3>2. /\ front \o tail \in Seq(Bytes) /\ Len(front \o tail) = Len(front) + Len(tail)
          /\ \A k \in 1 .. Len(front) + Len(tail) :
               (front \o tail)[k] = IF k <= Len(front) THEN front[k] ELSE tail[k - Len(front)]
      BY <3>1, Joined
    <3>3. Len(front) + Len(tail) = size
      BY <1>2, <3>1, SMT
    <3> QED
      BY <3>1, <3>2, <3>3
  <2>3. \A k \in 1 .. size : (IF k <= end THEN front[k] ELSE tail[k - end])
          = IF k - from \in 1 .. Len(buf) THEN buf[k - from] ELSE data[k]
    <3> SUFFICES ASSUME NEW k \in 1 .. size
                 PROVE  (IF k <= end THEN front[k] ELSE tail[k - end])
                        = IF k - from \in 1 .. Len(buf) THEN buf[k - from] ELSE data[k]
      BY SMT
    <3>1. CASE k <= from
      BY <1>1, <1>2, <1>8, <2>1, <3>1, SMT
    <3>2. CASE from < k /\ k <= end
      BY <1>1, <1>2, <2>1, <3>2, SMT
    <3>3. CASE end < k
      <4>1. k - end \in 1 .. size - end /\ end + (k - end) = k
        BY <1>2, <3>3, SMT
      <4>2. tail[k - end] = data[k]
        BY <1>9, <4>1, SMT
      <4> QED
        BY <1>1, <1>2, <3>3, <4>2, SMT
    <3> QED
      BY <1>1, <1>2, <3>1, <3>2, <3>3, SMT
  <2> QED
    BY <2>2, <2>3 DEF front
<1> HIDE DEF right
<1>11. \A k \in 1 .. size : left[k] = right[k]
  BY <1>1, <1>2, <1>6, <1>7, <1>10, SMT
<1>12. left = right
  BY <1>7, <1>10, <1>11, SameBytes
<1> QED
  BY <1>4, <1>12 DEF left, right, head, tail, new, g, Leaves

-----------------------------------------------------------------------------
(* The calls on a descriptor.                                              *)

TreeNode == [dir : BOOLEAN, data : Seq(Bytes)]

OpenFile == [path : Seq(Names), offset : 0 .. MaxSize, read : BOOLEAN, write : BOOLEAN]

\* A table with one entry changed.
LEMMA Changed ==
    ASSUME NEW f, NEW x \in DOMAIN f, f = [z \in DOMAIN f |-> f[z]], NEW y
    PROVE  V!With(f, x, y) = [f EXCEPT ![x] = y]
<1>1. DOMAIN f \cup {x} = DOMAIN f
  OBVIOUS
<1>2. V!With(f, x, y) = [z \in DOMAIN f |-> IF z = x THEN y ELSE f[z]]
  BY <1>1 DEF V!With
<1> QED
  BY <1>2

\* A file with other contents.
LEMMA NodeWith ==
    ASSUME NEW r \in TreeNode, NEW data \in Seq(Bytes)
    PROVE  [r EXCEPT !.data = data] = [dir |-> r.dir, data |-> data]
<1> DEFINE a == [r EXCEPT !.data = data]
           b == [dir |-> r.dir, data |-> data]
<1>1. a \in TreeNode /\ a.dir = r.dir /\ a.data = data
  BY DEF TreeNode
<1>2. b \in TreeNode /\ b.dir = r.dir /\ b.data = data
  BY DEF TreeNode
<1> HIDE DEF a, b
<1> QED
  BY <1>1, <1>2 DEF TreeNode, a, b

\* A descriptor at another offset.
LEMMA HandleWith ==
    ASSUME NEW r \in OpenFile, NEW o \in 0 .. MaxSize
    PROVE  [r EXCEPT !.offset = o] = [path |-> r.path, offset |-> o, read |-> r.read, write |-> r.write]
<1> DEFINE a == [r EXCEPT !.offset = o]
           b == [path |-> r.path, offset |-> o, read |-> r.read, write |-> r.write]
<1>1. a \in OpenFile /\ a.path = r.path /\ a.offset = o /\ a.read = r.read /\ a.write = r.write
  BY DEF OpenFile
<1>2. b \in OpenFile /\ b.path = r.path /\ b.offset = o /\ b.read = r.read /\ b.write = r.write
  BY DEF OpenFile
<1> HIDE DEF a, b
<1> QED
  BY <1>1, <1>2 DEF OpenFile, a, b

\* get_fd's index.
EntryOf(fd) == fd - kFdOffset

\* What an open descriptor stands for.
LEMMA OpenFacts ==
    ASSUME TablesWellFormed, NEW fd \in Descriptors, IsOpen(fd)
    PROVE  LET d == EntryOf(fd)
               i == fds[d].inode
           IN /\ d \in Fds /\ fds[d] \in Descriptor /\ fds[d].used
              /\ i \in Inodes /\ inodes[i] \in Inode /\ Fits(inodes[i]) /\ inodes[i].used
              /\ fd \in DOMAIN openOf /\ openOf[fd] \in OpenFile
              /\ openOf[fd].path = inodes[i].name /\ openOf[fd].offset = fds[d].offset
              /\ openOf[fd].read = fds[d].read /\ openOf[fd].write = fds[d].write
              /\ inodes[i].name \in DOMAIN treeOf /\ treeOf[inodes[i].name] = Node(inodes[i])
<1> DEFINE d == EntryOf(fd)
           i == fds[d].inode
<1>1. d = fd - kFdOffset
  BY DEF EntryOf
<1> HIDE DEF d
<1>2. d \in Fds /\ fds[d] \in Descriptor /\ fds[d].used
  BY <1>1, TablesNow DEF IsOpen
<1>3. i \in Inodes
  BY <1>2 DEF Descriptor
<1>4. inodes[i] \in Inode /\ Fits(inodes[i]) /\ inodes[i].used
  BY <1>2, <1>3, TablesNow DEF HandlesValid
<1>5. fd \in DOMAIN openOf /\ openOf[fd] = Handle(inodes, fds[d])
  BY <1>1, LookupOpen
<1>6. /\ Handle(inodes, fds[d]) \in OpenFile
      /\ Handle(inodes, fds[d]).path = inodes[i].name /\ Handle(inodes, fds[d]).offset = fds[d].offset
      /\ Handle(inodes, fds[d]).read = fds[d].read /\ Handle(inodes, fds[d]).write = fds[d].write
  BY <1>2, <1>4 DEF Handle, OpenFile, Descriptor, Inode
<1>7. Shows(treeOf, inodes)
  BY TablesNow, TreeShown DEF Tree
<1>8. inodes[i].name \in DOMAIN treeOf /\ treeOf[inodes[i].name] = Node(inodes[i])
  <2>1. inodes[i].name \in NamesIn(inodes)
    BY <1>3, <1>4 DEF NamesIn
  <2> QED
    BY <1>3, <1>4, <1>7, <2>1 DEF Shows
<1> QED
  BY <1>2, <1>3, <1>4, <1>5, <1>6, <1>8 DEF d

\* A descriptor moves.
LEMMA MovedAsPromised ==
    ASSUME TablesWellFormed, Stays, NEW fd \in Descriptors, IsOpen(fd), NEW o \in 0 .. MaxSize,
           fds' = [fds EXCEPT ![fd - kFdOffset].offset = o]
    PROVE  openOf' = [openOf EXCEPT ![fd].offset = o]
<1> DEFINE d == fd - kFdOffset
           i == fds[d].inode
           r == openOf[fd]
<1>1. /\ d \in Fds /\ fds[d] \in Descriptor /\ fds[d].used
      /\ fd \in DOMAIN openOf /\ r \in OpenFile
      /\ r.path = inodes[i].name /\ r.read = fds[d].read /\ r.write = fds[d].write
  <2>1. d = EntryOf(fd)
    BY DEF EntryOf
  <2> QED
    BY <2>1, OpenFacts
<1>2. d + kFdOffset = fd
  BY RamFsAssumption, SMT DEF Descriptors, kFdOffset
<1>3. fds \in [Fds -> Descriptor]
  BY TablesNow
<1> HIDE DEF d
<1>4. /\ fds'[d].used /\ fds'[d].inode = i /\ fds'[d].offset = o
      /\ fds'[d].read = fds[d].read /\ fds'[d].write = fds[d].write
      /\ \A e \in Fds \ {d} : fds'[e] = fds[e]
  <2>1. fds' = [fds EXCEPT ![d].offset = o]
    BY DEF d
  <2> QED
    BY <1>1, <1>3, <2>1 DEF Descriptor
<1>5. inodes'[i].name = inodes[i].name
  BY <1>1, <1>4 DEF Stays
<1>6. Handle(inodes', fds'[d]) = [r EXCEPT !.offset = o]
  <2>1. Handle(inodes', fds'[d]) = [path |-> r.path, offset |-> o, read |-> r.read, write |-> r.write]
    BY <1>1, <1>4, <1>5 DEF Handle
  <2> HIDE DEF r
  <2> QED
    BY <1>1, <2>1, HandleWith
<1>7. openOf' = V!With(openOf, fd, [r EXCEPT !.offset = o])
  <2>1. openOf' = V!With(openOf, d + kFdOffset, Handle(inodes', fds'[d]))
    BY <1>1, <1>4, OpenWith
  <2> QED
    BY <1>2, <1>6, <2>1
<1>8. openOf = [z \in DOMAIN openOf |-> openOf[z]]
  BY OpenShown, RamFsAssumption DEF ShowsOpen
<1>9. openOf' = [openOf EXCEPT ![fd] = [r EXCEPT !.offset = o]]
  <2> DEFINE y == [r EXCEPT !.offset = o]
  <2>1. openOf' = V!With(openOf, fd, y)
    BY <1>7
  <2> HIDE DEF y
  <2>2. openOf' = [openOf EXCEPT ![fd] = y]
    BY <1>1, <1>8, <2>1, Changed, SMT
  <2> QED
    BY <2>2 DEF y
<1> QED
  BY <1>9

\* read does what Vfs promises.
LEMMA ReadAsPromised ==
    ASSUME TablesWellFormed, TablesWellFormed', Stays, NEW fd \in Descriptors,
           NEW count \in Nat, Read(fd, count)
    PROVE  V!VRead(fd, count)
<1> DEFINE d == fd - kFdOffset
           i == fds[d].inode
           file == inodes[i]
           from == fds[d].offset
           m == IF from >= file.size THEN 0 ELSE Min({count, file.size - from})
           data == treeOf[openOf[fd].path].data
           got == IF openOf[fd].offset >= Len(data) THEN << >>
                  ELSE SubSeq(data, openOf[fd].offset + 1,
                              IF openOf[fd].offset + count < Len(data)
                              THEN openOf[fd].offset + count ELSE Len(data))
<1>1. fd \in DOMAIN openOf <=> IsOpen(fd)
  BY LookupOpen
<1>2. IsOpen(fd) => openOf[fd].read = fds[d].read
  BY OpenFacts DEF EntryOf
<1>3. CASE ~IsOpen(fd) \/ ~fds[d].read
  <2>1. Fails
    BY <1>3 DEF Read
  <2>2. V!NoChange(V!Fail)
    BY <2>1, FailsAsPromised
  <2> QED
    BY <1>1, <1>2, <1>3, <2>2 DEF V!VRead
<1>4. CASE IsOpen(fd) /\ fds[d].read
  <2>1. /\ fds' = [fds EXCEPT ![d].offset = from + m]
        /\ ret' = <<"bytes", SubSeq(file.data, from + 1, from + m)>>
        /\ inodes' = inodes
    BY <1>4 DEF Read, Returns
  <2>2. /\ d \in Fds /\ fds[d] \in Descriptor /\ file \in Inode /\ Fits(file)
        /\ openOf[fd].offset = from /\ treeOf[openOf[fd].path] = Node(file)
    <3>1. d = EntryOf(fd)
      BY DEF EntryOf
    <3> QED
      BY <1>4, <3>1, OpenFacts
  <2>3. /\ from \in Nat /\ from <= MaxSize /\ file.size \in Nat /\ file.size <= MaxSize
        /\ file.data \in Seq(Bytes) /\ file.size <= Len(file.data) /\ count \in Nat
    BY <2>2, RamFsAssumption, SMT DEF Descriptor, Inode, Fits
  <2>4. data = SubSeq(file.data, 1, file.size)
    <3>1. \A x : Node(x).data = SubSeq(x.data, 1, x.size)
      BY DEF Node
    <3> HIDE DEF file
    <3> QED
      BY <2>2, <3>1
  <2>5. m = IF from >= file.size THEN 0 ELSE IF count <= file.size - from THEN count ELSE file.size - from
    <3>1. count \in Int /\ file.size - from \in Int
      BY <2>3, SMT
    <3> QED
      BY <3>1, MinOfTwo
  <2> HIDE DEF data, m, file, from
  <2>6. data \in Seq(Bytes) /\ Len(data) = file.size /\ \A k \in 1 .. file.size : data[k] = file.data[k]
    BY <2>3, <2>4, Prefix
  <2>7. got = SubSeq(file.data, from + 1, from + m) /\ Len(got) = m
    <3>1. got = IF from >= Len(data) THEN << >>
                ELSE SubSeq(data, from + 1, IF from + count < Len(data) THEN from + count ELSE Len(data))
      BY <2>2
    <3> HIDE DEF got
    <3>2. CASE from >= file.size
      BY <2>3, <2>5, <2>6, <3>1, <3>2, SMT
    <3>3. CASE ~(from >= file.size)
      <4> DEFINE last == IF from + count < Len(data) THEN from + count ELSE Len(data)
      <4>1. last = from + m /\ last \in Nat /\ last <= file.size /\ m \in Nat
        <5>1. last = IF from + count < file.size THEN from + count ELSE file.size
          BY <2>6
        <5> HIDE DEF last
        <5>2. from \in Nat /\ file.size \in Nat /\ count \in Nat
          BY <2>3
        <5> QED
          BY <2>5, <3>3, <5>1, <5>2, SMT
      <4> HIDE DEF last
      <4> DEFINE a == SubSeq(data, from + 1, last)
                 b == SubSeq(file.data, from + 1, last)
      <4>2. a \in Seq(Bytes) /\ Len(a) = m /\ \A k \in 1 .. m : a[k] = data[from + k]
        BY <2>3, <2>6, <3>3, <4>1, SMT
      <4>3. b \in Seq(Bytes) /\ Len(b) = m /\ \A k \in 1 .. m : b[k] = file.data[from + k]
        BY <2>3, <3>3, <4>1, SMT
      <4>4. \A k \in 1 .. m : data[from + k] = file.data[from + k]
        BY <2>3, <2>6, <3>3, <4>1, SMT
      <4> HIDE DEF a, b
      <4>5. a = b
        BY <4>2, <4>3, <4>4, SameBytes
      <4>6. got = SubSeq(data, from + 1, last)
        BY <2>6, <3>1, <3>3 DEF last
      <4> QED
        BY <4>1, <4>2, <4>5, <4>6 DEF a, b
    <3> QED
      BY <3>2, <3>3
  <2>8. from + m \in 0 .. MaxSize
    BY <2>3, <2>5, RamFsAssumption, SMT
  <2>9. Stays
    OBVIOUS
  <2>10. openOf' = [openOf EXCEPT ![fd].offset = from + m]
    BY <1>4, <2>1, <2>8, <2>9, MovedAsPromised
  <2>11. treeOf' = treeOf
    BY <2>1, TreeStays
  <2> HIDE DEF got
  <2>12. ret' = <<"bytes", got>> /\ openOf' = [openOf EXCEPT ![fd].offset = openOf[fd].offset + Len(got)]
    BY <2>1, <2>2, <2>7, <2>10
  <2> QED
    BY <1>1, <1>2, <1>4, <2>11, <2>12 DEF V!VRead, V!Returns, got, data
<1> QED
  BY <1>3, <1>4

\* write does what Vfs promises.
LEMMA WriteAsPromised ==
    ASSUME TablesWellFormed, TablesWellFormed', Stays, NEW fd \in Descriptors,
           NEW buf \in Buffers, Write(fd, buf)
    PROVE  V!VWrite(fd, buf)
<1> DEFINE d == fd - kFdOffset
           i == fds[d].inode
           file == inodes[i]
           from == fds[d].offset
           end == from + Len(buf)
           old == treeOf[openOf[fd].path].data
           Left(gap) == SubSeq(old \o gap, 1, from) \o buf \o SubSeq(old, end + 1, Len(old))
<1>1. fd \in DOMAIN openOf <=> IsOpen(fd)
  BY LookupOpen
<1>2. IsOpen(fd) => openOf[fd].write = fds[d].write
  BY OpenFacts DEF EntryOf
<1>3. CASE ~IsOpen(fd) \/ ~fds[d].write
  <2>1. Fails
    BY <1>3 DEF Write
  <2>2. V!NoChange(V!Fail)
    BY <2>1, FailsAsPromised
  <2> QED
    BY <1>1, <1>2, <1>3, <2>2 DEF V!VWrite
<1>4. CASE IsOpen(fd) /\ fds[d].write
  <2>1. /\ d \in Fds /\ fds[d] \in Descriptor /\ fds[d].used
        /\ i \in Inodes /\ file \in Inode /\ Fits(file) /\ file.used
        /\ openOf[fd].offset = from /\ openOf[fd].path = file.name
        /\ file.name \in DOMAIN treeOf /\ treeOf[file.name] = Node(file)
    <3>1. d = EntryOf(fd)
      BY DEF EntryOf
    <3> QED
      BY <1>4, <3>1, OpenFacts
  <2>2. /\ from \in Nat /\ from <= MaxSize /\ file.size \in Nat /\ file.size <= MaxSize
        /\ file.data \in Seq(Bytes) /\ file.size <= Len(file.data)
        /\ buf \in Seq(Bytes) /\ Len(buf) \in Nat /\ end \in Nat
    BY <2>1, BufferType, RamFsAssumption, SMT DEF Descriptor, Inode, Fits
  <2>3. old = SubSeq(file.data, 1, file.size)
    <3>1. \A x : Node(x).data = SubSeq(x.data, 1, x.size)
      BY DEF Node
    <3> HIDE DEF file
    <3> QED
      BY <2>1, <3>1
  <2>4. old \in Seq(Bytes) /\ Len(old) = file.size /\ \A k \in 1 .. file.size : old[k] = file.data[k]
    <3> HIDE DEF file, old
    <3> QED
      BY <2>2, <2>3, Prefix
  <2>5. CASE end > Len(file.data) /\ Fails
    <3>1. openOf[fd].offset + Len(buf) > Len(old)
      <4> HIDE DEF old, file, from
      <4> QED
        BY <2>1, <2>2, <2>4, <2>5, SMT
    <3>2. V!NoChange(V!Fail)
      BY <2>5, FailsAsPromised
    <3> QED
      BY <1>1, <1>2, <1>4, <3>1, <3>2 DEF V!VWrite
  <2>6. CASE ~(end > Len(file.data) /\ Fails)
    <3>1. end <= MaxSize /\ fds' = [fds EXCEPT ![d].offset = end] /\ ret' = V!Number(Len(buf))
      BY <1>4, <2>6 DEF Write, Returns, Number, V!Number
    <3>2. PICK data \in Grown(file, end) :
            inodes' = [inodes EXCEPT ![i].data = Overwritten(data, from, buf),
                                     ![i].size = SizeAfter(file, end)]
      BY <1>4, <2>6 DEF Write
    <3> DEFINE new == Overwritten(data, from, buf)
               size == SizeAfter(file, end)
               left == SubSeq(new, 1, size)
    <3>3. /\ data \in Seq(Bytes) /\ Len(data) >= end /\ Len(data) >= file.size
          /\ \A k \in 1 .. file.size : data[k] = file.data[k]
      <4> HIDE DEF end, file
      <4> QED
        BY <2>1, <2>2, GrownHolds DEF Fits
    <3>4. Overwrites(data, old, from, buf, end, size)
      <4> HIDE DEF old, file, from
      <4>1. size = IF end > Len(old) THEN end ELSE Len(old)
        BY <2>4 DEF SizeAfter
      <4> HIDE DEF size
      <4>2. Len(data) >= size
        BY <2>2, <2>4, <3>3, <4>1
      <4>3. \A k \in 1 .. Len(old) : data[k] = old[k]
        BY <2>4, <3>3
      <4> QED
        BY <2>2, <2>4, <3>3, <4>1, <4>2, <4>3 DEF Overwrites
    <3>5. PICK gap \in [1 .. (IF from > Len(old) THEN from - Len(old) ELSE 0) -> Bytes] : left = Left(gap)
      <4> HIDE DEF old, from, size, end
      <4>1. Leaves(left, old, from, buf, end)
        BY <3>4, WrittenBytes
      <4> QED
        BY <4>1 DEF Leaves
    <3>6. TablesWellFormed' /\ Stays
      OBVIOUS
    <3>7. /\ inodes'[i].data = new /\ inodes'[i].size = size
          /\ inodes'[i].used = file.used /\ inodes'[i].name = file.name /\ inodes'[i].dir = file.dir
          /\ \A k \in Inodes \ {i} : inodes'[k] = inodes[k]
      <4> HIDE DEF new, size
      <4>1. inodes' = [inodes EXCEPT ![i].data = new, ![i].size = size]
        BY <3>2 DEF new, size
      <4> QED
        BY <2>1, <4>1, TablesNow DEF Inode
    <3>8. treeOf' = V!With(treeOf, file.name, [dir |-> file.dir, data |-> left])
      <4> HIDE DEF new, size, i, file
      <4>1. Unique(inodes) /\ Unique(inodes')
        BY <3>6, TablesNow, TreeWellFormedNext DEF Tree, TablesWellFormed
      <4>2. Node(inodes'[i]) = [dir |-> file.dir, data |-> left]
        BY <3>7 DEF Node
      <4>3. inodes[i].name = inodes'[i].name /\ inodes'[i].used
        BY <2>1, <3>7 DEF file
      <4>4. treeOf' = V!With(treeOf, inodes'[i].name, Node(inodes'[i]))
        BY <2>1, <3>7, <4>1, <4>3, TreeWith
      <4> QED
        BY <3>7, <4>2, <4>4
    <3>9. treeOf' = [treeOf EXCEPT ![file.name] = [treeOf[file.name] EXCEPT !.data = left]]
      <4> HIDE DEF file
      <4>1. left \in Seq(Bytes)
        <5> HIDE DEF old, end, size
        <5>1. new \in Seq(Bytes) /\ Len(new) = Len(data) /\ size \in Nat /\ Len(data) >= size
          BY <2>2, <3>3, <3>4, OverwrittenType, SMT DEF Overwrites
        <5> HIDE DEF new
        <5> QED
          BY <5>1, SMT
      <4>2. treeOf[file.name] \in TreeNode /\ treeOf[file.name].dir = file.dir
        BY <2>1, <2>2, SMT DEF Node, TreeNode, Inode
      <4>3. treeOf = [z \in DOMAIN treeOf |-> treeOf[z]]
        BY TablesNow, TreeShown DEF Shows, Tree
      <4> HIDE DEF left
      <4> DEFINE y == [treeOf[file.name] EXCEPT !.data = left]
      <4>4. y = [dir |-> file.dir, data |-> left]
        BY <4>1, <4>2, NodeWith
      <4>5. treeOf' = V!With(treeOf, file.name, y)
        BY <3>8, <4>4
      <4> HIDE DEF y
      <4>6. treeOf' = [treeOf EXCEPT ![file.name] = y]
        BY <2>1, <4>3, <4>5, Changed, SMT
      <4> QED
        BY <4>6 DEF y
    <3>10. openOf' = [openOf EXCEPT ![fd].offset = end]
      <4>1. end \in 0 .. MaxSize
        BY <2>2, <3>1, RamFsAssumption, SMT
      <4> HIDE DEF end
      <4> QED
        BY <1>4, <3>1, <3>6, <4>1, MovedAsPromised
    <3>11. treeOf' = [treeOf EXCEPT ![openOf[fd].path].data = Left(gap)]
      <4> HIDE DEF left, Left, file
      <4>1. treeOf' = [treeOf EXCEPT ![file.name].data = left]
        BY <3>9
      <4> QED
        BY <2>1, <3>5, <4>1
    <3> HIDE DEF old
    <3> QED
      BY <1>1, <1>2, <1>4, <2>1, <3>1, <3>10, <3>11 DEF V!VWrite, V!Returns, old
  <2> QED
    BY <2>5, <2>6
<1> QED
  BY <1>3, <1>4

\* Something below p is an entry of p, or lies in something below p.
LEMMA BelowParent ==
    ASSUME NEW p \in Seq(Names), NEW q \in Seq(Names), Below(p, q), Parent(q) # p
    PROVE  q # Root /\ Below(p, Parent(q)) /\ Len(Parent(q)) < Len(q)
<1> DEFINE r == Parent(q)
<1>1. Len(p) \in Nat /\ Len(q) \in Nat /\ Len(p) < Len(q) /\ SubSeq(q, 1, Len(p)) = p
  BY SMT DEF Below
<1>2. r \in Seq(Names) /\ Len(r) = Len(q) - 1 /\ \A k \in 1 .. Len(q) - 1 : r[k] = q[k]
  BY <1>1, SMT DEF Parent
<1>3. Len(r) # Len(p)
  BY <1>1, <1>2 DEF Parent
<1>4. Len(p) < Len(r)
  BY <1>1, <1>2, <1>3, SMT
<1> HIDE DEF r
<1>5. SubSeq(r, 1, Len(p)) = SubSeq(q, 1, Len(p))
  BY <1>1, <1>2, <1>4, SMT
<1> QED
  BY <1>1, <1>2, <1>4, <1>5, SMT DEF Below, Root, r

\* Vfs counts as RamFs does.
LEMMA CountsAlike ==
    ASSUME NEW S
    PROVE  V!Cardinality(S) = Cardinality(S)
  BY DEF V!Cardinality, Cardinality

\* A call with a path that normalize_path refuses fails, as Vfs promises.
LEMMA BadPathAsPromised ==
    ASSUME TablesWellFormed, NEW raw, NormalizePath(raw) = NoPath,
           \/ \E fl : Open(raw, fl)
           \/ Md(raw) \/ Rd(raw) \/ Unlink(raw)
           \/ \E room : Readdir(raw, room)
    PROVE  V!VBadPath
<1>1. Fails
  BY DEF Open, Md, Rd, Unlink, Readdir
<1> QED
  BY <1>1, FailsAsPromised DEF V!VBadPath

\* A call with a descriptor keeps the tables well formed and does what Vfs promises.
LEMMA FdCallKept ==
    ASSUME TablesWellFormed, kept = TRUE, NEW fd \in Descriptors, workload.longest \in Nat,
           FdCalls(fd)
    PROVE  TablesWellFormed' /\ kept' = TRUE
<1>1. ASSUME NEW n \in 0 .. workload.longest, Read(fd, n), kept' = (kept /\ V!VRead(fd, n))
      PROVE  TablesWellFormed' /\ kept' = TRUE
  <2>1. n \in Nat
    BY SMT
  <2>2. TablesWellFormed' /\ Stays
    BY <1>1, <2>1, ReadStep
  <2>3. V!VRead(fd, n)
    BY <1>1, <2>1, <2>2, ReadAsPromised
  <2> QED
    BY <1>1, <2>2, <2>3
<1>2. ASSUME NEW buf \in Buffers, Write(fd, buf), kept' = (kept /\ V!VWrite(fd, buf))
      PROVE  TablesWellFormed' /\ kept' = TRUE
  <2>1. TablesWellFormed' /\ Stays
    BY <1>2, WriteStep
  <2>2. V!VWrite(fd, buf)
    BY <1>2, <2>1, WriteAsPromised
  <2> QED
    BY <1>2, <2>1, <2>2
<1>3. ASSUME Close(fd), kept' = (kept /\ V!VClose(fd))
      PROVE  TablesWellFormed' /\ kept' = TRUE
  <2>1. TablesWellFormed' /\ Stays
    BY <1>3, CloseStep
  <2>2. V!VClose(fd)
    BY <1>3, <2>1, CloseAsPromised
  <2> QED
    BY <1>3, <2>1, <2>2
<1> QED
  BY <1>1, <1>2, <1>3 DEF FdCalls
=============================================================================
