---------------------------- MODULE RamFsProofs ----------------------------
(***************************************************************************)
(* Proofs about RamFs: for any size of its two tables, any set of paths    *)
(* and any order of calls, the inodes form a tree, descriptors name files  *)
(* that exist, what a descriptor is open on does not change, and each call *)
(* does what Vfs promises.                                                 *)
(***************************************************************************)
EXTENDS RamFsCallsProofs, FiniteSetTheorems, WellFoundedInduction

\* Zenon proves most leaves; the others name SMT.
USE Zenon

\* The scans for a free inode, a free descriptor or a name stop at the first
\* match: they return one, and none before it matches.
LEMMA FirstIsLeast ==
    ASSUME NEW S \in SUBSET Nat, S # {}
    PROVE  First(S) \in S /\ \A j \in S : First(S) <= j
<1> DEFINE R == OpToRel(<, Nat)
<1>1. \A x, y \in Nat : y < x => <<y, x>> \in R
  BY DEF OpToRel
<1>2. IsWellFoundedOn(R, Nat)
  BY NatLessThanWellFounded
<1> HIDE DEF R
<1>3. PICK x \in S : \A y \in S : ~(<<y, x>> \in R)
  BY <1>2, WFMin
<1>4. \A y \in S : x <= y
  <2> SUFFICES ASSUME NEW y \in S PROVE x <= y
    OBVIOUS
  <2>1. ~(y < x)
    BY <1>1, <1>3
  <2> QED
    BY <2>1, SMT
<1> QED
  BY <1>4 DEF First

-----------------------------------------------------------------------------
(* Paths.                                                                  *)

\* The characters of a path, each name's with the slash before it.
Characters(p) == UNION {{i} \X (0 .. NameLen[p[i]]) : i \in DOMAIN p}

\* strlen of a path ends.
LEMMA CharactersFinite ==
    ASSUME NEW p \in Seq(Names)
    PROVE  IsFiniteSet(Characters(p)) /\ Cardinality(Characters(p)) \in Nat
<1> DEFINE chars == [i \in DOMAIN p |-> {i} \X (0 .. NameLen[p[i]])]
           all == {{i} \X (0 .. NameLen[p[i]]) : i \in DOMAIN p}
<1>1. DOMAIN p = 1 .. Len(p) /\ IsFiniteSet(DOMAIN p)
  BY FS_Interval, SMT
<1>2. chars \in Surjection(DOMAIN p, all)
  BY DEF Surjection
<1>3. IsFiniteSet(all)
  BY <1>1, <1>2, FS_Surjection
<1>4. ASSUME NEW T \in all PROVE IsFiniteSet(T)
  <2>1. PICK i \in DOMAIN p : T = {i} \X (0 .. NameLen[p[i]])
    OBVIOUS
  <2>2. 0 \in Int /\ NameLen[p[i]] \in Int
    BY RamFsAssumption, SMT
  <2>3. IsFiniteSet(0 .. NameLen[p[i]])
    BY <2>2, FS_Interval
  <2>4. IsFiniteSet({i})
    BY FS_Singleton
  <2> QED
    BY <2>1, <2>3, <2>4, FS_Product
<1>5. IsFiniteSet(UNION all)
  BY <1>3, <1>4, FS_UNION
<1>6. Cardinality(UNION all) \in Nat
  BY <1>5, FS_CardinalityType
<1> QED
  BY <1>5, <1>6 DEF Characters

\* A normalised path has a length, a natural number.
LEMMA PathLenType ==
    ASSUME NEW p \in Seq(Names)
    PROVE  PathLen(p) \in Nat
  BY CharactersFinite DEF PathLen, Characters

\* A path is longer than that of the directory it lies in, by a slash at
\* least: when something in a directory has a path that fits in a buffer, so
\* has the directory with a slash after it, as readdir and rd write it.
LEMMA ParentIsShorter ==
    ASSUME NEW p \in Seq(Names), p # Root, Parent(p) # Root
    PROVE  PathLen(Parent(p)) + 1 <= PathLen(p)
<1> DEFINE q == Parent(p)
           last == <<Len(p), 0>>
<1>1. Len(p) \in Nat \ {0} /\ DOMAIN p = 1 .. Len(p)
  BY SMT DEF Root
<1>2. q \in Seq(Names) /\ DOMAIN q = 1 .. Len(p) - 1 /\ \A i \in 1 .. Len(p) - 1 : q[i] = p[i]
  BY <1>1, SMT DEF Parent
<1> HIDE DEF q
<1>3. last \in Characters(p)
  <2>1. Len(p) \in DOMAIN p /\ 0 \in 0 .. NameLen[p[Len(p)]]
    BY <1>1, RamFsAssumption, SMT
  <2>2. last \in {Len(p)} \X (0 .. NameLen[p[Len(p)]])
    BY <2>1
  <2> QED
    BY <2>1, <2>2 DEF Characters
<1>4. Characters(q) \in SUBSET (Characters(p) \ {last})
  <2> SUFFICES ASSUME NEW c \in Characters(q) PROVE c \in Characters(p) /\ c # last
    OBVIOUS
  <2>1. PICK i \in DOMAIN q : c \in {i} \X (0 .. NameLen[q[i]])
    BY DEF Characters
  <2>2. i \in DOMAIN p /\ q[i] = p[i] /\ i # Len(p)
    BY <1>1, <1>2, SMT
  <2>3. c \in Characters(p)
    BY <2>1, <2>2 DEF Characters
  <2>4. c # last
    BY <2>1, <2>2, SMT
  <2> QED
    BY <2>3, <2>4
<1>5. IsFiniteSet(Characters(p)) /\ Cardinality(Characters(p)) \in Nat
  BY CharactersFinite
<1>6. /\ IsFiniteSet(Characters(p) \ {last})
      /\ Cardinality(Characters(p) \ {last}) = Cardinality(Characters(p)) - 1
  BY <1>3, <1>5, FS_RemoveElement
<1>7. Cardinality(Characters(q)) <= Cardinality(Characters(p) \ {last})
  BY <1>4, <1>6, FS_Subset
<1>8. Cardinality(Characters(q)) \in Nat
  BY <1>2, CharactersFinite
<1>9. PathLen(p) = Cardinality(Characters(p)) /\ PathLen(Parent(p)) = Cardinality(Characters(Parent(p)))
  BY DEF PathLen, Characters
<1> QED
  BY <1>5, <1>6, <1>7, <1>8, <1>9, SMT DEF q

\* normalize_path's loop: a path of the caller's without its empty names is a
\* path.
LEMMA WithoutEmptyType ==
    ASSUME NEW raw \in Seq(Names)
    PROVE  WithoutEmpty(raw) \in Seq(Names)
<1>1. ASSUME NEW i \in 0 .. Len(raw) PROVE Kept(raw, i) \in Nat
  <2>1. IsFiniteSet(1 .. i)
    BY FS_Interval, SMT
  <2>2. {j \in 1 .. i : raw[j] # Empty} \in SUBSET (1 .. i)
    OBVIOUS
  <2> QED
    BY <2>1, <2>2, FS_Subset, FS_CardinalityType DEF Kept
<1>2. ASSUME NEW n \in 1 .. Kept(raw, Len(raw))
      PROVE  raw[First({i \in DOMAIN raw : Kept(raw, i) >= n})] \in Names
  <2> DEFINE S == {i \in DOMAIN raw : Kept(raw, i) >= n}
  <2>1. Len(raw) # 0
    <3>1. {j \in 1 .. 0 : raw[j] # Empty} = {}
      BY SMT
    <3>2. Kept(raw, 0) = 0
      BY <3>1, FS_EmptySet DEF Kept
    <3> QED
      BY <3>2, SMT
  <2>2. Len(raw) \in S
    BY <1>1, <2>1, SMT
  <2>3. S \in SUBSET Nat
    BY SMT
  <2>4. First(S) \in S
    BY <2>2, <2>3, FirstIsLeast
  <2> QED
    BY <2>4, SMT
<1>3. Kept(raw, Len(raw)) \in Nat
  BY <1>1, SMT
<1>4. WithoutEmpty(raw) \in [1 .. Kept(raw, Len(raw)) -> Names]
  BY <1>2 DEF WithoutEmpty
<1> QED
  BY <1>3, <1>4, SMT

\* normalize_path gives a path that fits its buffer, or fails.
LEMMA NormalizedFits ==
    ASSUME NEW raw \in RawPaths, NormalizePath(raw) # NoPath
    PROVE  /\ NormalizePath(raw) \in Seq(Names)
           /\ PathLen(NormalizePath(raw)) < PathSize
<1>1. WithoutEmpty(raw) \in Seq(Names)
  BY WithoutEmptyType, RamFsAssumption
<1>2. PathLen(WithoutEmpty(raw)) \in Nat
  BY <1>1, PathLenType
<1> QED
  BY <1>1, <1>2, RamFsAssumption, SMT DEF NormalizePath

-----------------------------------------------------------------------------
(* Scans and counting.                                                     *)

\* How many entries a table has.
LEMMA TableSize ==
    ASSUME NEW n \in Nat
    PROVE  IsFiniteSet(0 .. n - 1) /\ Cardinality(0 .. n - 1) = n
<1>1. 0 \in Int /\ n - 1 \in Int
  BY SMT
<1> DEFINE c == Cardinality(0 .. n - 1)
<1>2. IsFiniteSet(0 .. n - 1) /\ c = IF 0 > n - 1 THEN 0 ELSE n - 1 - 0 + 1
  BY <1>1, FS_Interval
<1> HIDE DEF c
<1>3. c = n
  BY <1>2, SMT
<1> QED
  BY <1>2, <1>3 DEF c

\* Two sets whose elements can be paired have the same size.
LEMMA SameSize ==
    ASSUME NEW S, NEW T, IsFiniteSet(S), NEW f \in [S -> T],
           \A a, b \in S : f[a] = f[b] => a = b, \A y \in T : \E x \in S : f[x] = y
    PROVE  IsFiniteSet(T) /\ Cardinality(T) = Cardinality(S)
<1>1. IsInjective(f)
  BY DEF IsInjective
<1>2. f \in Bijection(S, T)
  BY <1>1 DEF Bijection, Injection, Surjection
<1> QED
  BY <1>2, FS_Bijection DEF ExistsBijection

\* A bounded set of indices has a last one.
LEMMA LastOf ==
    ASSUME NEW n \in Nat, NEW T \in SUBSET (0 .. n - 1), T # {}
    PROVE  \E m \in T : \A j \in T : j <= m
<1> DEFINE above == {k \in Nat : \A j \in T : j <= k}
           m == First(above)
<1>1. n \in above
  BY SMT
<1>2. m \in above /\ \A k \in above : m <= k
  BY <1>1, FirstIsLeast
<1>3. m \in Nat /\ \A j \in T : j <= m
  BY <1>2
<1> HIDE DEF m
<1>4. m \in T
  <2> SUFFICES ASSUME m \notin T PROVE FALSE
    OBVIOUS
  <2>0. \A j \in T : j \in Nat /\ j < m
    BY <1>3, SMT
  <2>1. m - 1 \in Nat /\ \A j \in T : j <= m - 1
    <3>1. PICK j \in T : TRUE
      OBVIOUS
    <3>2. j \in Nat /\ j < m
      BY <2>0
    <3>3. m - 1 \in Nat
      BY <1>3, <3>2, SMT
    <3>4. \A k \in T : k <= m - 1
      BY <1>3, <2>0, SMT
    <3> QED
      BY <3>3, <3>4
  <2>2. m - 1 \in above
    BY <2>1
  <2>3. m <= m - 1
    BY <1>2, <2>2
  <2> QED
    BY <1>3, <2>3, SMT
<1> QED
  BY <1>3, <1>4

Before(L, i) == {j \in L : j < i}

FirstFew(L, room) == {i \in L : Cardinality(Before(L, i)) < room}

\* readdir's scan: it stops when the array is full, so it lists all that there
\* is or as much as there is room for.
LEMMA ScanFills ==
    ASSUME NEW n \in Nat, NEW L \in SUBSET (0 .. n - 1), NEW room \in Nat
    PROVE  /\ Cardinality(L) < room => Cardinality(FirstFew(L, room)) = Cardinality(L)
           /\ ~(Cardinality(L) < room) => Cardinality(FirstFew(L, room)) = room
<1> DEFINE shown == FirstFew(L, room)
<1>1. IsFiniteSet(L)
  <2>1. 0 \in Int /\ n - 1 \in Int
    BY SMT
  <2>2. IsFiniteSet(0 .. n - 1)
    BY <2>1, FS_Interval
  <2> QED
    BY <2>2, FS_Subset
<1>2. \A T \in SUBSET L : IsFiniteSet(T) /\ Cardinality(T) \in Nat /\ Cardinality(T) <= Cardinality(L)
  BY <1>1, FS_Subset, FS_CardinalityType
<1>3. \A i \in L : i \in Nat
  BY SMT
<1>4. \A i, j \in L : i <= j => Cardinality(Before(L, i)) <= Cardinality(Before(L, j))
  <2> SUFFICES ASSUME NEW i \in L, NEW j \in L, i <= j
               PROVE  Cardinality(Before(L, i)) <= Cardinality(Before(L, j))
    OBVIOUS
  <2>1. Before(L, i) \in SUBSET Before(L, j)
    <3>1. \A k \in L : k < i => k < j
      BY <1>3, SMT
    <3> QED
      BY <3>1 DEF Before
  <2>2. IsFiniteSet(Before(L, j))
    BY <1>2 DEF Before
  <2> QED
    BY <2>1, <2>2, FS_Subset
<1>5. ASSUME NEW T \in SUBSET L, T # {}, \A i \in T : \A j \in L : j < i => j \in T
      PROVE  \E m \in T : Cardinality(T) = Cardinality(Before(L, m)) + 1
  <2>1. T \in SUBSET (0 .. n - 1)
    OBVIOUS
  <2>2. PICK m \in T : \A j \in T : j <= m
    BY <1>5, <2>1, LastOf
  <2>3. Before(L, m) = T \ {m}
    <3>1. \A k \in T : k # m => k < m
      BY <1>3, <2>2, SMT
    <3>2. \A k \in L : k < m => k \in T /\ k # m
      BY <1>3, <1>5, SMT
    <3> QED
      BY <3>1, <3>2 DEF Before
  <2>4. Cardinality(T \ {m}) = Cardinality(T) - 1 /\ Cardinality(T) \in Nat
    BY <1>2, FS_RemoveElement
  <2>5. Cardinality(T) = Cardinality(Before(L, m)) + 1
    BY <2>3, <2>4, SMT
  <2> QED
    BY <2>5
<1>6. shown \in SUBSET L /\ \A i \in L : i \in shown <=> Cardinality(Before(L, i)) < room
  BY DEF FirstFew
<1> HIDE DEF shown
<1>7. \A i \in L : Cardinality(Before(L, i)) \in Nat
  BY <1>2 DEF Before
<1>8. \A i \in shown : \A j \in L : j < i => j \in shown
  <2> SUFFICES ASSUME NEW i \in shown, NEW j \in L, j < i PROVE j \in shown
    OBVIOUS
  <2>1. i \in L /\ Cardinality(Before(L, i)) < room
    BY <1>6
  <2>2. j <= i
    BY <1>3, <2>1, SMT
  <2>3. Cardinality(Before(L, j)) <= Cardinality(Before(L, i))
    BY <1>4, <2>1, <2>2
  <2>4. Cardinality(Before(L, j)) \in Nat /\ Cardinality(Before(L, i)) \in Nat
    BY <1>7, <2>1
  <2>5. Cardinality(Before(L, j)) < room
    BY <2>1, <2>3, <2>4, SMT
  <2> QED
    BY <1>6, <2>5
<1>9. Cardinality(shown) \in Nat /\ Cardinality(L) \in Nat /\ Cardinality(shown) <= Cardinality(L)
  BY <1>2, <1>6
<1>10. Cardinality(shown) <= room
  <2>1. CASE shown = {}
    <3>1. Cardinality(shown) = 0
      BY <2>1, FS_EmptySet
    <3> QED
      BY <3>1, SMT
  <2>2. CASE shown # {}
    <3>1. PICK m \in shown : Cardinality(shown) = Cardinality(Before(L, m)) + 1
      BY <1>5, <1>6, <1>8, <2>2
    <3>2. Cardinality(Before(L, m)) < room /\ Cardinality(Before(L, m)) \in Nat
      BY <1>6, <1>7
    <3> QED
      BY <3>1, <3>2, SMT
  <2> QED
    BY <2>1, <2>2
<1>11. CASE shown = L
  BY <1>9, <1>10, <1>11, SMT DEF shown
<1>12. CASE shown # L
  <2> DEFINE rest == L \ shown
             m == First(rest)
  <2>1. rest # {} /\ rest \in SUBSET Nat
    BY <1>3, <1>6, <1>12
  <2>2. m \in rest /\ \A j \in rest : m <= j
    BY <2>1, FirstIsLeast
  <2> HIDE DEF m
  <2>3. \A j \in L : j < m => j \in shown
    BY <1>3, <2>2, SMT
  <2>4. \A j \in shown : j < m
    BY <1>3, <1>6, <1>8, <2>2, SMT
  <2>5. Before(L, m) = shown
    BY <1>6, <2>3, <2>4 DEF Before
  <2>6. ~(Cardinality(shown) < room)
    BY <1>6, <2>2, <2>5
  <2> QED
    BY <1>9, <1>10, <2>6, SMT DEF shown
<1> QED
  BY <1>11, <1>12

\* Lengths, sizes and scans are as the calls need them.
LEMMA SizesAreInOrder ==
    SizesInOrder
<1>1. Inodes \ Used \in SUBSET Nat /\ FreeFds \in SUBSET Nat
  BY RamFsAssumption, SMT DEF Inodes, Fds, FreeFds
<1>2. /\ Inodes \ Used # {} => First(Inodes \ Used) \in Inodes \ Used
      /\ FreeFds # {} => First(FreeFds) \in FreeFds
  BY <1>1, FirstIsLeast
<1> QED
  BY <1>2, NormalizedFits DEF SizesInOrder

-----------------------------------------------------------------------------
(* Safety.                                                                 *)

\* Whatever calls are made and however they fail, the inodes of RamFs form a
\* tree with unique paths in which everything lies in a directory, and every
\* open descriptor names a file in use.
THEOREM TablesAlwaysWellFormed ==
    Spec => []TablesWellFormed
<1>1. Init => TablesWellFormed
  BY InitTables
<1>2. TablesWellFormed /\ [Next]_vars => TablesWellFormed'
  BY NextTables, SizesAreInOrder
<1> QED
  BY <1>1, <1>2, PTL DEF Spec

\* What a task has open is, as long as it has it open, the same file: a
\* descriptor is never moved to another inode, and the inode keeps its path.
THEOREM HandlesAlwaysStable ==
    Spec => HandlesStable
<1>1. TablesWellFormed /\ [Next]_vars => Stays
  BY NextTables, SizesAreInOrder
<1>2. Stays => \A d \in Fds : fds[d].used /\ fds'[d].used =>
                 inodes[fds[d].inode].name = inodes'[fds'[d].inode].name
  BY DEF Stays
<1> QED
  BY <1>1, <1>2, TablesAlwaysWellFormed, PTL DEF Spec, HandlesStable

-----------------------------------------------------------------------------
(* What lies in a directory.                                               *)

\* Inodes that are used and their names are equally many.
LEMMA NamesCount ==
    ASSUME TablesWellFormed, NEW S \in SUBSET Used
    PROVE  /\ IsFiniteSet(S)
           /\ Cardinality({inodes[i].name : i \in S}) = Cardinality(S)
<1> DEFINE f == [i \in S |-> inodes[i].name]
           T == {inodes[i].name : i \in S}
<1>1. IsFiniteSet(S)
  <2>1. IsFiniteSet(Inodes)
    BY TableSize, RamFsAssumption DEF Inodes
  <2>2. S \in SUBSET Inodes
    BY DEF Used
  <2> QED
    BY <2>1, <2>2, FS_Subset
<1>2. f \in [S -> T]
  OBVIOUS
<1>3. Unique(inodes)
  BY TablesNow DEF Tree
<1>4. \A i, j \in S : f[i] = f[j] => i = j
  BY <1>3 DEF Used, Unique
<1>5. \A q \in T : \E i \in S : f[i] = q
  OBVIOUS
<1> HIDE DEF f
<1>6. Cardinality(T) = Cardinality(S)
  BY <1>1, <1>2, <1>4, <1>5, SameSize
<1> QED
  BY <1>1, <1>6

\* rd finds something below a directory when the directory has an entry: what
\* lies deeper lies in something that is in the table too.
LEMMA EntriesAre ==
    ASSUME TablesWellFormed, NEW p \in Seq(Names)
    PROVE  HasEntries(p) <=> EntriesIn(p) # {}
<1>1. \A i \in Inodes : inodes[i].name \in Seq(Names)
  BY TablesNow DEF Inode
<1>2. ASSUME EntriesIn(p) # {} PROVE HasEntries(p)
  <2>1. PICK i \in Used : inodes[i].name # Root /\ Parent(inodes[i].name) = p
    BY <1>2 DEF EntriesIn
  <2>2. Below(p, inodes[i].name)
    BY <1>1, <2>1, ParentIsAbove DEF Used
  <2> QED
    BY <2>2 DEF HasEntries
<1>3. ASSUME HasEntries(p) PROVE EntriesIn(p) # {}
  <2> DEFINE lens == {Len(inodes[i].name) : i \in {j \in Used : Below(p, inodes[j].name)}}
  <2>1. lens \in SUBSET Nat /\ lens # {}
    <3>1. \A i \in Used : Len(inodes[i].name) \in Nat
      BY <1>1, SMT DEF Used
    <3> QED
      BY <1>3, <3>1 DEF HasEntries
  <2>2. First(lens) \in lens /\ \A n \in lens : First(lens) <= n
    BY <2>1, FirstIsLeast
  <2>3. PICK i \in Used : Below(p, inodes[i].name) /\ Len(inodes[i].name) = First(lens)
    BY <2>2
  <2> DEFINE q == inodes[i].name
  <2>4. i \in Inodes /\ inodes[i].used /\ q \in Seq(Names)
    BY <1>1, <2>3 DEF Used
  <2>5. CASE Parent(q) = p
    <3>1. q # Root
      BY <2>3, <2>4, SMT DEF Below, Root
    <3> QED
      BY <2>3, <2>5, <3>1 DEF EntriesIn
  <2>6. CASE Parent(q) # p
    <3>1. q # Root /\ Below(p, Parent(q)) /\ Len(Parent(q)) < Len(q)
      BY <2>3, <2>4, <2>6, BelowParent
    <3>2. HasDir(inodes, Parent(q))
      BY <2>4, <3>1, TablesNow DEF Tree
    <3>3. PICK j \in Used : inodes[j].name = Parent(q)
      BY <3>2 DEF HasDir, Used
    <3>4. Len(Parent(q)) \in lens
      BY <3>1, <3>3
    <3>5. First(lens) <= Len(Parent(q)) /\ Len(q) \in Nat /\ Len(Parent(q)) \in Nat
      BY <2>1, <2>2, <2>4, <3>4, SMT
    <3> HIDE DEF lens, q
    <3> QED
      BY <2>3, <3>1, <3>5, SMT DEF q
  <2> QED
    BY <2>5, <2>6
<1> QED
  BY <1>2, <1>3

\* What readdir lists of a directory is what lies in it: a path that fits in
\* its buffer leaves room for its directory's path and a slash.
LEMMA ListedAre ==
    ASSUME TablesWellFormed, NEW p \in Seq(Names), NEW i \in Used
    PROVE  Listed(p, i) <=> inodes[i].name # Root /\ Parent(inodes[i].name) = p
<1> DEFINE q == inodes[i].name
<1>1. q \in Seq(Names) /\ PathLen(q) < PathSize
  BY TablesNow DEF Inode, Used, Fits
<1> HIDE DEF q
<1>2. ASSUME Below(p, q), Len(q) = Len(p) + 1 PROVE q # Root /\ Parent(q) = p
  <2>1. Len(p) \in Nat /\ Len(q) \in Nat
    BY <1>1, SMT
  <2>2. Len(q) # 0 /\ Len(q) - 1 = Len(p)
    BY <1>2, <2>1, SMT
  <2>3. Parent(q) = p
    BY <1>2, <2>2 DEF Parent, Below
  <2>4. q # Root
    BY <2>2, SMT DEF Root
  <2> QED
    BY <2>3, <2>4
<1>3. ASSUME q # Root, Parent(q) = p
      PROVE  Below(p, q) /\ Len(q) = Len(p) + 1 /\ (p = Root \/ PrefixFits(p))
  <2>1. Below(p, q)
    BY <1>1, <1>3, ParentIsAbove
  <2>2. Len(q) = Len(p) + 1
    BY <1>1, <1>3, SMT DEF Parent, Root
  <2>3. p # Root => PathLen(p) + 1 <= PathLen(q)
    BY <1>1, <1>3, ParentIsShorter
  <2>4. PathLen(p) \in Nat /\ PathLen(q) \in Nat
    BY <1>1, PathLenType
  <2>5. p # Root => PathLen(p) + 1 < PathSize
    BY <1>1, <2>3, <2>4, RamFsAssumption, SMT
  <2> QED
    BY <2>1, <2>2, <2>5 DEF PrefixFits
<1>4. Listed(p, i) <=> Below(p, q) /\ Len(q) = Len(p) + 1 /\ (p = Root \/ PrefixFits(p))
  BY DEF Listed, q
<1> QED
  BY <1>2, <1>3, <1>4 DEF q

-----------------------------------------------------------------------------
(* RamFs does what Vfs promises.                                           *)

\* The tree is full when every inode is in use.
LEMMA TreeFull ==
    ASSUME TablesWellFormed
    PROVE  Cardinality(DOMAIN treeOf) = MaxInodes <=> Inodes \ Used = {}
<1>1. DOMAIN treeOf = NamesIn(inodes)
  BY TablesNow, TreeShown DEF Tree, Shows
<1>2. NamesIn(inodes) = {inodes[i].name : i \in Used} /\ Used \in SUBSET Inodes
  BY DEF NamesIn, Used
<1>3. IsFiniteSet(Inodes) /\ Cardinality(Inodes) = MaxInodes
  BY TableSize, RamFsAssumption DEF Inodes
<1>4. Cardinality(NamesIn(inodes)) = Cardinality(Used)
  BY <1>2, NamesCount
<1>5. Cardinality(Inodes) = Cardinality(Used) => Inodes = Used
  BY <1>2, <1>3, FS_Subset
<1> QED
  BY <1>1, <1>2, <1>3, <1>4, <1>5

\* There are as many open files as descriptors when none is free.
LEMMA OpenFull ==
    Cardinality(DOMAIN openOf) = MaxFds <=> FreeFds = {}
<1> DEFINE used == {d \in Fds : fds[d].used}
           f == [d \in used |-> d + kFdOffset]
<1>1. DOMAIN openOf = OpenIn(fds)
  BY OpenShown, RamFsAssumption DEF ShowsOpen
<1>2. ASSUME IsFiniteSet(used) PROVE Cardinality(OpenIn(fds)) = Cardinality(used)
  <2>1. f \in [used -> OpenIn(fds)]
    BY DEF OpenIn
  <2>2. \A i, j \in used : f[i] = f[j] => i = j
    BY RamFsAssumption, SMT DEF Fds, kFdOffset
  <2>3. \A p \in OpenIn(fds) : \E i \in used : f[i] = p
    BY DEF OpenIn
  <2> HIDE DEF f, used
  <2> QED
    BY <1>2, <2>1, <2>2, <2>3, SameSize
<1>3. IsFiniteSet(Fds) /\ Cardinality(Fds) = MaxFds
  BY TableSize, RamFsAssumption DEF Fds
<1>4. used \in SUBSET Fds
  OBVIOUS
<1>5. IsFiniteSet(used) /\ (Cardinality(Fds) = Cardinality(used) => Fds = used)
  BY <1>3, <1>4, FS_Subset
<1>6. Cardinality(OpenIn(fds)) = Cardinality(used)
  BY <1>2, <1>5
<1> QED
  BY <1>1, <1>3, <1>4, <1>5, <1>6 DEF FreeFds

\* Both counts are as the calls need them.
LEMMA FullIsAlike ==
    ASSUME TablesWellFormed
    PROVE  FullAlike
  BY TreeFull, OpenFull, CountsAlike DEF FullAlike

\* readdir does what Vfs promises.
LEMMA ReaddirAsPromised ==
    ASSUME TablesWellFormed, NEW raw \in RawPaths, NEW room \in Rooms, Readdir(raw, room),
           NEW p, p = NormalizePath(raw), p # NoPath
    PROVE  V!VReaddir(p, room)
<1> DEFINE listed == {i \in Used : Listed(p, i)}
           shown == {i \in listed : Cardinality({j \in listed : j < i}) < room}
           S == {inodes[i].name : i \in shown}
           entries == {<<LastName(inodes[i].name), inodes[i].dir>> : i \in shown}
<1>1. V!IsDir(p) <=> IsDirectory(p)
  BY Lookup
<1>2. CASE ~V!IsDir(p) \/ room = 0
  <2>1. Fails
    BY <1>1, <1>2 DEF Readdir
  <2> QED
    BY <1>2, <2>1, FailsAsPromised DEF V!VReaddir
<1>3. CASE V!IsDir(p) /\ room # 0
  <2>1. inodes' = inodes /\ fds' = fds /\ ret' = <<"entries", entries>>
    BY <1>1, <1>3 DEF Readdir, Returns
  <2>2. p \in Seq(Names)
    BY NormalizedFits
  <2>3. V!Children(p) = {inodes[i].name : i \in listed}
    <3>1. listed = EntriesIn(p)
      BY <2>2, ListedAre DEF EntriesIn
    <3> QED
      BY <3>1, ChildrenAre
  <2>4. S \in SUBSET V!Children(p)
    BY <2>3
  <2>5. Cardinality(S) = Cardinality(shown) /\ Cardinality(V!Children(p)) = Cardinality(listed)
    BY <2>3, NamesCount
  <2>6. Cardinality(shown) = IF Cardinality(listed) < room THEN Cardinality(listed) ELSE room
    <3>1. listed \in SUBSET (0 .. MaxInodes - 1)
      BY DEF Used, Inodes
    <3>2. room \in Nat /\ MaxInodes \in Nat
      BY RamFsAssumption
    <3>3. shown = FirstFew(listed, room)
      BY DEF Before, FirstFew
    <3> HIDE DEF listed, shown
    <3>4. /\ Cardinality(listed) < room => Cardinality(shown) = Cardinality(listed)
          /\ ~(Cardinality(listed) < room) => Cardinality(shown) = room
      BY <3>1, <3>2, <3>3, ScanFills
    <3> QED
      BY <3>4
  <2>7. entries = {<<V!LastName(q), treeOf[q].dir>> : q \in S}
    <3>1. Shows(treeOf, inodes)
      BY TablesNow, TreeShown DEF Tree
    <3>2. \A i \in shown : treeOf[inodes[i].name] = Node(inodes[i])
      BY <3>1 DEF Shows, Used
    <3>3. \A x : Node(x).dir = x.dir
      BY DEF Node
    <3>4. \A i \in shown : treeOf[inodes[i].name].dir = inodes[i].dir
      BY <3>2, <3>3
    <3>5. \A q : V!LastName(q) = LastName(q)
      BY DEF V!LastName, LastName
    <3> HIDE DEF shown
    <3> QED
      BY <3>4, <3>5, SMT
  <2>8. V!NoChange(ret')
    BY <2>1, NothingDone
  <2>9. V!Cardinality(S) = IF V!Cardinality(V!Children(p)) < room THEN V!Cardinality(V!Children(p)) ELSE room
    BY <2>5, <2>6, CountsAlike
  <2>10. V!NoChange(<<"entries", {<<V!LastName(q), treeOf[q].dir>> : q \in S}>>)
    BY <2>1, <2>7, <2>8
  <2> HIDE DEF S
  <2> QED
    BY <1>3, <2>4, <2>9, <2>10 DEF V!VReaddir
<1> QED
  BY <1>2, <1>3

\* A call with a path keeps the tables well formed and does what Vfs promises.
LEMMA PathCallKept ==
    ASSUME TablesWellFormed, kept = TRUE, NEW raw \in RawPaths, workload.flags \in SUBSET Flags,
           PathCalls(raw)
    PROVE  TablesWellFormed' /\ kept' = TRUE
<1> DEFINE p == NormalizePath(raw)
<1>1. SizesInOrder /\ FullAlike
  BY SizesAreInOrder, FullIsAlike
<1>2. p # NoPath => p \in Seq(Names) /\ PathLen(p) < PathSize
  BY NormalizedFits
<1>3. ASSUME NEW fl \in Flags, Open(raw, fl)
      PROVE  TablesWellFormed' /\ OnPath(p, V!VOpen(p, fl))
  <2>1. TablesWellFormed' /\ Stays
    BY <1>1, <1>3, OpenStep
  <2>2. p # NoPath => V!VOpen(p, fl)
    BY <1>1, <1>2, <1>3, <2>1, OpenAsPromised
  <2> QED
    BY <1>3, <2>1, <2>2, BadPathAsPromised DEF OnPath
<1>4. ASSUME Md(raw)
      PROVE  TablesWellFormed' /\ OnPath(p, V!VMd(p))
  <2>1. TablesWellFormed' /\ Stays
    BY <1>1, <1>4, MdStep
  <2>2. p # NoPath => V!VMd(p)
    BY <1>1, <1>4, <2>1, MdAsPromised
  <2> QED
    BY <1>4, <2>1, <2>2, BadPathAsPromised DEF OnPath
<1>5. ASSUME Rd(raw)
      PROVE  TablesWellFormed' /\ OnPath(p, V!VRd(p))
  <2>1. TablesWellFormed' /\ Stays
    BY <1>5, RdStep
  <2>2. p # NoPath => V!VRd(p)
    BY <1>2, <1>5, <2>1, EntriesAre, RdAsPromised
  <2> QED
    BY <1>5, <2>1, <2>2, BadPathAsPromised DEF OnPath
<1>6. ASSUME Unlink(raw)
      PROVE  TablesWellFormed' /\ OnPath(p, V!VUnlink(p))
  <2>1. TablesWellFormed' /\ Stays
    BY <1>6, UnlinkStep
  <2>2. p # NoPath => V!VUnlink(p)
    BY <1>6, <2>1, UnlinkAsPromised
  <2> QED
    BY <1>6, <2>1, <2>2, BadPathAsPromised DEF OnPath
<1>7. ASSUME NEW room \in Rooms, Readdir(raw, room)
      PROVE  TablesWellFormed' /\ OnPath(p, V!VReaddir(p, room))
  <2>1. TablesWellFormed'
    BY <1>7, ReaddirStep
  <2>2. p # NoPath => V!VReaddir(p, room)
    BY <1>7, ReaddirAsPromised
  <2> QED
    BY <1>7, <2>1, <2>2, BadPathAsPromised DEF OnPath
<1> QED
  BY <1>3, <1>4, <1>5, <1>6, <1>7 DEF PathCalls

\* The inductive invariant: the tables are well formed, which is what each
\* call's proof needs, and so far every call was as promised.
KeptSoFar == TablesWellFormed /\ kept = TRUE /\ workload \in Workloads

\* Each call of the RAM file system, with any path, flags, length or buffer and
\* in any state that calls lead to, does to the tree and to the open files, and
\* returns, what a FileSystem promises of it.
THEOREM CallsAlwaysAsPromised == CallSpec => []CallsAsPromised
<1>1. CallInit => KeptSoFar
  BY InitTables DEF CallInit, KeptSoFar
<1>2. KeptSoFar /\ [CallNext]_<<vars, kept, workload>> => KeptSoFar'
  <2> SUFFICES ASSUME KeptSoFar, [CallNext]_<<vars, kept, workload>> PROVE KeptSoFar'
    OBVIOUS
  <2>1. TablesWellFormed /\ kept = TRUE /\ workload \in Workloads
    BY DEF KeptSoFar
  <2>2. /\ workload.paths \in SUBSET RawPaths /\ workload.flags \in SUBSET Flags
        /\ workload.longest \in Nat
    BY <2>1, WorkloadsAssumption, RamFsAssumption, SMT
  <2>3. CASE CallNext
    <3>1. workload' = workload
      BY <2>3 DEF CallNext
    <3>2. CASE \E raw \in workload.paths : PathCalls(raw)
      BY <2>1, <2>2, <3>1, <3>2, PathCallKept DEF KeptSoFar
    <3>3. CASE \E fd \in Descriptors : FdCalls(fd)
      BY <2>1, <2>2, <3>1, <3>3, FdCallKept DEF KeptSoFar
    <3> QED
      BY <2>3, <3>2, <3>3 DEF CallNext
  <2>4. CASE UNCHANGED <<vars, kept, workload>>
    <3>1. UNCHANGED vars /\ kept' = kept /\ workload' = workload
      BY <2>4
    <3>2. TablesWellFormed'
      BY <2>1, <3>1, SizesAreInOrder, NextTables
    <3> QED
      BY <2>1, <3>1, <3>2 DEF KeptSoFar
  <2> QED
    BY <2>3, <2>4
<1>3. KeptSoFar => CallsAsPromised
  BY DEF KeptSoFar, CallsAsPromised
<1> QED
  BY <1>1, <1>2, <1>3, PTL DEF CallSpec

=============================================================================
