----------------------------- MODULE VmmProofs -----------------------------
(***************************************************************************)
(* Proofs about Vmm, as KernelMemory uses it: for any number of page       *)
(* tables, pages, frames and processes, whoever translates a page finds    *)
(* the same frame, and the tables implement one map of pages.              *)
(***************************************************************************)
EXTENDS KernelMemory, TLAPS

\* What the entries of a table and of a directory may be, and where they lie.
Phys == Frames \cup Devices
Pte == [frame : Phys, user : BOOLEAN] \cup {NoEntry}
Pde == [frame : V!Tables, user : BOOLEAN] \cup {NoEntry}
DirSlots == 0 .. Dirs - 1
TblSlots == 0 .. PerTable - 1
Dir == [DirSlots -> Pde]

\* What the assumptions say of the constants of the page tables.
LEMMA TableSizes ==
    /\ Dirs \in Nat \ {0} /\ PerTable \in Nat \ {0} /\ MaxTables \in Nat
    /\ NoEntry \notin Phys /\ NoEntry \notin V!Tables
    /\ \A f \in Phys \cup V!Tables, user \in BOOLEAN : V!Entry(f, user) # NoEntry
    /\ "kernel" \notin Clones /\ Users \subseteq BOOLEAN
    /\ V!Tables = 0 .. MaxTables - 1 /\ V!Spaces = Clones \cup {"kernel"} /\ V!Kernel = "kernel"
<1>1. V!VmmConstants
  BY KernelMemoryAssumption
<1>2. NoEntry \notin [frame : Phys \cup V!Tables, user : BOOLEAN]
  BY <1>1 DEF V!VmmConstants, Phys
<1>3. \A f \in Phys \cup V!Tables, user \in BOOLEAN : V!Entry(f, user) # NoEntry
  BY <1>2 DEF V!Entry
<1> QED
  BY <1>1, <1>3 DEF V!VmmConstants, Phys, V!Tables, V!Spaces, V!Kernel

\* A page has one directory slot and one table slot, and no other page has both.
LEMMA Slots ==
    ASSUME NEW v \in V!Pages
    PROVE  /\ V!DirIndex(v) \in DirSlots /\ V!TblIndex(v) \in TblSlots
           /\ v = PerTable * V!DirIndex(v) + V!TblIndex(v)
<1>1. PICK q, r : q = v \div PerTable /\ r = v % PerTable
  OBVIOUS
<1>2. v \in Nat /\ v < Dirs * PerTable
  BY TableSizes DEF V!Pages
<1>3. q \in Int /\ r \in 0 .. PerTable - 1 /\ v = PerTable * q + r
  BY <1>1, <1>2, TableSizes
<1>4. q >= 0
  <2>1. q <= -1 => PerTable * q <= PerTable * (-1)
    <3>1. q <= -1 => PerTable * (-1 - q) >= 0
      BY <1>3, TableSizes
    <3> QED
      BY <1>3, <3>1, TableSizes
  <2> QED
    BY <1>2, <1>3, <2>1, TableSizes
<1>5. q < Dirs
  <2>1. q >= Dirs => PerTable * (q - Dirs) >= 0
    BY <1>3, TableSizes
  <2> QED
    BY <1>2, <1>3, <2>1, TableSizes
<1> QED
  BY <1>1, <1>3, <1>4, <1>5, TableSizes DEF V!DirIndex, V!TblIndex, DirSlots, TblSlots

-----------------------------------------------------------------------------
\* The kernel's directory names the tables of tableFor, handed out in order,
\* each to one slot.
TablesHandedOut ==
    /\ \A d \in DirSlots :
         IF tableFor[d] = NoEntry THEN dirs["kernel"][d] = NoEntry
         ELSE /\ dirs["kernel"][d] # NoEntry
              /\ dirs["kernel"][d].frame = tableFor[d] /\ tableFor[d] < inUse
    /\ \A d, e \in DirSlots : tableFor[d] # NoEntry /\ tableFor[d] = tableFor[e] => d = e

\* A process's directory has the kernel's entries, or lacks them.
ClonesShare ==
    \A s \in Clones : dirs[s] # NoEntry =>
      \A d \in DirSlots : dirs[s][d] = NoEntry \/ dirs[s][d] = dirs["kernel"][d]

\* A directory of the machine: the kernel's, or a process's that was created.
InMemory(s) == s = "kernel" \/ (s \in Clones /\ dirs[s] # NoEntry)

\* The types, as the proofs use them.
Typed ==
    /\ dirs \in [Clones \cup {"kernel"} -> Dir \cup {NoEntry}]
    /\ dirs["kernel"] \in Dir
    /\ tables \in [V!Tables -> [TblSlots -> Pte]]
    /\ tableFor \in [DirSlots -> V!Tables \cup {NoEntry}]
    /\ inUse \in 0 .. MaxTables
    /\ paging \in BOOLEAN
    /\ InMemory(cr3)
    /\ \A e \in tlb : e.virt \in V!Pages /\ e.entry \in Pte \ {NoEntry}

\* The inductive invariant of the page tables.
PagesInv ==
    /\ Typed /\ TablesHandedOut /\ ClonesShare
    /\ V!NoStaleTlb
    /\ ~paging => tlb = {}

\* An entry of a directory that names a table, and the entries of a table.
LEMMA EntriesTyped ==
    ASSUME Typed, NEW dir \in Dir, NEW v \in V!Pages
    PROVE  /\ \/ dir[V!DirIndex(v)] = NoEntry
              \/ /\ dir[V!DirIndex(v)].frame \in V!Tables
                 /\ dir[V!DirIndex(v)].user \in BOOLEAN
           /\ tableFor[V!DirIndex(v)] \in V!Tables \cup {NoEntry}
           /\ \A k \in V!Tables :
                \/ tables[k][V!TblIndex(v)] = NoEntry
                \/ /\ tables[k][V!TblIndex(v)] # NoEntry
                   /\ tables[k][V!TblIndex(v)].frame \in Phys
                   /\ tables[k][V!TblIndex(v)].user \in BOOLEAN
BY Slots DEF Typed, Dir, Pde, Pte

\* The kernel's directory and tableFor lead to the same entry.
LEMMA KernelWalk ==
    ASSUME Typed, TablesHandedOut, NEW v \in V!Pages
    PROVE  V!VirtToPhys(v) = IF V!Walk(dirs["kernel"], v) = NoEntry THEN NoEntry
                             ELSE V!Walk(dirs["kernel"], v).frame
<1> DEFINE d == V!DirIndex(v)
           t == V!TblIndex(v)
<1>1. d \in DirSlots
  BY Slots
<1>2. CASE tableFor[d] = NoEntry
  BY Zenon, <1>1, <1>2 DEF TablesHandedOut, V!VirtToPhys, V!Walk
<1>3. CASE tableFor[d] # NoEntry
  <2>1. PICK pte, pde : pte = tables[tableFor[d]][t] /\ pde = dirs["kernel"][d]
    OBVIOUS
  <2>2. pde # NoEntry /\ pde.frame = tableFor[d] /\ pde.user \in BOOLEAN
    BY <1>1, <1>3, <2>1, EntriesTyped DEF TablesHandedOut, Typed
  <2>3. pte = NoEntry \/ (pte # NoEntry /\ pte.frame \in Phys /\ pte.user \in BOOLEAN)
    BY <1>1, <1>3, <2>1, EntriesTyped DEF Typed
  <2>4. V!VirtToPhys(v) = IF pte = NoEntry THEN NoEntry ELSE pte.frame
    BY <1>1, <1>3, <2>1 DEF V!VirtToPhys
  <2>5. V!Walk(dirs["kernel"], v) = IF pte = NoEntry THEN NoEntry
                                    ELSE V!Entry(pte.frame, pde.user /\ pte.user)
    BY <1>1, <2>1, <2>2 DEF V!Walk
  <2>6. pte # NoEntry => V!Entry(pte.frame, pde.user /\ pte.user) # NoEntry
    BY <2>2, <2>3, TableSizes
  <2>7. V!Entry(pte.frame, pde.user /\ pte.user).frame = pte.frame
    BY DEF V!Entry
  <2> QED
    BY <2>4, <2>5, <2>6, <2>7
<1> QED
  BY <1>2, <1>3

\* A process's directory gives a page the kernel's translation or none.
LEMMA CloneWalk ==
    ASSUME Typed, ClonesShare, NEW s \in Clones, dirs[s] # NoEntry, NEW v \in V!Pages
    PROVE  V!Walk(dirs[s], v) \in {NoEntry, V!Walk(dirs["kernel"], v)}
<1>1. PICK d, t : d = V!DirIndex(v) /\ t = V!TblIndex(v) /\ d \in DirSlots
  BY Slots
<1>2. dirs[s][d] = NoEntry \/ dirs[s][d] = dirs["kernel"][d]
  BY <1>1 DEF ClonesShare
<1>3. dirs[s][d] = NoEntry => V!Walk(dirs[s], v) = NoEntry
  BY <1>1 DEF V!Walk
<1>4. dirs[s][d] = dirs["kernel"][d] => V!Walk(dirs[s], v) = V!Walk(dirs["kernel"], v)
  BY <1>1 DEF V!Walk
<1> QED
  BY <1>2, <1>3, <1>4

\* The inductive invariant gives the property that the runs check.
LEMMA PagesInvImplies == PagesInv => V!TranslationsAgree
<1> SUFFICES ASSUME PagesInv PROVE V!TranslationsAgree
  OBVIOUS
<1>1. V!TypeOK
  BY TableSizes DEF PagesInv, Typed, InMemory, V!TypeOK, Dir, Pde, Pte, DirSlots, TblSlots, Phys
<1>2. V!WalkAgrees
  BY Zenon, KernelWalk, TableSizes DEF PagesInv, V!WalkAgrees
<1>3. V!CloneNeverDiverges
  BY Zenon, CloneWalk, TableSizes DEF PagesInv, V!CloneNeverDiverges
<1> QED
  BY <1>1, <1>2, <1>3 DEF PagesInv, V!TranslationsAgree

-----------------------------------------------------------------------------
\* An entry of a table that is there is set: map_page, and unmap_page.
SetsEntry(v, x) ==
    /\ tableFor[V!DirIndex(v)] # NoEntry
    /\ tables' = [tables EXCEPT ![tableFor[V!DirIndex(v)]] = [@ EXCEPT ![V!TblIndex(v)] = x]]
    /\ UNCHANGED <<dirs, tableFor, inUse>>

\* map_page with a new table.
AddsTable(v, f, user) ==
    /\ tableFor[V!DirIndex(v)] = NoEntry
    /\ inUse < MaxTables /\ inUse' = inUse + 1
    /\ tableFor' = [tableFor EXCEPT ![V!DirIndex(v)] = inUse]
    /\ dirs' = [dirs EXCEPT !["kernel"] = [@ EXCEPT ![V!DirIndex(v)] = V!Entry(inUse, user)]]
    /\ tables' = [tables EXCEPT ![inUse] =
                    [t \in TblSlots |-> IF t = V!TblIndex(v) THEN V!Entry(f, user) ELSE NoEntry]]

\* map_page is one or the other.
LEMMA MapPageCases ==
    ASSUME Typed, NEW v \in V!Pages, NEW f, NEW user, V!MapPage(v, f, user)
    PROVE  /\ SetsEntry(v, V!Entry(f, user)) \/ AddsTable(v, f, user)
           /\ V!FlushTlbEntry(v) /\ UNCHANGED <<paging, cr3>>
<1>1. V!DirIndex(v) \in DirSlots /\ V!TblIndex(v) \in TblSlots
  BY Slots
<1>2. CASE tableFor[V!DirIndex(v)] # NoEntry
  BY <1>1, <1>2 DEF V!MapPage, SetsEntry, Typed
<1>3. CASE tableFor[V!DirIndex(v)] = NoEntry
  BY Zenon, <1>1, <1>3 DEF V!MapPage, AddsTable, Typed, V!NextTable, V!EmptyTable, V!Kernel, TblSlots
<1> QED
  BY <1>2, <1>3 DEF V!MapPage

\* Setting an entry keeps what the tables are.
LEMMA SetsEntryKeeps ==
    ASSUME Typed, TablesHandedOut, ClonesShare, NEW v \in V!Pages, NEW x \in Pte, SetsEntry(v, x)
    PROVE  /\ tables' \in [V!Tables -> [TblSlots -> Pte]]
           /\ tableFor' \in [DirSlots -> V!Tables \cup {NoEntry}] /\ inUse' \in 0 .. MaxTables
           /\ dirs' \in [Clones \cup {"kernel"} -> Dir \cup {NoEntry}] /\ dirs'["kernel"] \in Dir
           /\ \A s \in Clones : dirs'[s] = dirs[s]
           /\ TablesHandedOut' /\ ClonesShare'
           /\ V!VirtToPhys(v)' = IF x = NoEntry THEN NoEntry ELSE x.frame
<1> DEFINE d == V!DirIndex(v)
           t == V!TblIndex(v)
<1>1. d \in DirSlots /\ t \in TblSlots
  BY Slots
<1>2. tableFor[d] \in V!Tables
  BY <1>1 DEF Typed, SetsEntry
<1>3. tables' \in [V!Tables -> [TblSlots -> Pte]] /\ tables'[tableFor[d]][t] = x
  BY <1>1, <1>2 DEF Typed, SetsEntry
<1>4. V!VirtToPhys(v)' = IF x = NoEntry THEN NoEntry ELSE x.frame
  <2>1. tableFor'[d] = tableFor[d] /\ tableFor[d] # NoEntry
    BY DEF SetsEntry
  <2> QED
    BY <1>3, <2>1 DEF V!VirtToPhys
<1> QED
  BY <1>3, <1>4 DEF SetsEntry, Typed, TablesHandedOut, ClonesShare

\* So does a new table for a page.
LEMMA AddsTableKeeps ==
    ASSUME Typed, TablesHandedOut, ClonesShare,
           NEW v \in V!Pages, NEW f \in Phys, NEW user \in BOOLEAN, AddsTable(v, f, user)
    PROVE  /\ tables' \in [V!Tables -> [TblSlots -> Pte]]
           /\ tableFor' \in [DirSlots -> V!Tables \cup {NoEntry}] /\ inUse' \in 0 .. MaxTables
           /\ dirs' \in [Clones \cup {"kernel"} -> Dir \cup {NoEntry}] /\ dirs'["kernel"] \in Dir
           /\ \A s \in Clones : dirs'[s] = dirs[s]
           /\ TablesHandedOut' /\ ClonesShare'
           /\ V!VirtToPhys(v)' = f
<1> DEFINE d == V!DirIndex(v)
           t == V!TblIndex(v)
<1>1. d \in DirSlots /\ t \in TblSlots
  BY Slots
<1>2. V!Entry(f, user) \in Pte /\ V!Entry(f, user) # NoEntry /\ V!Entry(f, user).frame = f
  BY TableSizes DEF Pte, V!Entry
<1>3. inUse \in V!Tables /\ inUse # NoEntry /\ inUse \in Int
  BY TableSizes DEF Typed, AddsTable
<1>4. /\ V!Entry(inUse, user) \in Pde /\ V!Entry(inUse, user) # NoEntry
      /\ V!Entry(inUse, user).frame = inUse
  BY <1>3, TableSizes DEF Pde, V!Entry
<1>5. tables' \in [V!Tables -> [TblSlots -> Pte]] /\ tables'[inUse][t] = V!Entry(f, user)
  BY <1>1, <1>2, <1>3 DEF Typed, AddsTable, Pte
<1>6. /\ tableFor' \in [DirSlots -> V!Tables \cup {NoEntry}] /\ inUse' \in 0 .. MaxTables
      /\ tableFor'[d] = inUse /\ \A e \in DirSlots \ {d} : tableFor'[e] = tableFor[e]
      /\ inUse' = inUse + 1
  BY <1>1, <1>3, TableSizes DEF Typed, AddsTable
<1>7. /\ dirs' \in [Clones \cup {"kernel"} -> Dir \cup {NoEntry}] /\ dirs'["kernel"] \in Dir
      /\ \A s \in Clones : dirs'[s] = dirs[s]
      /\ dirs'["kernel"][d] = V!Entry(inUse, user)
      /\ \A e \in DirSlots \ {d} : dirs'["kernel"][e] = dirs["kernel"][e]
  BY <1>1, <1>4, TableSizes DEF Typed, AddsTable, Dir
<1>8. V!VirtToPhys(v)' = f
  BY <1>2, <1>3, <1>5, <1>6 DEF V!VirtToPhys
<1>9. tableFor[d] = NoEntry /\ dirs["kernel"][d] = NoEntry
  BY <1>1 DEF AddsTable, TablesHandedOut
<1>10. ClonesShare'
  <2> SUFFICES ASSUME NEW s \in Clones, dirs[s] # NoEntry, NEW e \in DirSlots
               PROVE  dirs[s][e] = NoEntry \/ dirs[s][e] = dirs'["kernel"][e]
    BY <1>7 DEF ClonesShare
  <2> QED
    BY <1>7, <1>9 DEF ClonesShare
<1>11. \A e \in DirSlots : tableFor[e] # NoEntry => tableFor[e] < inUse /\ tableFor[e] \in Int
  BY TableSizes DEF TablesHandedOut, Typed
<1>12. TablesHandedOut'
  <2>1. \A e \in DirSlots :
          IF tableFor'[e] = NoEntry THEN dirs'["kernel"][e] = NoEntry
          ELSE /\ dirs'["kernel"][e] # NoEntry
               /\ dirs'["kernel"][e].frame = tableFor'[e] /\ tableFor'[e] < inUse'
    <3> SUFFICES ASSUME NEW e \in DirSlots
                 PROVE  IF tableFor'[e] = NoEntry THEN dirs'["kernel"][e] = NoEntry
                        ELSE /\ dirs'["kernel"][e] # NoEntry
                             /\ dirs'["kernel"][e].frame = tableFor'[e] /\ tableFor'[e] < inUse'
      OBVIOUS
    <3>1. CASE e = d
      BY <1>3, <1>4, <1>6, <1>7, <3>1
    <3>2. CASE e # d
      BY <1>3, <1>6, <1>7, <1>11, <3>2 DEF TablesHandedOut
    <3> QED
      BY <3>1, <3>2
  <2>2. \A a, e \in DirSlots : tableFor'[a] # NoEntry /\ tableFor'[a] = tableFor'[e] => a = e
    BY <1>1, <1>3, <1>6, <1>11 DEF TablesHandedOut
  <2> QED
    BY <2>1, <2>2 DEF TablesHandedOut
<1> QED
  BY <1>5, <1>6, <1>7, <1>8, <1>10, <1>12

\* An entry that some directory has for a slot is the kernel's, and names the
\* slot's table.
LEMMA EntryOfSlot ==
    ASSUME Typed, TablesHandedOut, ClonesShare, NEW s \in Clones \cup {"kernel"},
           dirs[s] \in Dir, s \in Clones => dirs[s] # NoEntry,
           NEW e \in DirSlots, dirs[s][e] # NoEntry
    PROVE  /\ tableFor[e] # NoEntry /\ tableFor[e] \in V!Tables
           /\ tableFor[e] < inUse /\ dirs[s][e].frame = tableFor[e]
<1>1. dirs[s][e] = dirs["kernel"][e]
  BY DEF ClonesShare
<1>2. tableFor[e] # NoEntry /\ tableFor[e] \in V!Tables
  BY <1>1 DEF TablesHandedOut, Typed
<1> QED
  BY <1>1, <1>2 DEF TablesHandedOut

\* Either changes the translation of no other page, in whatever directory.
LEMMA OthersKeepEntry ==
    ASSUME Typed, TablesHandedOut, ClonesShare,
           NEW v \in V!Pages, NEW x, NEW f, NEW user \in BOOLEAN,
           SetsEntry(v, x) \/ AddsTable(v, f, user),
           NEW s, InMemory(s), NEW w \in V!Pages, w # v
    PROVE  V!Walk(dirs[s], w)' = V!Walk(dirs[s], w)
<1> DEFINE d == V!DirIndex(v)
           t == V!TblIndex(v)
           dw == V!DirIndex(w)
           tw == V!TblIndex(w)
<1>1. /\ d \in DirSlots /\ t \in TblSlots /\ dw \in DirSlots /\ tw \in TblSlots
      /\ dw = d => tw # t
  BY Slots
<1>2. dirs[s] \in Dir /\ s \in Clones \cup {"kernel"} /\ (s \in Clones => dirs[s] # NoEntry)
  BY TableSizes DEF Typed, InMemory
<1>3. dirs[s][dw] # NoEntry =>
        /\ tableFor[dw] # NoEntry /\ tableFor[dw] \in V!Tables
        /\ tableFor[dw] < inUse /\ dirs[s][dw].frame = tableFor[dw]
  BY <1>1, <1>2, EntryOfSlot
<1> HIDE DEF d, t, dw, tw
<1>4. ASSUME dirs'[s][dw] = dirs[s][dw],
             dirs[s][dw] # NoEntry => tables'[tableFor[dw]][tw] = tables[tableFor[dw]][tw]
      PROVE  V!Walk(dirs[s], w)' = V!Walk(dirs[s], w)
  BY Zenon, <1>3, <1>4 DEF V!Walk, dw, tw
<1>5. CASE SetsEntry(v, x)
  <2>1. dirs' = dirs /\ tables' = [tables EXCEPT ![tableFor[d]] = [@ EXCEPT ![t] = x]]
    BY <1>5 DEF SetsEntry, d, t
  <2>2. tableFor[dw] # NoEntry /\ tableFor[dw] = tableFor[d] => dw = d
    BY <1>1 DEF TablesHandedOut
  <2>3. dirs[s][dw] # NoEntry => tables'[tableFor[dw]][tw] = tables[tableFor[dw]][tw]
    BY <1>1, <1>3, <2>1, <2>2 DEF Typed
  <2> QED
    BY <1>4, <2>1, <2>3
<1>6. CASE AddsTable(v, f, user)
  <2>1. /\ dirs' = [dirs EXCEPT !["kernel"] = [@ EXCEPT ![d] = V!Entry(inUse, user)]]
        /\ tableFor[d] = NoEntry
        /\ tables' = [tables EXCEPT ![inUse] = [i \in TblSlots |-> IF i = t THEN V!Entry(f, user) ELSE NoEntry]]
    BY <1>6 DEF AddsTable, d, t
  <2>2. CASE dirs[s][dw] # NoEntry
    <3>1. dw # d
      BY <1>3, <2>1, <2>2
    <3>2. dirs'[s][dw] = dirs[s][dw]
      BY <1>1, <1>2, <2>1, <3>1 DEF Typed, Dir
    <3>3. tableFor[dw] # inUse
      BY <1>3, <2>2, TableSizes DEF Typed
    <3>4. tables'[tableFor[dw]] = tables[tableFor[dw]]
      BY <1>3, <2>1, <2>2, <3>3 DEF Typed
    <3> QED
      BY <1>4, <3>2, <3>4
  <2>3. CASE dirs[s][dw] = NoEntry /\ (s # "kernel" \/ dw # d)
    <3>1. dirs'[s][dw] = dirs[s][dw]
      BY <1>1, <1>2, <2>1, <2>3 DEF Typed, Dir
    <3> QED
      BY <1>4, <2>3, <3>1
  <2>4. CASE dirs[s][dw] = NoEntry /\ s = "kernel" /\ dw = d
    <3>1. dirs'[s][dw] = V!Entry(inUse, user)
      BY <1>1, <2>1, <2>4 DEF Typed, Dir
    <3>2. inUse \in V!Tables
      BY <1>6, TableSizes DEF Typed, AddsTable
    <3>3. V!Entry(inUse, user) # NoEntry /\ V!Entry(inUse, user).frame = inUse
      BY <3>2, TableSizes DEF V!Entry
    <3>4. tables'[inUse][tw] = NoEntry
      BY <1>1, <2>1, <2>4, <3>2 DEF Typed
    <3>5. V!Walk(dirs[s], w)' = NoEntry
      BY <3>1, <3>3, <3>4 DEF V!Walk, dw, tw
    <3>6. V!Walk(dirs[s], w) = NoEntry
      BY <2>4 DEF V!Walk, dw, tw
    <3> QED
      BY <3>5, <3>6
  <2> QED
    BY <2>2, <2>3, <2>4
<1> QED
  BY <1>5, <1>6

\* virt_to_phys agrees with the walk of the kernel's directory.
LEMMA WalksAgree == Typed /\ TablesHandedOut => V!WalkAgrees
BY Zenon, KernelWalk, TableSizes DEF V!WalkAgrees

\* A step keeps the TLB current when it drops the page whose entry it changes.
LEMMA TlbStaysCurrent ==
    ASSUME PagesInv, NEW v, V!FlushTlbEntry(v), UNCHANGED <<paging, cr3>>,
           \A w \in V!Pages : w # v => V!Walk(dirs[cr3], w)' = V!Walk(dirs[cr3], w)
    PROVE  /\ V!NoStaleTlb' /\ (~paging' => tlb' = {})
           /\ \A e \in tlb' : e.virt \in V!Pages /\ e.entry \in Pte \ {NoEntry}
<1>1. ~paging => tlb' = {}
  BY DEF PagesInv, V!FlushTlbEntry
<1>2. tlb' \subseteq tlb /\ (paging => \A e \in tlb' : e.virt # v)
  <2>1. paging => tlb' = {e \in tlb : e.virt # v}
    BY Zenon DEF V!FlushTlbEntry
  <2> QED
    BY <1>1, <2>1
<1>3. \A e \in tlb' : V!Walk(dirs[cr3], e.virt)' = e.entry
  <2> SUFFICES ASSUME NEW e \in tlb' PROVE V!Walk(dirs[cr3], e.virt)' = e.entry
    OBVIOUS
  <2>1. e \in tlb /\ e.virt # v /\ e.virt \in V!Pages
    BY <1>1, <1>2 DEF PagesInv, Typed
  <2>2. V!Walk(dirs[cr3], e.virt) = e.entry
    BY <2>1 DEF PagesInv, V!NoStaleTlb
  <2>3. PICK x : x = e.virt
    OBVIOUS
  <2>4. V!Walk(dirs[cr3], x)' = V!Walk(dirs[cr3], x)
    BY <2>1, <2>3
  <2> QED
    BY Zenon, <2>2, <2>3, <2>4 DEF V!Walk
<1>4. V!NoStaleTlb'
  BY <1>3 DEF V!NoStaleTlb
<1> QED
  BY <1>1, <1>2, <1>4 DEF PagesInv, Typed

\* A change of one page's entry keeps the invariant and all other translations.
LEMMA EntryChangeKeeps ==
    ASSUME PagesInv, NEW v \in V!Pages, NEW x \in Pte, NEW f \in Phys, NEW user \in BOOLEAN,
           SetsEntry(v, x) \/ AddsTable(v, f, user),
           V!FlushTlbEntry(v), UNCHANGED <<paging, cr3>>
    PROVE  /\ PagesInv'
           /\ \A w \in V!Pages : w # v => V!VirtToPhys(w)' = V!VirtToPhys(w)
<1>1. /\ tables' \in [V!Tables -> [TblSlots -> Pte]]
      /\ tableFor' \in [DirSlots -> V!Tables \cup {NoEntry}] /\ inUse' \in 0 .. MaxTables
      /\ dirs' \in [Clones \cup {"kernel"} -> Dir \cup {NoEntry}] /\ dirs'["kernel"] \in Dir
      /\ \A s \in Clones : dirs'[s] = dirs[s]
      /\ TablesHandedOut' /\ ClonesShare'
  <2>1. CASE SetsEntry(v, x)
    BY Zenon, <2>1, SetsEntryKeeps DEF PagesInv
  <2>2. CASE AddsTable(v, f, user)
    BY Zenon, <2>2, AddsTableKeeps DEF PagesInv
  <2> QED
    BY <2>1, <2>2
<1>3. InMemory(cr3) /\ InMemory("kernel")
  BY DEF PagesInv, Typed, InMemory
<1>4. \A w \in V!Pages : w # v => V!Walk(dirs[cr3], w)' = V!Walk(dirs[cr3], w)
  <2> SUFFICES ASSUME NEW w \in V!Pages, w # v PROVE V!Walk(dirs[cr3], w)' = V!Walk(dirs[cr3], w)
    OBVIOUS
  <2>1. PICK s : s = cr3
    OBVIOUS
  <2>2. V!Walk(dirs[s], w)' = V!Walk(dirs[s], w)
    BY <1>3, <2>1, OthersKeepEntry DEF PagesInv
  <2> QED
    BY Zenon, <2>1, <2>2 DEF V!Walk
<1>5. /\ V!NoStaleTlb' /\ (~paging' => tlb' = {})
      /\ \A e \in tlb' : e.virt \in V!Pages /\ e.entry \in Pte \ {NoEntry}
  BY <1>4, TlbStaysCurrent
<1>6. Typed'
  BY <1>1, <1>3, <1>5 DEF PagesInv, Typed, InMemory
<1>7. PagesInv'
  BY <1>1, <1>5, <1>6 DEF PagesInv
<1>8. V!WalkAgrees /\ V!WalkAgrees'
  BY <1>1, <1>6, WalksAgree, PTL DEF PagesInv
<1>9. ASSUME NEW w \in V!Pages, w # v PROVE V!VirtToPhys(w)' = V!VirtToPhys(w)
  <2>1. V!Walk(dirs["kernel"], w)' = V!Walk(dirs["kernel"], w)
    BY <1>3, <1>9, OthersKeepEntry DEF PagesInv
  <2> QED
    BY <1>8, <2>1, TableSizes DEF V!WalkAgrees
<1> QED
  BY <1>7, <1>9

\* map_page keeps the invariant, and changes the translation of its page only.
LEMMA MapPageKeeps ==
    ASSUME PagesInv, NEW v \in V!Pages, NEW f \in Phys, NEW user \in BOOLEAN,
           V!MapPage(v, f, user)
    PROVE  /\ PagesInv' /\ V!VirtToPhys(v)' = f
           /\ \A w \in V!Pages : w # v => V!VirtToPhys(w)' = V!VirtToPhys(w)
<1>1. PICK x : x = V!Entry(f, user)
  OBVIOUS
<1>2. x \in Pte /\ x # NoEntry /\ x.frame = f
  BY <1>1, TableSizes DEF Pte, V!Entry
<1>3. /\ SetsEntry(v, x) \/ AddsTable(v, f, user)
      /\ V!FlushTlbEntry(v) /\ UNCHANGED <<paging, cr3>>
  BY <1>1, MapPageCases DEF PagesInv
<1>4. V!VirtToPhys(v)' = f
  <2>1. CASE SetsEntry(v, x)
    BY <1>2, <2>1, SetsEntryKeeps DEF PagesInv
  <2>2. CASE AddsTable(v, f, user)
    BY <2>2, AddsTableKeeps DEF PagesInv
  <2> QED
    BY <1>3, <2>1, <2>2
<1>5. PagesInv' /\ \A w \in V!Pages : w # v => V!VirtToPhys(w)' = V!VirtToPhys(w)
  BY <1>2, <1>3, EntryChangeKeeps
<1> QED
  BY <1>4, <1>5

\* unmap_page does the same.
LEMMA UnmapPageKeeps ==
    ASSUME PagesInv, NEW v \in V!Pages, V!UnmapPage(v)
    PROVE  /\ PagesInv' /\ V!VirtToPhys(v)' = NoEntry
           /\ \A w \in V!Pages : w # v => V!VirtToPhys(w)' = V!VirtToPhys(w)
<1>1. tableFor[V!DirIndex(v)] # NoEntry
  BY DEF V!UnmapPage, V!VirtToPhys
<1>2. SetsEntry(v, NoEntry) /\ V!FlushTlbEntry(v) /\ UNCHANGED <<paging, cr3>>
  BY <1>1 DEF V!UnmapPage, SetsEntry
<1>3. NoEntry \in Pte /\ 0 \in Phys
  BY PmmAssumption DEF Pte, Phys, Frames
<1>4. V!VirtToPhys(v)' = NoEntry
  BY <1>2, <1>3, SetsEntryKeeps DEF PagesInv
<1>5. PagesInv' /\ \A w \in V!Pages : w # v => V!VirtToPhys(w)' = V!VirtToPhys(w)
  BY Zenon, <1>2, <1>3, EntryChangeKeeps
<1> QED
  BY <1>4, <1>5

\* enable_paging and switch_address_space empty the TLB.
LEMMA LoadCr3Keeps ==
    ASSUME PagesInv, NEW s \in V!Spaces, V!EnablePaging \/ V!SwitchAddressSpace(s)
    PROVE  PagesInv'
<1>1. InMemory(cr3)' /\ tlb' = {} /\ paging' = TRUE /\ UNCHANGED <<dirs, tables, tableFor, inUse>>
  BY TableSizes DEF V!EnablePaging, V!SwitchAddressSpace, InMemory
<1>2. Typed'
  BY <1>1 DEF PagesInv, Typed
<1>3. TablesHandedOut' /\ ClonesShare'
  BY <1>1 DEF PagesInv, TablesHandedOut, ClonesShare
<1> QED
  BY <1>1, <1>2, <1>3 DEF PagesInv, V!NoStaleTlb

\* A new process's directory is a copy of the kernel's.
LEMMA CreateCloneKeeps ==
    ASSUME PagesInv, NEW s \in Clones, V!CreateClone(s)
    PROVE  PagesInv'
<1>1. /\ dirs[s] = NoEntry /\ s # "kernel" /\ dirs["kernel"] \in Dir
      /\ dirs' = [dirs EXCEPT ![s] = dirs["kernel"]]
      /\ UNCHANGED <<tables, tableFor, inUse, paging, cr3, tlb>>
  BY TableSizes DEF V!CreateClone, PagesInv, Typed
<1>2. /\ dirs' \in [Clones \cup {"kernel"} -> Dir \cup {NoEntry}]
      /\ \A z \in Clones \cup {"kernel"} : z # s => dirs'[z] = dirs[z]
      /\ dirs'[s] = dirs["kernel"]
  BY <1>1 DEF PagesInv, Typed
<1>3. InMemory(cr3)' /\ dirs'[cr3] = dirs[cr3]
  BY <1>1, <1>2 DEF PagesInv, Typed, InMemory
<1>4. Typed'
  BY <1>1, <1>2, <1>3 DEF PagesInv, Typed
<1>5. TablesHandedOut' /\ ClonesShare'
  BY <1>1, <1>2 DEF PagesInv, TablesHandedOut, ClonesShare
<1>6. V!NoStaleTlb'
  BY Zenon, <1>1, <1>3 DEF PagesInv, V!NoStaleTlb, V!Walk
<1> QED
  BY <1>1, <1>4, <1>5, <1>6 DEF PagesInv

\* The MMU keeps a translation that the directory in use gives.
LEMMA TlbFillKeeps ==
    ASSUME PagesInv, NEW v \in V!Pages, V!TlbFill(v)
    PROVE  PagesInv'
<1>1. PICK x : x = V!Walk(dirs[cr3], v)
  OBVIOUS
<1>2. /\ x # NoEntry /\ tlb' = tlb \cup {[virt |-> v, entry |-> x]} /\ paging
      /\ UNCHANGED <<dirs, tables, tableFor, inUse, paging, cr3>>
  BY <1>1 DEF V!TlbFill
<1>3. dirs[cr3] \in Dir
  BY DEF PagesInv, Typed, InMemory
<1>4. x \in Pte
  <2> DEFINE pde == dirs[cr3][V!DirIndex(v)]
             pte == tables[pde.frame][V!TblIndex(v)]
  <2>1. pde # NoEntry
    BY Zenon, <1>1, <1>2 DEF V!Walk
  <2>2. pte # NoEntry
    BY Zenon, <1>1, <1>2, <2>1 DEF V!Walk
  <2>3. x = V!Entry(pte.frame, pde.user /\ pte.user)
    BY Zenon, <1>1, <2>1, <2>2 DEF V!Walk
  <2>4. pte.frame \in Phys
    BY <1>3, <2>1, <2>2, EntriesTyped DEF PagesInv
  <2> HIDE DEF pde, pte
  <2> QED
    BY <2>3, <2>4 DEF V!Entry, Pte
<1>5. Typed'
  <2>1. \A e \in tlb' : e.virt \in V!Pages /\ e.entry \in Pte \ {NoEntry}
    <3> SUFFICES ASSUME NEW e \in tlb' PROVE e.virt \in V!Pages /\ e.entry \in Pte \ {NoEntry}
      OBVIOUS
    <3>1. e \in tlb \/ e = [virt |-> v, entry |-> x]
      BY <1>2
    <3>2. e \in tlb => e.virt \in V!Pages /\ e.entry \in Pte \ {NoEntry}
      BY DEF PagesInv, Typed
    <3> QED
      BY <1>2, <1>4, <3>1, <3>2
  <2> QED
    BY <1>2, <2>1 DEF PagesInv, Typed, InMemory
<1>6. V!NoStaleTlb'
  <2> SUFFICES ASSUME NEW e \in tlb' PROVE V!Walk(dirs[cr3], e.virt)' = e.entry
    BY DEF V!NoStaleTlb
  <2>1. V!Walk(dirs[cr3], e.virt) = e.entry
    BY <1>1, <1>2 DEF PagesInv, V!NoStaleTlb
  <2> QED
    BY Zenon, <1>2, <2>1 DEF V!Walk
<1> QED
  BY <1>2, <1>5, <1>6 DEF PagesInv, TablesHandedOut, ClonesShare

\* init() maps the boot pages to themselves and leaves the invariant true.
LEMMA PagesInit ==
    ASSUME V!Init
    PROVE  /\ PagesInv
           /\ \A v \in V!Pages : V!VirtToPhys(v) = IF v < IdentityPages THEN v ELSE NoEntry
<1>1. /\ IdentityPages \in Nat \ {0} /\ IdentityPages <= MaxTables * PerTable
      /\ 0 .. IdentityPages - 1 \subseteq Phys
  BY KernelMemoryAssumption, TableSizes DEF V!VmmConstants, Phys
<1>2. PICK n : n = (IdentityPages + PerTable - 1) \div PerTable
  OBVIOUS
<1>3. n \in 0 .. MaxTables /\ IdentityPages <= PerTable * n
  <2>1. PICK r : r = (IdentityPages + PerTable - 1) % PerTable
    OBVIOUS
  <2>2. n \in Int /\ r \in 0 .. PerTable - 1 /\ IdentityPages + PerTable - 1 = PerTable * n + r
    BY <1>1, <1>2, <2>1, TableSizes
  <2>3. IdentityPages <= PerTable * n
    BY <1>1, <2>2, TableSizes
  <2>4. n >= 0
    <3>1. n <= -1 => PerTable * (-1 - n) >= 0
      BY <2>2, TableSizes
    <3> QED
      BY <1>1, <2>2, <2>3, <3>1, TableSizes
  <2>5. n <= MaxTables
    <3>1. n >= MaxTables + 1 => PerTable * (n - MaxTables - 1) >= 0
      BY <2>2, TableSizes
    <3>2. PerTable * (n - MaxTables - 1) = PerTable * n - PerTable * MaxTables - PerTable
      BY <2>2, TableSizes
    <3> QED
      BY <1>1, <2>2, <3>1, <3>2, TableSizes
  <2> QED
    BY <2>2, <2>3, <2>4, <2>5
<1>4. /\ dirs = [s \in Clones \cup {"kernel"} |->
                   IF s = "kernel"
                   THEN [d \in DirSlots |-> IF d < n THEN V!Entry(d, FALSE) ELSE NoEntry]
                   ELSE NoEntry]
      /\ tables = [k \in V!Tables |-> [t \in TblSlots |->
                     IF k * PerTable + t < IdentityPages
                     THEN V!Entry(k * PerTable + t, FALSE) ELSE NoEntry]]
      /\ tableFor = [d \in DirSlots |-> IF d < n THEN d ELSE NoEntry]
      /\ inUse = n /\ paging = FALSE /\ cr3 = "kernel" /\ tlb = {}
  BY <1>2, TableSizes DEF V!Init, DirSlots, TblSlots
<1>5. \A d \in DirSlots : d < n =>
        /\ d \in V!Tables /\ d # NoEntry /\ V!Entry(d, FALSE) \in Pde
        /\ V!Entry(d, FALSE) # NoEntry /\ V!Entry(d, FALSE).frame = d
  <2> SUFFICES ASSUME NEW d \in DirSlots, d < n
               PROVE  /\ d \in V!Tables /\ d # NoEntry /\ V!Entry(d, FALSE) \in Pde
                      /\ V!Entry(d, FALSE) # NoEntry /\ V!Entry(d, FALSE).frame = d
    BY Zenon
  <2>1. d \in V!Tables
    BY <1>3, TableSizes DEF DirSlots
  <2>2. d # NoEntry /\ V!Entry(d, FALSE) # NoEntry
    BY Zenon, <2>1, TableSizes
  <2>3. V!Entry(d, FALSE) \in Pde /\ V!Entry(d, FALSE).frame = d
    BY <2>1 DEF V!Entry, Pde
  <2> QED
    BY Zenon, <2>1, <2>2, <2>3
<1>6. \A k \in V!Tables, t \in TblSlots : k * PerTable + t < IdentityPages =>
        /\ k * PerTable + t \in Phys /\ V!Entry(k * PerTable + t, FALSE) \in Pte
        /\ V!Entry(k * PerTable + t, FALSE) # NoEntry
        /\ V!Entry(k * PerTable + t, FALSE).frame = k * PerTable + t
  <2> SUFFICES ASSUME NEW k \in V!Tables, NEW t \in TblSlots, NEW a, a = k * PerTable + t,
                      a < IdentityPages
               PROVE  a \in Phys /\ V!Entry(a, FALSE) \in Pte /\ V!Entry(a, FALSE) # NoEntry
                      /\ V!Entry(a, FALSE).frame = a
    BY Zenon
  <2>1. a \in Nat
    BY TableSizes DEF TblSlots
  <2>2. a \in Phys
    BY <1>1, <2>1
  <2> QED
    BY Zenon, <2>2, TableSizes DEF V!Entry, Pte
<1>7. tables \in [V!Tables -> [TblSlots -> Pte]]
  BY Zenon, <1>4, <1>6 DEF Pte
<1>8. dirs \in [Clones \cup {"kernel"} -> Dir \cup {NoEntry}] /\ dirs["kernel"] \in Dir
  BY Zenon, <1>4, <1>5 DEF Dir, Pde
<1>9. Typed
  BY Zenon, <1>3, <1>4, <1>5, <1>7, <1>8 DEF Typed, InMemory
<1>10. TablesHandedOut
  BY Zenon, <1>4, <1>5 DEF TablesHandedOut
<1>11. ClonesShare
  BY Zenon, <1>4, TableSizes DEF ClonesShare
<1>12. PagesInv
  BY <1>4, <1>9, <1>10, <1>11 DEF PagesInv, V!NoStaleTlb
<1>13. ASSUME NEW v \in V!Pages
       PROVE  V!VirtToPhys(v) = IF v < IdentityPages THEN v ELSE NoEntry
  <2>1. PICK d \in DirSlots, t \in TblSlots :
          d = V!DirIndex(v) /\ t = V!TblIndex(v) /\ v = PerTable * d + t
    BY Slots
  <2>2. CASE d < n
    <3>1. tableFor[d] = d /\ d # NoEntry /\ d \in V!Tables
      BY Zenon, <1>4, <1>5, <2>2
    <3>2. tables[d][t] = IF d * PerTable + t < IdentityPages
                         THEN V!Entry(d * PerTable + t, FALSE) ELSE NoEntry
      BY <1>4, <3>1
    <3>3. d * PerTable + t = v
      BY <2>1, TableSizes DEF DirSlots, TblSlots
    <3>4. tables[d][t] = (IF v < IdentityPages THEN V!Entry(v, FALSE) ELSE NoEntry)
          /\ (v < IdentityPages => V!Entry(v, FALSE) # NoEntry /\ V!Entry(v, FALSE).frame = v)
      BY Zenon, <1>6, <3>1, <3>2, <3>3
    <3> QED
      BY Zenon, <2>1, <3>1, <3>4 DEF V!VirtToPhys
  <2>3. CASE ~(d < n)
    <3>1. PerTable * (d - n) >= 0
      BY <1>3, <2>3, TableSizes DEF DirSlots
    <3>2. PerTable * (d - n) = PerTable * d - PerTable * n /\ PerTable * d \in Int /\ PerTable * n \in Int
      BY <1>3, TableSizes DEF DirSlots
    <3>3. ~(v < IdentityPages)
      <4>1. t \in Int /\ t >= 0
        BY TableSizes DEF TblSlots
      <4> QED
        BY <1>1, <1>3, <2>1, <3>1, <3>2, <4>1
    <3> QED
      BY <1>4, <2>1, <2>3, <3>3 DEF V!VirtToPhys
  <2> QED
    BY <2>2, <2>3
<1> QED
  BY <1>12, <1>13

\* A step that leaves tables and tableFor alone leaves every translation alone.
LEMMA SameTables ==
    ASSUME UNCHANGED <<tables, tableFor>>
    PROVE  \A v \in V!Pages : V!VirtToPhys(v)' = V!VirtToPhys(v)
BY DEF V!VirtToPhys

\* Every step keeps the invariant of the page tables.
LEMMA PagesNext == PagesInv /\ [V!Next]_(V!vars) => PagesInv'
<1> SUFFICES ASSUME PagesInv, [V!Next]_(V!vars) PROVE PagesInv'
  OBVIOUS
<1>1. CASE V!EnablePaging
  BY <1>1, LoadCr3Keeps, TableSizes
<1>2. ASSUME NEW v \in V!Pages, NEW f \in Phys, NEW user \in Users, V!MapPage(v, f, user)
      PROVE  PagesInv'
  BY <1>2, MapPageKeeps, TableSizes
<1>3. ASSUME NEW v \in V!Pages, V!UnmapPage(v) PROVE PagesInv'
  BY <1>3, UnmapPageKeeps
<1>4. ASSUME NEW s \in Clones, V!CreateClone(s) PROVE PagesInv'
  BY <1>4, CreateCloneKeeps
<1>5. ASSUME NEW s \in V!Spaces, V!SwitchAddressSpace(s) PROVE PagesInv'
  BY <1>5, LoadCr3Keeps
<1>6. ASSUME NEW v \in V!Pages, V!TlbFill(v) PROVE PagesInv'
  BY <1>6, TlbFillKeeps
<1>7. CASE UNCHANGED V!vars
  BY Zenon, <1>7 DEF V!vars, PagesInv, Typed, InMemory, TablesHandedOut, ClonesShare, V!NoStaleTlb, V!Walk
<1> QED
  BY <1>1, <1>2, <1>3, <1>4, <1>5, <1>6, <1>7 DEF V!Next, Phys

\* The directories and tables stay in order whatever map_page, unmap_page,
\* create_kernel_clone_address_space and switch_address_space are asked to do.
THEOREM PagesInductive == V!Spec => []PagesInv
<1>1. V!Init => PagesInv
  BY PagesInit
<1> QED
  BY <1>1, PagesNext, PTL DEF V!Spec

\* virt_to_phys, the MMU in whatever directory and its TLB give a page the same
\* frame, for any number of tables and processes, also once alloc_page_table
\* has no table left.
THEOREM TranslationsAlwaysAgree == V!Spec => []V!TranslationsAgree
BY PagesInductive, PagesInvImplies, PTL

\* Through virt_to_phys the tables are one map of pages, in which map_page and
\* unmap_page change their page and no other: Vmm implements PageMap.
THEOREM TablesImplementMap == V!Spec => V!PageMapSpec
<1>1. ASSUME V!Init PROVE V!PM!PMInit
  <2>1. \A v \in V!Pages : v < IdentityPages <=> v \in 0 .. IdentityPages - 1
    BY KernelMemoryAssumption DEF V!Pages, V!VmmConstants
  <2>2. \A v \in V!Pages : V!VirtToPhys(v) = IF v \in 0 .. IdentityPages - 1 THEN v ELSE NoEntry
    BY <1>1, <2>1, PagesInit
  <2> QED
    BY <2>2 DEF V!PM!PMInit, V!MapNow
<1>2. ASSUME NEW v \in V!Pages, NEW x, V!VirtToPhys(v)' = x,
             \A w \in V!Pages : w # v => V!VirtToPhys(w)' = V!VirtToPhys(w)
      PROVE  V!MapNow' = [V!MapNow EXCEPT ![v] = x]
  BY Zenon, <1>2 DEF V!MapNow
<1>3. ASSUME UNCHANGED <<tables, tableFor>> PROVE UNCHANGED V!MapNow
  BY <1>3, SameTables DEF V!MapNow
<1>4. ASSUME PagesInv, [V!Next]_(V!vars) PROVE [V!PM!PMNext]_(V!MapNow)
  <2>1. ASSUME NEW v \in V!Pages, NEW f \in Phys, NEW user \in Users, V!MapPage(v, f, user)
        PROVE  V!PM!PMNext
    <3>1. V!MapNow' = [V!MapNow EXCEPT ![v] = f]
      BY <1>2, <1>4, <2>1, MapPageKeeps, TableSizes
    <3> QED
      BY Zenon, <3>1 DEF V!PM!PMNext, V!PM!PMMap, Phys
  <2>2. ASSUME NEW v \in V!Pages, V!UnmapPage(v) PROVE V!PM!PMNext
    <3>1. V!MapNow' = [V!MapNow EXCEPT ![v] = NoEntry]
      BY <1>2, <1>4, <2>2, UnmapPageKeeps
    <3>2. V!MapNow[v] # NoEntry
      BY <2>2 DEF V!UnmapPage, V!MapNow
    <3> QED
      BY Zenon, <3>1, <3>2 DEF V!PM!PMNext, V!PM!PMUnmap
  <2>3. CASE V!EnablePaging
    BY <1>3, <2>3 DEF V!EnablePaging
  <2>4. ASSUME NEW s \in Clones, V!CreateClone(s) PROVE UNCHANGED V!MapNow
    BY <1>3, <2>4 DEF V!CreateClone
  <2>5. ASSUME NEW s \in V!Spaces, V!SwitchAddressSpace(s) PROVE UNCHANGED V!MapNow
    BY <1>3, <2>5 DEF V!SwitchAddressSpace
  <2>6. ASSUME NEW v \in V!Pages, V!TlbFill(v) PROVE UNCHANGED V!MapNow
    BY <1>3, <2>6 DEF V!TlbFill
  <2>7. CASE UNCHANGED V!vars
    BY <1>3, <2>7 DEF V!vars
  <2> QED
    BY <1>4, <2>1, <2>2, <2>3, <2>4, <2>5, <2>6, <2>7 DEF V!Next, Phys
<1> QED
  BY <1>1, <1>4, PagesInductive, PTL DEF V!Spec, V!PageMapSpec, V!PM!PMSpec
=============================================================================
