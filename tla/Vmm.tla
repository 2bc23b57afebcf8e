-------------------------------- MODULE Vmm --------------------------------
(***************************************************************************)
(* Virtual memory: kernel/mm/vmm.cpp.  One page directory for the kernel,  *)
(* a fixed set of page tables handed out in order and never taken back,    *)
(* and copies of the directory for the other processes.  The MMU is        *)
(* external: it walks the directory that cr3 names and may keep any        *)
(* translation it has found in the TLB until invlpg or a load of cr3.      *)
(***************************************************************************)
EXTENDS Integers, FiniteSets

CONSTANTS
    Dirs,           \* number of page directory entries (kPageEntries)
    PerTable,       \* number of page table entries (kPageEntries)
    MaxTables,      \* kMaxTables
    IdentityPages,  \* how many pages init() identity-maps
    Frames,         \* physical frames callers map
    Users,          \* values of map_page's user flag that callers pass
    Clones,         \* processes that may get a directory of their own
    TlbSize,        \* bound: translations the TLB holds at once
    NoEntry         \* an entry that is not present

Pages == 0 .. Dirs * PerTable - 1
Tables == 0 .. MaxTables - 1
Kernel == "kernel"
Spaces == Clones \cup {Kernel}

\* What the constants have to be.
VmmConstants ==
    /\ Dirs \in Nat \ {0} /\ PerTable \in Nat \ {0} /\ MaxTables \in Nat
    /\ IdentityPages \in 1 .. MaxTables * PerTable /\ IdentityPages <= Dirs * PerTable
    /\ 0 .. IdentityPages - 1 \subseteq Frames
    /\ Users \subseteq BOOLEAN
    /\ Kernel \notin Clones
    /\ NoEntry \notin Frames \cup Tables
    /\ NoEntry \notin [frame : Frames \cup Tables, user : BOOLEAN]

VARIABLES
    dirs,       \* the page directories: g_kernel_page_directory and its copies
    tables,     \* g_page_tables
    tableFor,   \* g_table_for_dir
    inUse,      \* g_tables_in_use
    paging,     \* g_paging_enabled
    cr3,        \* g_current_page_directory, and what the MMU uses
    tlb         \* translations the MMU holds

vars == <<dirs, tables, tableFor, inUse, paging, cr3, tlb>>

-----------------------------------------------------------------------------
DirIndex(virt) == virt \div PerTable
TblIndex(virt) == virt % PerTable

EmptyTable == [t \in 0 .. PerTable - 1 |-> NoEntry]

Entry(f, user) == [frame |-> f, user |-> user]

\* virt_to_phys: through g_table_for_dir.
VirtToPhys(virt) ==
    IF tableFor[DirIndex(virt)] = NoEntry THEN NoEntry
    ELSE LET pte == tables[tableFor[DirIndex(virt)]][TblIndex(virt)]
         IN IF pte = NoEntry THEN NoEntry ELSE pte.frame

\* The MMU's walk: user access needs the flag at both levels.
Walk(dir, virt) ==
    LET pde == dir[DirIndex(virt)]
    IN IF pde = NoEntry THEN NoEntry
       ELSE LET pte == tables[pde.frame][TblIndex(virt)]
            IN IF pte = NoEntry THEN NoEntry
               ELSE Entry(pte.frame, pde.user /\ pte.user)

\* invlpg, skipped as long as paging is off.
FlushTlbEntry(virt) ==
    tlb' = IF paging THEN {e \in tlb : e.virt # virt} ELSE tlb

\* init(): the loop of map_page calls fills the first tables in order.
Init ==
    LET n == (IdentityPages + PerTable - 1) \div PerTable
        kernelDir == [d \in 0 .. Dirs - 1 |-> IF d < n THEN Entry(d, FALSE) ELSE NoEntry]
    IN /\ dirs = [s \in Spaces |-> IF s = Kernel THEN kernelDir ELSE NoEntry]
       /\ tables = [k \in Tables |->
                      [t \in 0 .. PerTable - 1 |->
                         IF k * PerTable + t < IdentityPages
                         THEN Entry(k * PerTable + t, FALSE) ELSE NoEntry]]
       /\ tableFor = [d \in 0 .. Dirs - 1 |-> IF d < n THEN d ELSE NoEntry]
       /\ inUse = n
       /\ paging = FALSE
       /\ cr3 = Kernel
       /\ tlb = {}

\* Mutant: the table handed out is the last one handed out before.
NextTableStale == inUse - 1

\* alloc_page_table
NextTable == inUse

\* Mutant: the new table is entered in the directory in use, not the kernel's.
MapPageCurrentDir(virt, f, user) ==
    LET d == DirIndex(virt)
        fresh == tableFor[d] = NoEntry
        k == IF fresh THEN NextTable ELSE tableFor[d]
        table == IF fresh THEN EmptyTable ELSE tables[k]
    IN /\ fresh => inUse < MaxTables
       /\ inUse' = IF fresh THEN inUse + 1 ELSE inUse
       /\ tableFor' = [tableFor EXCEPT ![d] = k]
       /\ dirs' = IF fresh THEN [dirs EXCEPT ![cr3][d] = Entry(k, user)] ELSE dirs
       /\ tables' = [tables EXCEPT ![k] = [table EXCEPT ![TblIndex(virt)] = Entry(f, user)]]
       /\ FlushTlbEntry(virt)
       /\ UNCHANGED <<paging, cr3>>

\* Mutant: invlpg is forgotten when a page is mapped.
MapPageNoFlush(virt, f, user) ==
    LET d == DirIndex(virt)
        fresh == tableFor[d] = NoEntry
        k == IF fresh THEN NextTable ELSE tableFor[d]
        table == IF fresh THEN EmptyTable ELSE tables[k]
    IN /\ fresh => inUse < MaxTables
       /\ inUse' = IF fresh THEN inUse + 1 ELSE inUse
       /\ tableFor' = [tableFor EXCEPT ![d] = k]
       /\ dirs' = IF fresh THEN [dirs EXCEPT ![Kernel][d] = Entry(k, user)] ELSE dirs
       /\ tables' = [tables EXCEPT ![k] = [table EXCEPT ![TblIndex(virt)] = Entry(f, user)]]
       /\ UNCHANGED <<paging, cr3, tlb>>

\* map_page.  A directory entry gets its flags from the first page mapped
\* under it, and only the kernel's directory gets the entry.  With no table
\* left the call fails and changes nothing.
MapPage(virt, f, user) ==
    LET d == DirIndex(virt)
        fresh == tableFor[d] = NoEntry
        k == IF fresh THEN NextTable ELSE tableFor[d]
        table == IF fresh THEN EmptyTable ELSE tables[k]
    IN /\ fresh => inUse < MaxTables
       /\ inUse' = IF fresh THEN inUse + 1 ELSE inUse
       /\ tableFor' = [tableFor EXCEPT ![d] = k]
       /\ dirs' = IF fresh THEN [dirs EXCEPT ![Kernel][d] = Entry(k, user)] ELSE dirs
       /\ tables' = [tables EXCEPT ![k] = [table EXCEPT ![TblIndex(virt)] = Entry(f, user)]]
       /\ FlushTlbEntry(virt)
       /\ UNCHANGED <<paging, cr3>>

\* unmap_page; a page that is not mapped is left alone.
UnmapPage(virt) ==
    /\ VirtToPhys(virt) # NoEntry
    /\ tables' = [tables EXCEPT ![tableFor[DirIndex(virt)]][TblIndex(virt)] = NoEntry]
    /\ FlushTlbEntry(virt)
    /\ UNCHANGED <<dirs, tableFor, inUse, paging, cr3>>

EnablePaging ==
    /\ ~paging
    /\ paging' = TRUE
    /\ cr3' = Kernel
    /\ tlb' = {}
    /\ UNCHANGED <<dirs, tables, tableFor, inUse>>

\* Mutant: the copy has tables of its own for what is not mapped yet.
CreateCloneFilled(s) ==
    /\ paging /\ dirs[s] = NoEntry
    /\ dirs' = [dirs EXCEPT ![s] = [d \in 0 .. Dirs - 1 |->
                   IF dirs[Kernel][d] = NoEntry /\ MaxTables > 0
                   THEN Entry(MaxTables - 1, FALSE) ELSE dirs[Kernel][d]]]
    /\ UNCHANGED <<tables, tableFor, inUse, paging, cr3, tlb>>

\* create_kernel_clone_address_space
CreateClone(s) ==
    /\ paging /\ dirs[s] = NoEntry
    /\ dirs' = [dirs EXCEPT ![s] = dirs[Kernel]]
    /\ UNCHANGED <<tables, tableFor, inUse, paging, cr3, tlb>>

\* switch_address_space, to the kernel's or to a process's directory.
SwitchAddressSpace(s) ==
    /\ dirs[s] # NoEntry
    /\ cr3' = s
    /\ tlb' = {}
    /\ paging' = TRUE
    /\ UNCHANGED <<dirs, tables, tableFor, inUse>>

\* The MMU uses, and keeps, the translation of a page.
TlbFill(virt) ==
    /\ paging /\ Walk(dirs[cr3], virt) # NoEntry
    /\ Cardinality(tlb) < TlbSize
    /\ tlb' = tlb \cup {[virt |-> virt, entry |-> Walk(dirs[cr3], virt)]}
    /\ UNCHANGED <<dirs, tables, tableFor, inUse, paging, cr3>>

Next ==
    \/ EnablePaging
    \/ \E virt \in Pages, f \in Frames, user \in Users : paging /\ MapPage(virt, f, user)
    \/ \E virt \in Pages : paging /\ UnmapPage(virt)
    \/ \E s \in Clones : CreateClone(s)
    \/ \E s \in Spaces : paging /\ SwitchAddressSpace(s)
    \/ \E virt \in Pages : TlbFill(virt)

Spec == Init /\ [][Next]_vars

-----------------------------------------------------------------------------
\* Every variable keeps its type.
TypeOK ==
    LET pte == [frame : Frames, user : BOOLEAN] \cup {NoEntry}
        pde == [frame : Tables, user : BOOLEAN] \cup {NoEntry}
    IN /\ dirs \in [Spaces -> [0 .. Dirs - 1 -> pde] \cup {NoEntry}]
       /\ tables \in [Tables -> [0 .. PerTable - 1 -> pte]]
       /\ tableFor \in [0 .. Dirs - 1 -> Tables \cup {NoEntry}]
       /\ inUse \in 0 .. MaxTables
       /\ paging \in BOOLEAN
       /\ cr3 \in Spaces
       /\ \A e \in tlb : e.virt \in Pages /\ e.entry \in pte \ {NoEntry}

\* virt_to_phys, which walks the kernel's own bookkeeping and feeds cr3 and the
\* drivers' DMA addresses, agrees with the MMU's walk of the kernel directory.
WalkAgrees ==
    \A virt \in Pages :
      LET e == Walk(dirs[Kernel], virt)
      IN VirtToPhys(virt) = IF e = NoEntry THEN NoEntry ELSE e.frame

\* A process's directory never maps a page to another frame, or with other
\* rights, than the kernel's does now: although it is a copy made once, it
\* shares the tables.  (It may lack tables that were handed out later.)
CloneNeverDiverges ==
    \A s \in Clones, virt \in Pages :
      dirs[s] # NoEntry => Walk(dirs[s], virt) \in {NoEntry, Walk(dirs[Kernel], virt)}

\* The TLB never holds a translation that the directory in use no longer gives.
NoStaleTlb == \A e \in tlb : Walk(dirs[cr3], e.virt) = e.entry

\* Whoever translates a page finds the same frame, also once the pool of tables
\* is used up: virt_to_phys, the MMU in any directory, and its TLB.
TranslationsAgree == TypeOK /\ WalkAgrees /\ CloneNeverDiverges /\ NoStaleTlb

\* The map of pages that the tables hold.
MapNow == [v \in Pages |-> VirtToPhys(v)]

PM == INSTANCE PageMap WITH map <- MapNow, NoFrame <- NoEntry, Identity <- 0 .. IdentityPages - 1

\* The page tables implement one map of pages (PageMap): mapping or unmapping a
\* page leaves the translation of every other page alone.
PageMapSpec == PM!PMSpec
=============================================================================
