------------------------------ MODULE MCMemory ------------------------------
(***************************************************************************)
(* The memory managers, as one model: a behaviour is one of the kernel's   *)
(* frames, page tables and heap pages together (KernelMemory), of the page *)
(* tables alone with remapping, user pages and a TLB (Vmm), or of the      *)
(* heap's blocks (Heap).  What a behaviour is not about stays as it began. *)
(***************************************************************************)
EXTENDS KernelMemory, TLC

CONSTANTS
    PagesDirs, PagesTables, PagesFrames, PagesClones, PagesTlb,     \* Vmm alone
    BlockPage, BlockStart, BlockLimit, HeaderSize, NodeSize         \* Heap alone

VARIABLES
    part,
    pDirs, pTables, pTableFor, pInUse, pPaging, pCr3, pTlb,     \* Vmm alone
    list, blocks, brk, mapped, active                           \* Heap alone

pageVars == <<pDirs, pTables, pTableFor, pInUse, pPaging, pCr3, pTlb>>
blockVars == <<list, blocks, brk, mapped, active>>
allVars == <<part, memoryVars, pageVars, blockVars>>

-----------------------------------------------------------------------------
(* Frames of 4 bytes.  Map entries start and end inside pages, overlap,    *)
(* cross the top of the 32-bit range and lie above it; machines with no    *)
(* usable frame up to more than the heap takes.                            *)

Ram(base, length) == [base |-> base, length |-> length, type |-> 1]

MCKernels == {<<5, 10>>, <<8, 12>>}
MCEntries == {Ram(0, 14), Ram(25, 2), Ram(10, 14), Ram(17, 24), Ram(42, 9), Ram(60, 7), Ram(10, 0),
              [base |-> 0, length |-> 14, type |-> 2]}

\* In units of 4 bytes: operator new aligns to 4 units, a page is 16.
MCRequests == [size : {1, 9, 14}, alignment : {4}] \cup [size : {16}, alignment : {16}]

P == INSTANCE Vmm WITH Dirs <- PagesDirs, MaxTables <- PagesTables, Frames <- PagesFrames,
                       Users <- BOOLEAN, Clones <- PagesClones, TlbSize <- PagesTlb,
                       dirs <- pDirs, tables <- pTables, tableFor <- pTableFor, inUse <- pInUse,
                       paging <- pPaging, cr3 <- pCr3, tlb <- pTlb
H == INSTANCE Heap WITH PageSize <- BlockPage, HeapStart <- BlockStart, HeapLimit <- BlockLimit,
                        Requests <- MCRequests

ASSUME MemoryAssumption == P!VmmConstants /\ H!HeapConstants

-----------------------------------------------------------------------------
\* The machine of the behaviours that are not about frames.
OneMachine == kernel = <<5, 10>>

MCInit ==
    /\ part \in {"kernel", "pages", "heap"}
    /\ MemoryInit /\ P!Init /\ H!Init
    /\ part # "kernel" => OneMachine

MCNext ==
    \/ part = "kernel" /\ MemoryNext /\ UNCHANGED <<part, pageVars, blockVars>>
    \/ part = "pages" /\ P!Next /\ UNCHANGED <<part, memoryVars, blockVars>>
    \/ part = "heap" /\ H!Next /\ UNCHANGED <<part, memoryVars, pageVars>>

MCSpec == MCInit /\ [][MCNext]_allVars

-----------------------------------------------------------------------------
\* Whoever translates a page finds the same frame (Vmm).
TranslationsAgree == P!TranslationsAgree

\* Blocks, free list and counters of the heap fit together (Heap).
HeapWellFormed == H!HeapWellFormed

\* No byte of the heap is lost by splitting, joining or freeing (Heap).
NoBytesLost == [][H!Held \subseteq H!Held']_allVars

\* The page tables implement one map of pages (Vmm, PageMap).
PageMapSpec == P!PageMapSpec
=============================================================================
