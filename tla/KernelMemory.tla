---------------------------- MODULE KernelMemory ----------------------------
(***************************************************************************)
(* The three memory managers together, as kmain() starts them: Pmm hands   *)
(* frames to the kernel heap, which grows one page at a time by mapping    *)
(* them with Vmm; drivers take heap pages and map device registers over    *)
(* them; process directories live on heap pages.  How the heap divides its *)
(* pages into blocks is module Heap; here a page has one use.              *)
(***************************************************************************)
EXTENDS Pmm

CONSTANTS
    Dirs, PerTable, MaxTables, IdentityPages, Users, Clones, TlbSize, NoEntry,  \* Vmm
    HeapStart, HeapLimit,   \* the heap's pages, g_heap_start to g_heap_limit
    Devices                 \* frames of device registers

VARIABLES
    dirs, tables, tableFor, inUse, paging, cr3, tlb,    \* Vmm
    mappedEnd,  \* g_heap_mapped_end
    use,        \* what each heap page is used for
    inHand,     \* the frame that map_next_heap_page is about to map
    tested      \* whether kmain() has asked for its test frame, and got it

V == INSTANCE Vmm WITH Frames <- Frames \cup Devices

ASSUME KernelMemoryAssumption ==
    /\ V!VmmConstants
    /\ HeapStart \in Nat /\ HeapLimit \in Nat
    /\ FALSE \in Users     \* the kernel's own pages are mapped without the user flag
    /\ IdentityPages <= HeapStart /\ HeapStart <= HeapLimit
    /\ HeapLimit <= Dirs * PerTable
    /\ Devices \cap Frames = {}

vmmVars == <<dirs, tables, tableFor, inUse, paging, cr3, tlb>>
heapVars == <<mappedEnd, use, inHand, tested>>
memoryVars == <<vars, vmmVars, heapVars>>

HeapPages == HeapStart .. HeapLimit - 1

-----------------------------------------------------------------------------
HeapInit ==
    /\ mappedEnd = HeapStart
    /\ use = [v \in HeapPages |-> "none"]
    /\ inHand = NoEntry
    /\ tested = "no"

MemoryInit == Init /\ V!Init /\ HeapInit

\* pmm::init(), then vmm::init() and enable_paging().
InitFrames ==
    /\ (\E e \in Entries : MapVisitor(e)) \/ ReserveFixed
    /\ UNCHANGED <<vmmVars, heapVars>>

StartPaging ==
    /\ phase = "ready" /\ V!EnablePaging
    /\ UNCHANGED <<vars, heapVars>>

\* kmain() takes a frame that it never maps or gives back, or gets none.
TakeTestFrame ==
    /\ paging /\ tested = "no"
    /\ \/ AllocFrame /\ tested' = "got"
       \/ free = 0 /\ tested' = "none" /\ UNCHANGED vars
    /\ UNCHANGED <<vmmVars, mappedEnd, use, inHand>>

\* map_next_heap_page, up to alloc_frame.
GrowTake ==
    /\ tested # "no" /\ inHand = NoEntry
    /\ mappedEnd < HeapLimit
    /\ AllocFrame
    /\ inHand' = First(clear)
    /\ UNCHANGED <<vmmVars, mappedEnd, use, tested>>

\* Mutant: g_heap_mapped_end is not moved past the page just mapped.
GrowMapStays ==
    /\ inHand # NoEntry
    /\ V!MapPage(mappedEnd, inHand, FALSE)
    /\ use' = [use EXCEPT ![mappedEnd] = "data"]
    /\ inHand' = NoEntry
    /\ UNCHANGED <<vars, mappedEnd, tested>>

\* Its successful end.
GrowMap ==
    /\ inHand # NoEntry
    /\ V!MapPage(mappedEnd, inHand, FALSE)
    /\ mappedEnd' = mappedEnd + 1
    /\ use' = [use EXCEPT ![mappedEnd] = "data"]
    /\ inHand' = NoEntry
    /\ UNCHANGED <<vars, tested>>

\* Mutant: the frame is dropped when there is no page table for it.
GrowFailLeaks ==
    /\ inHand # NoEntry
    /\ tableFor[V!DirIndex(mappedEnd)] = NoEntry /\ inUse >= MaxTables
    /\ inHand' = NoEntry
    /\ UNCHANGED <<vars, vmmVars, mappedEnd, use, tested>>

\* Mutant: the address given back is one frame off.
GrowFailFreesNext ==
    /\ inHand # NoEntry
    /\ tableFor[V!DirIndex(mappedEnd)] = NoEntry /\ inUse >= MaxTables
    /\ FreeFrame(((inHand + 1) % MaxFrames) * PageSize)
    /\ inHand' = NoEntry
    /\ UNCHANGED <<vmmVars, mappedEnd, use, tested>>

\* map_page has no table left: the frame goes back.
GrowFail ==
    /\ inHand # NoEntry
    /\ tableFor[V!DirIndex(mappedEnd)] = NoEntry /\ inUse >= MaxTables
    /\ FreeFrame(inHand * PageSize)
    /\ inHand' = NoEntry
    /\ UNCHANGED <<vmmVars, mappedEnd, use, tested>>

\* map_physical_region of a driver: one page of a heap block it has taken.
MapPhysicalRegion(v, dev) ==
    /\ inHand = NoEntry /\ use[v] = "data"
    /\ V!MapPage(v, dev, FALSE)
    /\ use' = [use EXCEPT ![v] = "device"]
    /\ UNCHANGED <<vars, mappedEnd, inHand, tested>>

\* A new process's directory, on a heap page of its own.
CreateSpace(s, v) ==
    /\ inHand = NoEntry /\ use[v] = "data"
    /\ V!CreateClone(s)
    /\ use' = [use EXCEPT ![v] = s]
    /\ UNCHANGED <<vars, mappedEnd, inHand, tested>>

\* The timer interrupt switches directories between any two steps of the heap.
Switch(s) ==
    /\ paging /\ s # cr3 /\ V!SwitchAddressSpace(s)
    /\ UNCHANGED <<vars, heapVars>>

MemoryNext ==
    \/ InitFrames \/ StartPaging \/ TakeTestFrame
    \/ GrowTake \/ GrowMap \/ GrowFail
    \/ \E v \in HeapPages, dev \in Devices : MapPhysicalRegion(v, dev)
    \/ \E s \in Clones, v \in HeapPages : CreateSpace(s, v)
    \/ \E s \in V!Spaces : Switch(s)

MemorySpec == MemoryInit /\ [][MemoryNext]_memoryVars

-----------------------------------------------------------------------------
\* Every variable keeps its type.
MemoryTypeOK ==
    /\ V!TypeOK
    /\ mappedEnd \in HeapStart .. HeapLimit
    /\ use \in [HeapPages -> {"none", "data", "device"} \cup Clones]
    /\ inHand \in Frames \cup {NoEntry}
    /\ tested \in {"no", "got", "none"}

\* The kernel uses the frame allocator as its specification has it, giving back
\* only frames it holds, so all that is proved of Pmm holds of the kernel.
UsesPmm == Spec

\* The heap's pages that hold data or directories.
RamPages == {v \in HeapPages : use[v] \notin {"none", "device"}}

\* The heap below g_heap_mapped_end is mapped and nothing above it is; no two
\* of its pages share a frame, and no frame under it, nor the one in hand, is
\* in the pool, where the next alloc_frame would hand it out again.  The directory
\* in use, of whatever process, gives a page the kernel's translation or none.
HeapBacked ==
    /\ MemoryTypeOK
    /\ \A v \in HeapPages : v < mappedEnd <=> V!VirtToPhys(v) # NoEntry
    /\ \A v, w \in RamPages : v # w => V!VirtToPhys(v) # V!VirtToPhys(w)
    /\ \A v \in RamPages : V!VirtToPhys(v) \in owned \ {inHand}
    /\ \A v \in V!Pages : V!Walk(dirs[cr3], v) \in {NoEntry, V!Walk(dirs["kernel"], v)}

\* One frame is taken from the pool for each page the heap grows by, one for
\* the boot test, and a failed growth gives its frame back: memory is not lost
\* by retrying at the page table limit.
FramesAccounted ==
    phase = "ready" =>
      Cardinality(owned) = (mappedEnd - HeapStart)
                           + (IF inHand = NoEntry THEN 0 ELSE 1)
                           + (IF tested = "got" THEN 1 ELSE 0)

=============================================================================
