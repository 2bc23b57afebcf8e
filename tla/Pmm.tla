-------------------------------- MODULE Pmm --------------------------------
(***************************************************************************)
(* The physical frame allocator: kernel/mm/pmm.cpp.                        *)
(*                                                                         *)
(* The bitmap is the set of its clear bits.  init() is one step per entry  *)
(* of the Multiboot2 memory map (map_visitor), in any order, and one for   *)
(* the two reserve_range calls that follow.  Addresses are 32-bit: there   *)
(* are exactly MaxFrames * PageSize of them; the entries of the map are    *)
(* 64-bit.  ram and owned are history: what the map declared available and *)
(* what the callers of alloc_frame hold.                                   *)
(***************************************************************************)
EXTENDS Integers, FiniteSets, Scan

CONSTANTS
    MaxFrames,      \* kMaxFrames
    PageSize,       \* kPageSize
    WideMod,        \* 2^64: base and length of a map entry are uint64_t
    LowEnd,         \* kLowMemoryReserveEnd
    Kernels,        \* where the kernel image may lie: pairs <<start, end>>
    Entries,        \* memory map entries, [base, length, type]
    MaxEntries      \* bound on the entries of a memory map

AddrMod == MaxFrames * PageSize
Frames == 0 .. MaxFrames - 1
Available == 1

ASSUME PmmAssumption ==
    /\ MaxFrames \in Nat \ {0}
    /\ PageSize \in Nat \ {0}
    /\ WideMod \in Nat /\ AddrMod < WideMod
    /\ LowEnd \in 1 .. AddrMod - PageSize
    /\ Kernels \subseteq (0 .. AddrMod - PageSize) \X (0 .. AddrMod - PageSize)
    /\ \A k \in Kernels : k[1] < k[2]
    /\ Entries \subseteq [base : 0 .. WideMod - 1, length : 0 .. WideMod - 1, type : Nat]
    /\ MaxEntries \in Nat

VARIABLES
    clear,      \* the frames whose bit in g_bitmap is clear
    free,       \* g_free_frames
    kernel,     \* kernel_start and kernel_end
    phase,      \* inside init(), or past it
    ram,        \* the entries visited
    owned       \* the frames callers hold

vars == <<clear, free, kernel, phase, ram, owned>>

-----------------------------------------------------------------------------
AlignDown(value) == value - (value % PageSize)

\* Mutant: rounds down.
AlignUpShort(value) == AlignDown(value)

\* In 32-bit arithmetic: an address inside the last page wraps to 0.
AlignUp(value) == AlignDown((value + PageSize - 1) % AddrMod)

\* The frames that the loops of reserve_range and unreserve_range visit.
FramesOf(start, end) ==
    {f \in Frames : AlignDown(start) <= f * PageSize /\ f * PageSize < AlignUp(end)}

Init ==
    /\ clear = {}
    /\ free = 0
    /\ kernel \in Kernels
    /\ phase = "map"
    /\ ram = {}
    /\ owned = {}

\* map_visitor's view of an entry: the end is cut at the last page below 4 GiB.
EntryEnd(e) ==
    LET end == (e.base + e.length) % WideMod
    IN IF end >= AddrMod THEN AddrMod - PageSize ELSE end

\* Mutant: an entry smaller than a page is skipped.
UsableWholePages(e) ==
    /\ e.type = Available /\ e.length >= PageSize
    /\ e.base < AddrMod
    /\ EntryEnd(e) > e.base

Usable(e) ==
    /\ e.type = Available /\ e.length # 0
    /\ e.base < AddrMod
    /\ EntryEnd(e) > e.base

\* Mutant: g_free_frames counts a frame again when two entries share it.
MapVisitorCountsAll(e) ==
    /\ phase = "map" /\ Cardinality(ram) < MaxEntries
    /\ ram' = ram \cup {e}
    /\ IF Usable(e)
       THEN LET range == FramesOf(e.base, EntryEnd(e))
            IN /\ clear' = clear \cup range
               /\ free' = free + Cardinality(range)
       ELSE UNCHANGED <<clear, free>>
    /\ UNCHANGED <<kernel, phase, owned>>

\* map_visitor: unreserve_range clears the bits that are set, counting each.
MapVisitor(e) ==
    /\ phase = "map" /\ Cardinality(ram) < MaxEntries
    /\ ram' = ram \cup {e}
    /\ IF Usable(e)
       THEN LET range == FramesOf(e.base, EntryEnd(e))
            IN /\ clear' = clear \cup range
               /\ free' = free + Cardinality(range \ clear)
       ELSE UNCHANGED <<clear, free>>
    /\ UNCHANGED <<kernel, phase, owned>>

\* set_bit never takes the counter below zero.
Minus(n, k) == IF n >= k THEN n - k ELSE 0

\* The end of init(): the first MiB and the kernel's image.
ReserveFixed ==
    LET low == FramesOf(0, LowEnd)
        image == FramesOf(kernel[1], kernel[2])
    IN /\ phase = "map"
       /\ phase' = "ready"
       /\ clear' = (clear \ low) \ image
       /\ free' = Minus(Minus(free, Cardinality(clear \cap low)),
                        Cardinality((clear \ low) \cap image))
       /\ UNCHANGED <<kernel, ram, owned>>

\* alloc_frame: the lowest clear frame.  When the counter is 0, or no bit is
\* clear, it returns 0 and changes nothing.
AllocFrame ==
    /\ phase = "ready"
    /\ free # 0 /\ clear # {}
    /\ clear' = clear \ {First(clear)}
    /\ free' = Minus(free, 1)
    /\ owned' = owned \cup {First(clear)}
    /\ UNCHANGED <<kernel, phase, ram>>

\* free_frame; an address that is not a frame's is ignored.
FreeFrame(addr) ==
    /\ phase = "ready"
    /\ addr % PageSize = 0
    /\ clear' = clear \cup {addr \div PageSize}
    /\ free' = IF addr \div PageSize \in clear THEN free ELSE free + 1
    /\ owned' = owned \ {addr \div PageSize}
    /\ UNCHANGED <<kernel, phase, ram>>

\* Callers free what they hold (heap.cpp, map_next_heap_page).
Next ==
    \/ \E e \in Entries : MapVisitor(e)
    \/ ReserveFixed
    \/ AllocFrame
    \/ \E f \in owned : FreeFrame(f * PageSize)

Spec == Init /\ [][Next]_vars

-----------------------------------------------------------------------------
\* Every variable keeps its type.
TypeOK ==
    /\ clear \in SUBSET Frames
    /\ free \in Nat
    /\ kernel \in Kernels
    /\ phase \in {"map", "ready"}
    /\ ram \in SUBSET Entries
    /\ owned \in SUBSET Frames

\* g_free_frames is the number of clear bits, although overlapping map entries
\* clear a bit twice and overlapping reservations set one twice: alloc_frame,
\* which trusts it, neither fails early nor scans a full bitmap.
FreeCountExact == free = Cardinality(clear)

Overlaps(f, start, end) == f * PageSize < end /\ start < (f + 1) * PageSize

\* A frame is never in the pool and in a caller's hands, so no two callers get
\* the same one.
NoFrameShared == clear \cap owned = {}

\* Only frames that hold some RAM are handed out, and never frame 0 (whose
\* address means failure), one below 1 MiB or one the kernel's image touches.
OnlyUsableFrames ==
    phase = "ready" => \A f \in clear \cup owned :
      /\ \E e \in ram : e.type = Available /\ Overlaps(f, e.base, e.base + e.length)
      /\ f # 0 /\ ~Overlaps(f, 0, LowEnd)
      /\ ~Overlaps(f, kernel[1], kernel[2])

\* The rounding of map_visitor loses no frame: each one a map entry touches is
\* in the pool or with a caller, unless it is reserved, when the entry ends
\* before the last page of the 4 GiB.
NoUsableFrameLost ==
    phase = "ready" => \A e \in ram, f \in Frames :
      /\ e.type = Available /\ e.base + e.length <= AddrMod - PageSize
      /\ Overlaps(f, e.base, e.base + e.length)
      /\ e.length # 0
      /\ f \notin FramesOf(0, LowEnd) \cup FramesOf(kernel[1], kernel[2])
      => f \in clear \cup owned

\* The pool is exactly the RAM that may be used, and its count is exact.
PoolExact == FreeCountExact /\ OnlyUsableFrames /\ NoUsableFrameLost

\* Once init() is done, frames move between the pool and the callers and none
\* appears or disappears.
PoolConserved ==
    [][phase = "ready" => clear' \cup owned' = clear \cup owned]_vars

=============================================================================
