-------------------------------- MODULE Heap --------------------------------
(***************************************************************************)
(* The kernel heap: kernel/mm/heap.cpp and the global operators new and    *)
(* delete (kernel/mm/new_delete.cpp).                                      *)
(*                                                                         *)
(* A live block is what its header records plus the payload returned for   *)
(* it; the free list is a sequence of nodes in list order.  Pages come     *)
(* from map_next_heap_page, which may fail at any page (no frame, no page  *)
(* table): KernelMemory says when.  Requests are too small for an address  *)
(* to pass 2^32, so the guards against a wrapped sum never hold.           *)
(***************************************************************************)
EXTENDS Integers, FiniteSets, Sequences, SequencesExt, FiniteSetsExt, Scan

CONSTANTS
    PageSize,       \* kPageSize
    HeapStart,      \* g_heap_start and g_heap_limit
    HeapLimit,
    HeaderSize,     \* sizeof(HeapHeader)
    NodeSize,       \* sizeof(FreeBlock)
    Requests        \* the sizes and alignments asked for, [size, alignment]

\* What the constants have to be.
HeapConstants ==
    /\ PageSize \in Nat \ {0}
    /\ HeapStart \in Nat /\ HeapStart % PageSize = 0
    /\ HeapLimit \in Nat /\ HeapLimit % PageSize = 0 /\ HeapStart <= HeapLimit
    /\ HeaderSize \in Nat \ {0}
    /\ NodeSize \in Nat \ {0}
    /\ Requests \subseteq [size : Nat \ {0}, alignment : Nat \ {0}]

VARIABLES
    list,       \* g_free_list: nodes [start, size]
    blocks,     \* live blocks [header, payload, size, end, alignment]
    brk,        \* g_heap_break
    mapped,     \* g_heap_mapped_end
    active      \* g_heap_active_bytes

vars == <<list, blocks, brk, mapped, active>>

-----------------------------------------------------------------------------
AlignUp(value, alignment) ==
    ((value + alignment - 1) \div alignment) * alignment

Node(start, size) == [start |-> start, size |-> size]
EndOf(node) == node.start + node.size

\* insert_free_block: after the nodes below it, joined with the one before and
\* the one after when they touch.
InsertFreeBlock(nodes, start, size) ==
    LET k == First({i \in 1 .. Len(nodes) : nodes[i].start >= start} \cup {Len(nodes) + 1}) - 1
        joinPrev == k > 0 /\ EndOf(nodes[k]) = start
        node == IF joinPrev THEN Node(nodes[k].start, nodes[k].size + size) ELSE Node(start, size)
        joinNext == k < Len(nodes) /\ EndOf(node) = nodes[k + 1].start
    IN IF size < NodeSize THEN nodes
       ELSE SubSeq(nodes, 1, IF joinPrev THEN k - 1 ELSE k)
            \o <<IF joinNext THEN Node(node.start, node.size + nodes[k + 1].size) ELSE node>>
            \o SubSeq(nodes, IF joinNext THEN k + 2 ELSE k + 1, Len(nodes))

\* Mutant: the payload is not aligned.
PlaceUnaligned(header, request) ==
    LET payload == header + HeaderSize
    IN [header |-> header, payload |-> payload, size |-> request.size,
        end |-> payload + request.size, alignment |-> request.alignment]

\* A block whose header is at the given place.
Place(header, request) ==
    LET payload == AlignUp(header + HeaderSize, request.alignment)
    IN [header |-> header, payload |-> payload, size |-> request.size,
        end |-> payload + request.size, alignment |-> request.alignment]

\* Mutant: a remainder too small for a node stays outside the block.
CarveTight(node, request) ==
    LET aligned == AlignUp(node.start + HeaderSize, request.alignment)
        first == Place(aligned, request)
        tight == aligned > node.start /\ aligned - node.start < NodeSize
    IN IF first.end > EndOf(node) THEN first
       ELSE IF tight THEN Place(node.start, request) ELSE first

\* Where allocate_from_free_list would put the block in a node: at an aligned
\* header past the node's first HeaderSize bytes, or at the node's start when
\* what is left in front could not be a node; a remainder too small to be a
\* node goes to the block.  The block fits when it ends inside the node.
Carve(node, request) ==
    LET aligned == AlignUp(node.start + HeaderSize, request.alignment)
        first == Place(aligned, request)
        tight == aligned > node.start /\ aligned - node.start < NodeSize
        block == IF tight THEN Place(node.start, request) ELSE first
        rest == EndOf(node) - block.end
    IN IF first.end > EndOf(node) THEN first
       ELSE IF rest > 0 /\ rest < NodeSize THEN [block EXCEPT !.end = EndOf(node)]
       ELSE block

\* The nodes a request fits in.
Fitting(request) ==
    {i \in 1 .. Len(list) : Carve(list[i], request).end <= EndOf(list[i])}

Init ==
    /\ list = <<>>
    /\ blocks = {}
    /\ brk = HeapStart
    /\ mapped = HeapStart
    /\ active = 0

\* Mutant: the node is not unlinked.
AllocateFromFreeListKeepsNode(request) ==
    /\ Fitting(request) # {}
    /\ blocks' = blocks \cup {Carve(list[First(Fitting(request))], request)}
    /\ active' = active + request.size
    /\ UNCHANGED <<list, brk, mapped>>

\* allocate_from_free_list: first fit.
AllocateFromFreeList(request) ==
    /\ Fitting(request) # {}
    /\ LET i == First(Fitting(request))
           block == Carve(list[i], request)
           others == RemoveAt(list, i)
           front == InsertFreeBlock(others, list[i].start, block.header - list[i].start)
       IN /\ list' = InsertFreeBlock(front, block.end, EndOf(list[i]) - block.end)
          /\ blocks' = blocks \cup {block}
          /\ active' = active + request.size
    /\ UNCHANGED <<brk, mapped>>

\* allocate_from_bump's block: its header is past the break by HeaderSize.
BumpBlock(request) == Place(AlignUp(brk + HeaderSize, request.alignment), request)

\* The pages the loop of allocate_from_bump has to map first.
PagesNeeded(request) ==
    IF BumpBlock(request).end <= mapped THEN 0
    ELSE (AlignUp(BumpBlock(request).end, PageSize) - mapped) \div PageSize

\* Pages mapped before one fails stay mapped.
AllocateFromBump(request, pages) ==
    /\ Fitting(request) = {}
    /\ BumpBlock(request).end <= HeapLimit
    /\ pages \in 0 .. PagesNeeded(request)
    /\ mapped' = mapped + pages * PageSize
    /\ IF pages < PagesNeeded(request) THEN UNCHANGED <<blocks, brk, active>>
       ELSE /\ blocks' = blocks \cup {BumpBlock(request)}
            /\ brk' = BumpBlock(request).end
            /\ active' = active + request.size
    /\ UNCHANGED list

\* free: the header is looked for right in front of the payload.
Free(b) ==
    /\ b.payload - HeaderSize = b.header
    /\ blocks' = blocks \ {b}
    /\ active' = IF active >= b.size THEN active - b.size ELSE 0
    /\ list' = InsertFreeBlock(list, b.header, b.end - b.header)
    /\ UNCHANGED <<brk, mapped>>

\* operator delete is called for what operator new returned, aligned to
\* HeaderSize; blocks with larger alignments are never freed.
Deletable(b) == b.alignment <= HeaderSize

Alloc(request) ==
    \/ AllocateFromFreeList(request)
    \/ \E pages \in 0 .. (HeapLimit - HeapStart) \div PageSize : AllocateFromBump(request, pages)

Next ==
    \/ \E request \in Requests : Alloc(request)
    \/ \E b \in blocks : Deletable(b) /\ Free(b)

Spec == Init /\ [][Next]_vars

-----------------------------------------------------------------------------
\* Every variable keeps its type.
TypeOK ==
    /\ list \in Seq([start : Nat, size : Nat])
    /\ \A b \in blocks :
         b \in [header : Nat, payload : Nat, size : Nat, end : Nat, alignment : Nat]
    /\ brk \in HeapStart .. HeapLimit
    /\ mapped \in HeapStart .. HeapLimit
    /\ active \in Nat

Bytes(from, to) == from .. to - 1
BlockBytes(b) == Bytes(b.header, b.end)
NodeBytes(n) == Bytes(n.start, EndOf(n))

\* Live blocks and free nodes never overlap and lie below the break, in mapped
\* pages: no allocation is ever written through another one or through the
\* free list.
BlocksDisjoint ==
    /\ \A b, c \in blocks : b # c => BlockBytes(b) \cap BlockBytes(c) = {}
    /\ \A b \in blocks, i \in 1 .. Len(list) : BlockBytes(b) \cap NodeBytes(list[i]) = {}
    /\ \A i, j \in 1 .. Len(list) : i # j => NodeBytes(list[i]) \cap NodeBytes(list[j]) = {}
    /\ \A b \in blocks : BlockBytes(b) \subseteq Bytes(HeapStart, brk)
    /\ \A i \in 1 .. Len(list) : NodeBytes(list[i]) \subseteq Bytes(HeapStart, brk)
    /\ brk <= mapped

\* What a caller gets is aligned, behind the header and within the block, and
\* free finds the header of every block that can be deleted.
PayloadFits ==
    \A b \in blocks :
      /\ b.payload % b.alignment = 0
      /\ b.header + HeaderSize <= b.payload /\ b.payload + b.size <= b.end
      /\ Deletable(b) => b.payload - HeaderSize = b.header

\* The free list is in address order, its nodes never touch (neighbours are
\* always joined) and each is large enough to hold a node.
FreeListCoalesced ==
    /\ \A i \in 1 .. Len(list) - 1 : EndOf(list[i]) < list[i + 1].start
    /\ \A i \in 1 .. Len(list) : list[i].size >= NodeSize

\* used_bytes is the sum of the live payloads.
ActiveBytesExact == active = MapThenSumSet(LAMBDA b : b.size, blocks)

\* After any sequence of allocations and frees, also ones that failed half way,
\* blocks and free nodes are apart, payloads are aligned and in their blocks, the
\* list is sorted and joined, and the count that heap::used_bytes reports is the
\* one of the live payloads.
HeapWellFormed ==
    TypeOK /\ BlocksDisjoint /\ PayloadFits /\ FreeListCoalesced /\ ActiveBytesExact

Held == UNION ({BlockBytes(b) : b \in blocks} \cup {NodeBytes(n) : n \in ToSet(list)})

\* A byte that was once in a block stays in a live block or in the free list:
\* splitting, joining and freeing lose nothing.
NoBytesLost == [][Held \subseteq Held']_vars
=============================================================================
