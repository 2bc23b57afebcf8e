---------------------------- MODULE MemoryProofs ----------------------------
(***************************************************************************)
(* Proofs about Pmm and KernelMemory, for any number of frames, page       *)
(* tables, processes and devices, any memory map and any place of the      *)
(* kernel's image and of its heap.                                         *)
(***************************************************************************)
EXTENDS VmmProofs

-----------------------------------------------------------------------------
(* The frame allocator.                                                    *)

USE PmmAssumption

\* The frame number of a frame's address.
LEMMA FrameOfAddress ==
    ASSUME NEW f \in Nat
    PROVE  (f * PageSize) % PageSize = 0 /\ (f * PageSize) \div PageSize = f
<1>1. PICK q, r : q = (f * PageSize) \div PageSize /\ r = (f * PageSize) % PageSize
  OBVIOUS
<1>2. q \in Int /\ r \in 0 .. PageSize - 1 /\ f * PageSize = PageSize * q + r
  BY <1>1
<1>3. PageSize * (f - q) = r
  BY <1>2
<1>4. f - q = 0
  BY <1>2, <1>3
<1> QED
  BY <1>1, <1>2, <1>3, <1>4

\* The remainder of a number less than twice the divisor.
LEMMA ModOnce ==
    ASSUME NEW m \in Nat \ {0}, NEW x \in m .. 2 * m - 1
    PROVE  x % m = x - m
<1>1. PICK q, r : q = x \div m /\ r = x % m
  BY Zenon
<1>2. q \in Int /\ r \in 0 .. m - 1 /\ x = m * q + r
  BY <1>1
<1>3. q > 0
  <2>1. q <= 0 => m * q <= 0
    BY <1>2
  <2> QED
    BY <1>2, <2>1
<1>4. q < 2
  <2>1. q >= 2 => m * q >= 2 * m
    <3>1. q >= 2 => m * (q - 2) >= 0
      BY <1>2
    <3> QED
      BY <1>2, <3>1
  <2> QED
    BY <1>2, <2>1
<1>5. q = 1
  BY <1>2, <1>3, <1>4
<1> QED
  BY <1>1, <1>2, <1>5

\* Multiplying by the page size keeps the order.
LEMMA TimesPage ==
    ASSUME NEW a \in Int, NEW b \in Int
    PROVE  PageSize * a < PageSize * b <=> a < b
<1>1. ASSUME a < b PROVE PageSize * a < PageSize * b
  <2>1. PageSize * (b - a) > 0
    BY <1>1
  <2> QED
    BY <2>1
<1>2. ASSUME b <= a PROVE PageSize * b <= PageSize * a
  <2>1. PageSize * (a - b) >= 0
    BY <1>2
  <2> QED
    BY <2>1
<1> QED
  BY <1>1, <1>2

\* align_down gives the last multiple of the page size that is not above.
LEMMA AlignDownIs ==
    ASSUME NEW v \in Nat
    PROVE  \E q \in Nat : /\ AlignDown(v) = PageSize * q
                          /\ PageSize * q <= v /\ v < PageSize * (q + 1)
<1>1. PICK q, r : q = v \div PageSize /\ r = v % PageSize
  OBVIOUS
<1>2. q \in Nat /\ r \in 0 .. PageSize - 1 /\ v = PageSize * q + r
  BY <1>1
<1>3. AlignDown(v) = PageSize * q
  BY <1>1, <1>2 DEF AlignDown
<1>4. PageSize * (q + 1) = PageSize * q + PageSize
  BY <1>2
<1> QED
  BY <1>2, <1>3, <1>4

\* The loops of reserve_range and unreserve_range visit exactly the frames that
\* the range touches, when it ends below the last page.
LEMMA FramesOfTouched ==
    ASSUME NEW start \in Nat, NEW end \in 0 .. AddrMod - PageSize, NEW f \in Frames
    PROVE  f \in FramesOf(start, end) <=> Overlaps(f, start, end)
<1>1. f \in Nat /\ f * PageSize = PageSize * f /\ (f + 1) * PageSize = PageSize * (f + 1)
  BY DEF Frames
<1>2. AddrMod \in Nat /\ end \in Nat
  BY DEF AddrMod
<1>3. AlignDown(start) <= f * PageSize <=> start < (f + 1) * PageSize
  <2>1. PICK q \in Nat : /\ AlignDown(start) = PageSize * q
                         /\ PageSize * q <= start /\ start < PageSize * (q + 1)
    BY Zenon, AlignDownIs
  <2>2. AlignDown(start) <= f * PageSize <=> q <= f
    BY <1>1, <2>1, TimesPage
  <2>3. ASSUME q <= f PROVE start < PageSize * (f + 1)
    <3>1. PageSize * (q + 1) <= PageSize * (f + 1)
      BY <1>1, <2>3, TimesPage
    <3> QED
      BY <1>1, <2>1, <3>1
  <2>4. ASSUME f < q PROVE PageSize * (f + 1) <= start
    <3>1. PageSize * (f + 1) <= PageSize * q
      BY <1>1, <2>4, TimesPage
    <3> QED
      BY <1>1, <2>1, <3>1
  <2> QED
    BY <1>1, <2>2, <2>3, <2>4
<1>4. f * PageSize < AlignUp(end) <=> f * PageSize < end
  <2> DEFINE y == end + PageSize - 1
  <2>1. y \in Nat /\ y % AddrMod = y
    BY <1>2
  <2>2. AlignUp(end) = AlignDown(y)
    BY <2>1 DEF AlignUp
  <2>3. PICK q \in Nat : /\ AlignDown(y) = PageSize * q
                         /\ PageSize * q <= y /\ y < PageSize * (q + 1)
    BY Zenon, <2>1, AlignDownIs
  <2>4. f * PageSize < AlignUp(end) <=> f < q
    BY <1>1, <2>2, <2>3, TimesPage
  <2>5. PageSize * (f + 1) = PageSize * f + PageSize
    BY <1>1
  <2>6. ASSUME f < q PROVE f * PageSize < end
    <3>1. PageSize * (f + 1) <= PageSize * q
      BY <1>1, <2>6, TimesPage
    <3> QED
      BY <1>1, <1>2, <2>3, <2>5, <3>1
  <2>7. ASSUME f * PageSize < end PROVE f < q
    <3>1. PageSize * (f + 1) < PageSize * (q + 1)
      BY <1>1, <1>2, <2>3, <2>5, <2>7
    <3> QED
      BY <1>1, <3>1, TimesPage
  <2> QED
    BY <2>4, <2>6, <2>7
<1> QED
  BY <1>3, <1>4 DEF FramesOf, Overlaps

\* A map entry that ends below the last page, and a frame it touches.
Touched(e, f) ==
    /\ e.type = Available /\ e.length # 0
    /\ e.base + e.length <= AddrMod - PageSize
    /\ Overlaps(f, e.base, e.base + e.length)

\* map_visitor unreserves only frames that the entry touches, and all of them
\* when the entry ends below the last page of the 32-bit range.
LEMMA EntryFrames ==
    ASSUME NEW e \in Entries, NEW f \in Frames
    PROVE  /\ Usable(e) /\ f \in FramesOf(e.base, EntryEnd(e))
                => e.type = Available /\ Overlaps(f, e.base, e.base + e.length)
           /\ Touched(e, f) => Usable(e) /\ f \in FramesOf(e.base, EntryEnd(e))
<1>1. e.base \in Nat /\ e.length \in Nat /\ AddrMod \in Nat \ {0} /\ PageSize <= AddrMod
  BY DEF AddrMod
<1> DEFINE total == e.base + e.length
<1>2. PICK end : end = total % WideMod
  OBVIOUS
<1>3. total \in Nat /\ end \in Nat /\ end <= total /\ (total < WideMod => end = total)
  BY <1>1, <1>2
<1>4. EntryEnd(e) = IF end >= AddrMod THEN AddrMod - PageSize ELSE end
  BY <1>2 DEF EntryEnd
<1>5. ASSUME Usable(e), f \in FramesOf(e.base, EntryEnd(e))
      PROVE  Overlaps(f, e.base, total)
  <2>1. EntryEnd(e) <= total
    BY <1>1, <1>3, <1>4
  <2>2. CASE EntryEnd(e) <= AddrMod - PageSize
    <3>1. EntryEnd(e) \in 0 .. AddrMod - PageSize
      BY <1>1, <1>3, <1>4, <2>2
    <3>2. Overlaps(f, e.base, EntryEnd(e))
      BY <1>1, <1>5, <3>1, FramesOfTouched
    <3>3. f * PageSize \in Nat
      BY DEF Frames
    <3> QED
      BY <1>1, <1>3, <2>1, <3>1, <3>2, <3>3 DEF Overlaps
  <2>3. CASE EntryEnd(e) > AddrMod - PageSize
    <3>1. end \in AddrMod - PageSize + 1 .. AddrMod - 1 /\ EntryEnd(e) = end
      BY <1>1, <1>3, <1>4, <2>3
    <3>2. (end + PageSize - 1) % AddrMod = end + PageSize - 1 - AddrMod
      <4>1. PICK x : x = end + PageSize - 1
        OBVIOUS
      <4>2. x \in AddrMod .. 2 * AddrMod - 1
        BY <1>1, <3>1, <4>1
      <4>3. x % AddrMod = x - AddrMod
        BY <1>1, <4>2, ModOnce
      <4> QED
        BY <1>1, <3>1, <4>1, <4>2, <4>3
    <3>3. end + PageSize - 1 - AddrMod \in 0 .. PageSize - 1
      BY <1>1, <3>1
    <3>4. AlignUp(EntryEnd(e)) = 0
      BY <3>1, <3>2, <3>3 DEF AlignUp, AlignDown
    <3>5. f * PageSize \in Nat
      BY DEF Frames
    <3>6. f * PageSize < AlignUp(EntryEnd(e))
      BY <1>5 DEF FramesOf
    <3> QED
      BY <3>4, <3>5, <3>6
  <2> QED
    BY <1>1, <1>3, <1>4, <2>2, <2>3
<1>6. ASSUME e.type = Available, e.length # 0, total <= AddrMod - PageSize,
             Overlaps(f, e.base, total)
      PROVE  Usable(e) /\ f \in FramesOf(e.base, EntryEnd(e))
  <2>1. EntryEnd(e) = total /\ total \in 0 .. AddrMod - PageSize
    BY <1>1, <1>3, <1>4, <1>6
  <2>2. Usable(e)
    BY <1>1, <1>6, <2>1 DEF Usable
  <2> QED
    BY <1>1, <1>6, <2>1, <2>2, FramesOfTouched
<1>7. Usable(e) => e.type = Available
  BY DEF Usable
<1> QED
  BY <1>5, <1>6, <1>7 DEF Touched

-----------------------------------------------------------------------------
(* The inductive invariant: the count is exact, nothing is owned during    *)
(* init(), all frames in play touch RAM, and, once init() is done, none of *)
(* them is reserved and no other has been lost.                            *)

Reserved == FramesOf(0, LowEnd) \cup FramesOf(kernel[1], kernel[2])

IInv ==
    /\ TypeOK
    /\ FreeCountExact
    /\ NoFrameShared
    /\ phase = "map" => owned = {}
    /\ \A f \in clear \cup owned :
         \E e \in ram : e.type = Available /\ Overlaps(f, e.base, e.base + e.length)
    /\ phase = "ready" => (clear \cup owned) \cap Reserved = {}
    /\ \A e \in ram, f \in Frames :
         Touched(e, f) => f \in clear \cup owned \/ (phase = "ready" /\ f \in Reserved)

\* The inductive invariant gives the two properties of the pool.
LEMMA IInvImplies == IInv => OnlyUsableFrames /\ NoUsableFrameLost
<1> SUFFICES ASSUME IInv PROVE OnlyUsableFrames /\ NoUsableFrameLost
  OBVIOUS
<1>1. /\ kernel[1] \in Nat /\ kernel[2] \in 0 .. AddrMod - PageSize
      /\ LowEnd \in 0 .. AddrMod - PageSize /\ LowEnd > 0
  BY DEF IInv, TypeOK
<1>2. OnlyUsableFrames
  <2> SUFFICES ASSUME phase = "ready", NEW f \in clear \cup owned
               PROVE  /\ \E e \in ram : e.type = Available /\ Overlaps(f, e.base, e.base + e.length)
                      /\ f # 0 /\ ~Overlaps(f, 0, LowEnd) /\ ~Overlaps(f, kernel[1], kernel[2])
    BY DEF OnlyUsableFrames
  <2>1. f \in Frames /\ f \notin FramesOf(0, LowEnd) /\ f \notin FramesOf(kernel[1], kernel[2])
    BY DEF IInv, TypeOK, Reserved
  <2>2. ~Overlaps(f, 0, LowEnd) /\ ~Overlaps(f, kernel[1], kernel[2])
    BY <1>1, <2>1, FramesOfTouched
  <2>3. f # 0
    BY <1>1, <2>2 DEF Overlaps
  <2> QED
    BY <2>2, <2>3 DEF IInv
<1>3. NoUsableFrameLost
  BY DEF IInv, NoUsableFrameLost, Touched, Reserved
<1> QED
  BY <1>2, <1>3

\* What the proofs use of counting frames and of the scan of alloc_frame; it
\* is proved below (FrameCountsHold).
FrameCounts ==
    /\ Cardinality({}) = 0
    /\ \A f \in Frames : Cardinality({f}) = 1
    /\ \A S \in SUBSET Frames : Cardinality(S) \in Nat
    /\ \A S, T \in SUBSET Frames : Cardinality(S \cup T) = Cardinality(S) + Cardinality(T \ S)
    /\ \A S \in SUBSET Nat : S # {} => First(S) \in S

\* Removing frames from a set subtracts those that were in it.
LEMMA ShrinkCount ==
    ASSUME FrameCounts, NEW S \in SUBSET Frames, NEW T \in SUBSET Frames
    PROVE  /\ Cardinality(S \cap T) <= Cardinality(S)
           /\ Minus(Cardinality(S), Cardinality(S \cap T)) = Cardinality(S \ T)
<1>1. S = (S \ T) \cup (S \cap T) /\ (S \cap T) \ (S \ T) = S \cap T
  OBVIOUS
<1>2. /\ Cardinality(S) \in Nat /\ Cardinality(S \ T) \in Nat /\ Cardinality(S \cap T) \in Nat
      /\ S \ T \in SUBSET Frames /\ S \cap T \in SUBSET Frames
  BY DEF FrameCounts
<1>3. Cardinality(S) = Cardinality(S \ T) + Cardinality(S \cap T)
  BY Zenon, <1>1, <1>2 DEF FrameCounts
<1> QED
  BY <1>2, <1>3 DEF Minus

\* One frame more, or one less.
LEMMA OneFrame ==
    ASSUME FrameCounts, NEW S \in SUBSET Frames, NEW f \in Frames
    PROVE  /\ Cardinality(S) \in Nat
           /\ f \notin S => Cardinality(S \cup {f}) = Cardinality(S) + 1
           /\ f \in S => Cardinality(S \ {f}) = Cardinality(S) - 1
<1>1. Cardinality(S) \in Nat /\ Cardinality(S \ {f}) \in Nat /\ Cardinality({f}) = 1
  BY DEF FrameCounts
<1>2. ASSUME f \notin S PROVE Cardinality(S \cup {f}) = Cardinality(S) + 1
  <2>1. {f} \ S = {f} /\ {f} \in SUBSET Frames
    BY <1>2
  <2> QED
    BY Zenon, <1>1, <2>1 DEF FrameCounts
<1>3. ASSUME f \in S PROVE Cardinality(S) = Cardinality(S \ {f}) + 1
  <2>1. (S \ {f}) \cup {f} = S /\ {f} \ (S \ {f}) = {f} /\ {f} \in SUBSET Frames /\ S \ {f} \in SUBSET Frames
    BY <1>3
  <2> QED
    BY Zenon, <1>1, <2>1 DEF FrameCounts
<1> QED
  BY <1>1, <1>2, <1>3

\* An all-reserved bitmap satisfies the inductive invariant.
LEMMA IInvInit == FrameCounts => (Init => IInv)
BY DEF FrameCounts, Init, IInv, TypeOK, FreeCountExact, NoFrameShared

\* Visiting a memory map entry keeps the inductive invariant.
LEMMA IInvMapVisitor ==
    ASSUME FrameCounts, IInv, NEW e \in Entries, MapVisitor(e)
    PROVE  IInv'
<1> DEFINE range == FramesOf(e.base, EntryEnd(e))
<1>1. range \in SUBSET Frames
  BY DEF FramesOf
<1>2. \A f \in Frames :
        /\ Usable(e) /\ f \in range => e.type = Available /\ Overlaps(f, e.base, e.base + e.length)
        /\ Touched(e, f) => Usable(e) /\ f \in range
  BY EntryFrames
<1>3. /\ phase = "map" /\ phase' = "map" /\ owned = {} /\ owned' = {}
      /\ kernel' = kernel /\ ram' = ram \cup {e}
  BY DEF IInv, MapVisitor
<1>4. \/ Usable(e) /\ clear' = clear \cup range /\ free' = free + Cardinality(range \ clear)
      \/ ~Usable(e) /\ clear' = clear /\ free' = free
  BY DEF MapVisitor
<1> HIDE DEF range
<1>5. TypeOK'
  <2>1. Cardinality(range \ clear) \in Nat
    BY <1>1 DEF FrameCounts, IInv, TypeOK
  <2> QED
    BY <1>1, <1>3, <1>4, <2>1 DEF IInv, TypeOK
<1>6. FreeCountExact'
  BY Zenon, <1>1, <1>4 DEF FrameCounts, IInv, TypeOK, FreeCountExact
<1>7. NoFrameShared'
  BY <1>3 DEF NoFrameShared
<1>8. \A f \in clear' \cup owned' :
        \E d \in ram' : d.type = Available /\ Overlaps(f, d.base, d.base + d.length)
  <2> SUFFICES ASSUME NEW f \in clear'
               PROVE  \E d \in ram' : d.type = Available /\ Overlaps(f, d.base, d.base + d.length)
    BY <1>3
  <2>1. CASE f \in clear
    BY <1>3, <2>1 DEF IInv
  <2>2. CASE f \notin clear
    BY <1>1, <1>2, <1>3, <1>4, <2>2
  <2> QED
    BY <2>1, <2>2
<1>9. \A d \in ram', f \in Frames : Touched(d, f) => f \in clear' \cup owned'
  BY <1>2, <1>3, <1>4 DEF IInv
<1> QED
  BY <1>3, <1>5, <1>6, <1>7, <1>8, <1>9 DEF IInv, Touched, Overlaps

\* Reserving low memory and the kernel image establishes the pool.
LEMMA IInvReserve ==
    ASSUME FrameCounts, IInv, ReserveFixed
    PROVE  IInv'
<1> DEFINE low == FramesOf(0, LowEnd)
           image == FramesOf(kernel[1], kernel[2])
<1>1. low \in SUBSET Frames /\ image \in SUBSET Frames /\ Reserved = low \cup image
  BY DEF FramesOf, Reserved
<1>2. /\ phase = "map" /\ phase' = "ready" /\ owned = {} /\ owned' = {}
      /\ kernel' = kernel /\ ram' = ram /\ clear' = (clear \ low) \ image
  BY DEF IInv, ReserveFixed
<1>3. free' = Minus(Minus(free, Cardinality(clear \cap low)), Cardinality((clear \ low) \cap image))
  BY DEF ReserveFixed
<1> HIDE DEF low, image
<1>4. clear \in SUBSET Frames /\ clear \ low \in SUBSET Frames /\ free = Cardinality(clear)
  BY DEF IInv, TypeOK, FreeCountExact
<1>5. FreeCountExact'
  <2>1. Minus(free, Cardinality(clear \cap low)) = Cardinality(clear \ low)
    BY Zenon, <1>1, <1>4, ShrinkCount
  <2>2. free' = Cardinality((clear \ low) \ image)
    BY Zenon, <1>1, <1>3, <1>4, <2>1, ShrinkCount
  <2> QED
    BY <1>2, <2>2 DEF FreeCountExact
<1>6. TypeOK'
  <2>1. clear' \in SUBSET Frames /\ Cardinality(clear') \in Nat
    BY <1>2, <1>4 DEF FrameCounts
  <2> QED
    BY <1>2, <1>5, <2>1 DEF IInv, TypeOK, FreeCountExact
<1>7. Reserved' = Reserved
  BY <1>2 DEF Reserved
<1>8. (clear' \cup owned') \cap Reserved = {}
  BY <1>1, <1>2
<1>9. \A e \in ram', f \in Frames : Touched(e, f) => f \in clear' \cup owned' \/ f \in Reserved
  BY <1>1, <1>2 DEF IInv
<1> QED
  BY <1>2, <1>5, <1>6, <1>7, <1>8, <1>9 DEF IInv, NoFrameShared, Touched, Overlaps

\* A step past init() that only moves frames between the pool and the callers.
LEMMA IInvMove ==
    ASSUME FrameCounts, IInv, phase = "ready", UNCHANGED <<kernel, phase, ram>>,
           clear' \cup owned' = clear \cup owned, clear' \cap owned' = {},
           free' = Cardinality(clear')
    PROVE  IInv'
<1>1. clear' \in SUBSET Frames /\ owned' \in SUBSET Frames
  BY DEF IInv, TypeOK
<1>2. Cardinality(clear') \in Nat
  BY <1>1 DEF FrameCounts
<1>3. Reserved' = Reserved
  BY DEF Reserved
<1> QED
  BY <1>1, <1>2, <1>3 DEF IInv, TypeOK, FreeCountExact, NoFrameShared, Touched, Overlaps

\* alloc_frame moves the first clear frame from the pool to its caller.
LEMMA AllocMoves ==
    ASSUME FrameCounts, IInv, AllocFrame
    PROVE  /\ clear' \cup owned' = clear \cup owned /\ clear' \cap owned' = {}
           /\ free' = Cardinality(clear')
<1>1. clear \in SUBSET Frames /\ clear # {} /\ clear \in SUBSET Nat /\ free = Cardinality(clear)
  BY DEF IInv, TypeOK, AllocFrame, FreeCountExact, Frames
<1>2. PICK f : f = First(clear)
  OBVIOUS
<1>3. f \in clear
  BY <1>1, <1>2 DEF FrameCounts
<1>4. clear' = clear \ {f} /\ owned' = owned \cup {f} /\ free' = Minus(free, 1)
  BY <1>2 DEF AllocFrame
<1>5. clear \cap {f} = {f} /\ {f} \in SUBSET Frames
  BY <1>1, <1>3
<1>6. Cardinality({f}) = 1
  BY <1>1, <1>3 DEF FrameCounts
<1>7. free' = Cardinality(clear')
  BY Zenon, <1>1, <1>4, <1>5, <1>6, ShrinkCount
<1> QED
  BY <1>3, <1>4, <1>7 DEF IInv, NoFrameShared

\* free_frame moves a held frame from its caller to the pool.
LEMMA FreeMoves ==
    ASSUME FrameCounts, IInv, NEW f \in owned, FreeFrame(f * PageSize)
    PROVE  /\ clear' \cup owned' = clear \cup owned /\ clear' \cap owned' = {}
           /\ free' = Cardinality(clear')
<1>1. /\ clear \in SUBSET Frames /\ f \in Frames /\ f \in Nat /\ f \notin clear
      /\ free = Cardinality(clear)
  BY DEF IInv, TypeOK, FreeCountExact, NoFrameShared, Frames
<1>2. clear' = clear \cup {f} /\ owned' = owned \ {f} /\ free' = free + 1
  BY <1>1, FrameOfAddress DEF FreeFrame
<1>3. {f} \ clear = {f} /\ {f} \in SUBSET Frames
  BY <1>1
<1>4. Cardinality({f}) = 1
  BY <1>1 DEF FrameCounts
<1>5. Cardinality(clear \cup {f}) = Cardinality(clear) + Cardinality({f} \ clear)
  BY Zenon, <1>1, <1>3 DEF FrameCounts
<1>6. free' = Cardinality(clear')
  BY Zenon, <1>1, <1>2, <1>3, <1>4, <1>5
<1> QED
  BY <1>2, <1>6 DEF IInv, NoFrameShared

\* Every step keeps the inductive invariant.
LEMMA IInvNext == FrameCounts /\ IInv /\ [Next]_vars => IInv'
<1> SUFFICES ASSUME FrameCounts, IInv, [Next]_vars PROVE IInv'
  OBVIOUS
<1>1. CASE AllocFrame
  BY <1>1, AllocMoves, IInvMove DEF AllocFrame
<1>2. ASSUME NEW f \in owned, FreeFrame(f * PageSize) PROVE IInv'
  BY <1>2, FreeMoves, IInvMove DEF FreeFrame
<1>3. CASE UNCHANGED vars
  BY <1>3 DEF vars, IInv, TypeOK, FreeCountExact, NoFrameShared, Reserved, Touched, Overlaps
<1> QED
  BY <1>1, <1>2, <1>3, IInvMapVisitor, IInvReserve DEF Next

HIDE PmmAssumption

-----------------------------------------------------------------------------
\* The invariant of the heap's growth: until init() is done nothing has begun;
\* the frame in hand is held; the pages below mappedEnd are mapped, the others
\* are not; pages of RAM have frames of their own.
HeapInv ==
    /\ mappedEnd \in HeapStart .. HeapLimit
    /\ use \in [HeapPages -> {"none", "data", "device"} \cup Clones]
    /\ inHand \in Frames \cup {NoEntry}
    /\ tested \in {"no", "got", "none"}
    /\ phase = "map" => mappedEnd = HeapStart /\ inHand = NoEntry /\ tested = "no" /\ ~paging
    /\ inHand # NoEntry => inHand \in owned /\ mappedEnd < HeapLimit
    /\ \A v \in HeapPages :
         IF v < mappedEnd THEN V!VirtToPhys(v) \in Phys
         ELSE use[v] = "none" /\ V!VirtToPhys(v) = NoEntry
    /\ \A v, w \in RamPages : v # w => V!VirtToPhys(v) # V!VirtToPhys(w)
    /\ \A v \in RamPages : V!VirtToPhys(v) \in owned /\ V!VirtToPhys(v) # inHand

\* The heap's pages are pages, and the frames of a frame's page are frames.
LEMMA HeapSizes ==
    /\ HeapStart \in Nat /\ HeapLimit \in Nat /\ HeapStart <= HeapLimit
    /\ HeapPages \subseteq V!Pages /\ HeapPages \subseteq Int
    /\ NoEntry \notin Frames /\ Frames \subseteq Phys /\ Devices \subseteq Phys
    /\ \A v \in HeapPages : ~(v < IdentityPages)
<1>1. /\ HeapStart \in Nat /\ HeapLimit \in Nat /\ HeapStart <= HeapLimit
      /\ IdentityPages <= HeapStart /\ HeapLimit <= Dirs * PerTable /\ IdentityPages \in Int
      /\ Dirs * PerTable \in Int
  BY KernelMemoryAssumption DEF V!VmmConstants
<1>2. HeapPages \subseteq V!Pages /\ HeapPages \subseteq Int /\ \A v \in HeapPages : ~(v < IdentityPages)
  BY <1>1 DEF HeapPages, V!Pages
<1> QED
  BY <1>1, <1>2, TableSizes DEF Phys

\* It holds, with nothing mapped, when the kernel starts.
LEMMA HeapInvInit == MemoryInit => PagesInv /\ HeapInv
<1> SUFFICES ASSUME MemoryInit PROVE PagesInv /\ HeapInv
  OBVIOUS
<1>1. PagesInv /\ \A v \in V!Pages : V!VirtToPhys(v) = IF v < IdentityPages THEN v ELSE NoEntry
  BY PagesInit DEF MemoryInit
<1>2. \A v \in HeapPages : V!VirtToPhys(v) = NoEntry /\ use[v] = "none" /\ ~(v < mappedEnd)
  BY <1>1, HeapSizes DEF MemoryInit, HeapInit, HeapPages
<1>3. RamPages = {}
  BY <1>2 DEF RamPages
<1>4. paging = FALSE
  BY DEF MemoryInit, V!Init
<1> QED
  BY <1>1, <1>2, <1>3, <1>4, HeapSizes DEF MemoryInit, HeapInit, HeapInv

\* A step that touches neither the heap nor the tables, and takes no frame
\* back, keeps it.
LEMMA HeapUntouched ==
    ASSUME HeapInv, UNCHANGED <<tables, tableFor, mappedEnd, use, inHand>>,
           tested' \in {"no", "got", "none"},
           phase' = "map" => phase = "map" /\ tested' = tested /\ paging' = paging,
           owned \subseteq owned'
    PROVE  HeapInv'
<1>1. \A v \in HeapPages : V!VirtToPhys(v)' = V!VirtToPhys(v)
  BY SameTables, HeapSizes
<1>2. RamPages' = RamPages /\ RamPages \subseteq HeapPages
  BY DEF RamPages
<1> QED
  BY <1>1, <1>2 DEF HeapInv

\* alloc_frame's frame is in no page of the heap.
LEMMA HeapGrowTake ==
    ASSUME HeapInv, GrowTake, First(clear) \in clear, clear \subseteq Frames, clear \cap owned = {}
    PROVE  HeapInv'
<1>1. \A v \in HeapPages : V!VirtToPhys(v)' = V!VirtToPhys(v)
  BY SameTables, HeapSizes DEF GrowTake, vmmVars
<1>2. RamPages' = RamPages /\ RamPages \subseteq HeapPages
  BY DEF RamPages, GrowTake
<1>3. /\ inHand' \in Frames /\ inHand' \notin owned /\ owned' = owned \cup {inHand'}
      /\ mappedEnd < HeapLimit /\ phase = "ready" /\ phase' = "ready"
      /\ UNCHANGED <<mappedEnd, use, tested, paging>>
  BY DEF GrowTake, AllocFrame, vmmVars
<1> QED
  BY <1>1, <1>2, <1>3 DEF HeapInv

\* The frame in hand becomes the heap's next page.
LEMMA HeapGrowMap ==
    ASSUME PagesInv, HeapInv, GrowMap, owned \subseteq Frames
    PROVE  PagesInv' /\ HeapInv'
<1>1. /\ inHand \in Frames /\ inHand \in owned /\ mappedEnd < HeapLimit /\ phase # "map"
      /\ mappedEnd \in HeapPages /\ mappedEnd \in Int
  BY HeapSizes DEF HeapInv, GrowMap, HeapPages
<1>2. PICK p, f : p = mappedEnd /\ f = inHand
  OBVIOUS
<1>3. p \in V!Pages /\ p \in HeapPages /\ f \in Phys /\ V!MapPage(p, f, FALSE)
  BY Zenon, <1>1, <1>2, HeapSizes DEF GrowMap
<1>4. /\ PagesInv' /\ V!VirtToPhys(p)' = f
      /\ \A w \in V!Pages : w # p => V!VirtToPhys(w)' = V!VirtToPhys(w)
  BY Zenon, <1>3, MapPageKeeps
<1>5. /\ mappedEnd' = p + 1 /\ inHand' = NoEntry /\ use' = [use EXCEPT ![p] = "data"]
      /\ UNCHANGED <<owned, phase, tested>>
  BY <1>2 DEF GrowMap, vars
<1>6. use' \in [HeapPages -> {"none", "data", "device"} \cup Clones] /\ RamPages' = RamPages \cup {p}
  BY <1>3, <1>5 DEF HeapInv, RamPages
<1>7. \A v \in HeapPages : IF v < mappedEnd' THEN V!VirtToPhys(v)' \in Phys
                           ELSE use'[v] = "none" /\ V!VirtToPhys(v)' = NoEntry
  <2> SUFFICES ASSUME NEW v \in HeapPages
               PROVE  IF v < mappedEnd' THEN V!VirtToPhys(v)' \in Phys
                      ELSE use'[v] = "none" /\ V!VirtToPhys(v)' = NoEntry
    OBVIOUS
  <2>1. CASE v = p
    BY <1>1, <1>2, <1>3, <1>4, <1>5, <2>1
  <2>2. CASE v # p
    <3>1. V!VirtToPhys(v)' = V!VirtToPhys(v) /\ use'[v] = use[v]
      BY <1>4, <1>5, <2>2, HeapSizes DEF HeapInv
    <3>2. v < mappedEnd' <=> v < mappedEnd
      BY <1>1, <1>2, <1>5, <2>2, HeapSizes
    <3> QED
      BY <3>1, <3>2 DEF HeapInv
  <2> QED
    BY <2>1, <2>2
<1>8. p \notin RamPages /\ RamPages \subseteq HeapPages
  BY <1>1, <1>2 DEF HeapInv, RamPages
<1>9. \A v \in RamPages : /\ V!VirtToPhys(v)' = V!VirtToPhys(v) /\ V!VirtToPhys(v) # f
                          /\ V!VirtToPhys(v) \in owned
  BY <1>2, <1>4, <1>8, HeapSizes DEF HeapInv
<1>10. /\ \A v, w \in RamPages' : v # w => V!VirtToPhys(v)' # V!VirtToPhys(w)'
       /\ \A v \in RamPages' : V!VirtToPhys(v)' \in owned' /\ V!VirtToPhys(v)' # inHand'
  BY <1>1, <1>2, <1>4, <1>5, <1>6, <1>8, <1>9, HeapSizes DEF HeapInv
<1>11. mappedEnd' \in HeapStart .. HeapLimit
  BY <1>1, <1>2, <1>5, HeapSizes DEF HeapInv
<1> QED
  BY <1>1, <1>4, <1>5, <1>6, <1>7, <1>10, <1>11 DEF HeapInv

\* The frame that goes back was in no page.
LEMMA HeapGrowFail ==
    ASSUME HeapInv, GrowFail, owned' = owned \ {inHand}, owned \subseteq Frames
    PROVE  HeapInv'
<1>1. \A v \in HeapPages : V!VirtToPhys(v)' = V!VirtToPhys(v)
  BY SameTables, HeapSizes DEF GrowFail, vmmVars
<1>2. RamPages' = RamPages /\ RamPages \subseteq HeapPages
  BY DEF RamPages, GrowFail
<1>3. inHand' = NoEntry /\ phase' = "ready" /\ UNCHANGED <<mappedEnd, use, tested>>
  BY DEF GrowFail, FreeFrame
<1>4. NoEntry \notin owned
  BY HeapSizes
<1> QED
  BY <1>1, <1>2, <1>3, <1>4 DEF HeapInv

\* Device registers mapped over a heap page, whose frame stays with the heap.
LEMMA HeapMapRegion ==
    ASSUME PagesInv, HeapInv, NEW p \in HeapPages, NEW dev \in Devices, MapPhysicalRegion(p, dev)
    PROVE  PagesInv' /\ HeapInv'
<1>1. p \in V!Pages /\ dev \in Phys /\ V!MapPage(p, dev, FALSE)
  BY Zenon, HeapSizes DEF MapPhysicalRegion
<1>2. /\ PagesInv' /\ V!VirtToPhys(p)' = dev
      /\ \A w \in V!Pages : w # p => V!VirtToPhys(w)' = V!VirtToPhys(w)
  BY Zenon, <1>1, MapPageKeeps
<1>3. /\ use[p] = "data" /\ use' = [use EXCEPT ![p] = "device"] /\ inHand = NoEntry
      /\ UNCHANGED <<owned, phase, mappedEnd, inHand, tested, paging>>
  BY DEF MapPhysicalRegion, vars, V!MapPage
<1>4. use' \in [HeapPages -> {"none", "data", "device"} \cup Clones] /\ RamPages' = RamPages \ {p}
  BY <1>3 DEF HeapInv, RamPages
<1>5. p < mappedEnd
  BY <1>3 DEF HeapInv
<1>6. \A v \in HeapPages : IF v < mappedEnd' THEN V!VirtToPhys(v)' \in Phys
                           ELSE use'[v] = "none" /\ V!VirtToPhys(v)' = NoEntry
  BY <1>1, <1>2, <1>3, <1>5, HeapSizes DEF HeapInv
<1>7. \A v \in RamPages' : v \in RamPages /\ V!VirtToPhys(v)' = V!VirtToPhys(v)
  BY <1>2, <1>4, HeapSizes DEF RamPages
<1>8. /\ \A v, w \in RamPages' : v # w => V!VirtToPhys(v)' # V!VirtToPhys(w)'
      /\ \A v \in RamPages' : V!VirtToPhys(v)' \in owned' /\ V!VirtToPhys(v)' # inHand'
  BY <1>3, <1>7 DEF HeapInv
<1> QED
  BY <1>2, <1>3, <1>4, <1>6, <1>8 DEF HeapInv

\* A process's directory on a page of the heap.
LEMMA HeapCreateSpace ==
    ASSUME HeapInv, NEW s \in Clones, NEW p \in HeapPages, CreateSpace(s, p)
    PROVE  HeapInv'
<1>1. /\ use[p] = "data" /\ use' = [use EXCEPT ![p] = s]
      /\ UNCHANGED <<tables, tableFor, owned, phase, mappedEnd, inHand, tested, paging>>
  BY DEF CreateSpace, V!CreateClone, vars
<1>2. \A v \in HeapPages : V!VirtToPhys(v)' = V!VirtToPhys(v)
  BY <1>1, SameTables, HeapSizes
<1>3. use' \in [HeapPages -> {"none", "data", "device"} \cup Clones] /\ RamPages' \subseteq RamPages
  BY <1>1 DEF HeapInv, RamPages
<1>4. p < mappedEnd /\ RamPages \subseteq HeapPages
  BY <1>1 DEF HeapInv, RamPages
<1>5. \A v \in HeapPages : IF v < mappedEnd' THEN V!VirtToPhys(v)' \in Phys
                           ELSE use'[v] = "none" /\ V!VirtToPhys(v)' = NoEntry
  BY <1>1, <1>2, <1>4 DEF HeapInv
<1>6. /\ \A v, w \in RamPages' : v # w => V!VirtToPhys(v)' # V!VirtToPhys(w)'
      /\ \A v \in RamPages' : V!VirtToPhys(v)' \in owned' /\ V!VirtToPhys(v)' # inHand'
  BY <1>1, <1>2, <1>3, <1>4 DEF HeapInv
<1> QED
  BY <1>1, <1>3, <1>5, <1>6 DEF HeapInv

\* The inductive invariants give the property that the runs check.
LEMMA HeapInvImplies == PagesInv /\ HeapInv => HeapBacked
<1> SUFFICES ASSUME PagesInv, HeapInv PROVE HeapBacked
  OBVIOUS
<1>1. MemoryTypeOK
  BY PagesInvImplies DEF HeapInv, MemoryTypeOK, V!TranslationsAgree
<1>2. \A v \in HeapPages : v < mappedEnd <=> V!VirtToPhys(v) # NoEntry
  BY TableSizes DEF HeapInv
<1>3. \A v \in V!Pages : V!Walk(dirs[cr3], v) \in {NoEntry, V!Walk(dirs["kernel"], v)}
  <2> SUFFICES ASSUME NEW v \in V!Pages
               PROVE  V!Walk(dirs[cr3], v) \in {NoEntry, V!Walk(dirs["kernel"], v)}
    OBVIOUS
  <2>1. CASE cr3 = "kernel"
    BY <2>1
  <2>2. CASE cr3 \in Clones /\ dirs[cr3] # NoEntry
    BY <2>2, CloneWalk DEF PagesInv
  <2> QED
    BY <2>1, <2>2 DEF PagesInv, Typed, InMemory
<1> QED
  BY <1>1, <1>2, <1>3 DEF HeapInv, HeapBacked

-----------------------------------------------------------------------------
(* The kernel's use of both.                                               *)

\* Each step of the kernel is one of the frame allocator's, or none: a frame is
\* given back only by the heap, which holds it.
LEMMA PmmStep ==
    ASSUME HeapInv, [MemoryNext]_memoryVars
    PROVE  [Next]_vars
<1>1. CASE InitFrames
  BY <1>1 DEF InitFrames, Next
<1>2. CASE TakeTestFrame
  BY <1>2 DEF TakeTestFrame, Next
<1>3. CASE GrowTake
  BY <1>3 DEF GrowTake, Next
<1>4. CASE GrowFail
  BY <1>4 DEF GrowFail, Next, HeapInv
<1>5. CASE StartPaging \/ GrowMap
  BY Zenon, <1>5 DEF StartPaging, GrowMap
<1>6. ASSUME NEW v \in HeapPages, NEW dev \in Devices, MapPhysicalRegion(v, dev) PROVE UNCHANGED vars
  BY <1>6 DEF MapPhysicalRegion
<1>7. ASSUME NEW s \in Clones, NEW v \in HeapPages, CreateSpace(s, v) PROVE UNCHANGED vars
  BY <1>7 DEF CreateSpace
<1>8. ASSUME NEW s \in V!Spaces, Switch(s) PROVE UNCHANGED vars
  BY <1>8 DEF Switch
<1>9. CASE UNCHANGED memoryVars
  BY <1>9 DEF memoryVars
<1> QED
  BY <1>1, <1>2, <1>3, <1>4, <1>5, <1>6, <1>7, <1>8, <1>9 DEF MemoryNext

\* kmain() takes its test frame with paging on, and the heap is used after that.
BootOrder ==
    /\ tested # "no" => paging
    /\ tested = "no" => inHand = NoEntry /\ \A v \in HeapPages : use[v] = "none"

\* Every step of the kernel keeps the order of the boot.
LEMMA BootOrderNext == HeapInv /\ BootOrder /\ [MemoryNext]_memoryVars => BootOrder'
<1> SUFFICES ASSUME HeapInv, BootOrder, [MemoryNext]_memoryVars PROVE BootOrder'
  OBVIOUS
<1>1. CASE InitFrames
  BY <1>1 DEF InitFrames, BootOrder, vmmVars, heapVars
<1>2. CASE StartPaging
  BY <1>2 DEF StartPaging, V!EnablePaging, BootOrder, heapVars
<1>3. CASE TakeTestFrame
  BY <1>3 DEF TakeTestFrame, BootOrder, vmmVars
<1>4. CASE GrowTake
  BY <1>4 DEF GrowTake, BootOrder, vmmVars
<1>5. CASE GrowMap
  BY <1>5 DEF GrowMap, V!MapPage, BootOrder
<1>6. CASE GrowFail
  BY <1>6 DEF GrowFail, BootOrder, vmmVars
<1>7. ASSUME NEW v \in HeapPages, NEW dev \in Devices, MapPhysicalRegion(v, dev) PROVE BootOrder'
  BY <1>7 DEF MapPhysicalRegion, V!MapPage, BootOrder
<1>8. ASSUME NEW s \in Clones, NEW v \in HeapPages, CreateSpace(s, v) PROVE BootOrder'
  BY <1>8 DEF CreateSpace, V!CreateClone, BootOrder
<1>9. ASSUME NEW s \in V!Spaces, Switch(s) PROVE BootOrder'
  BY <1>9 DEF Switch, V!SwitchAddressSpace, BootOrder, heapVars
<1>10. CASE UNCHANGED memoryVars
  BY <1>10 DEF memoryVars, vmmVars, heapVars, BootOrder
<1> QED
  BY <1>1, <1>2, <1>3, <1>4, <1>5, <1>6, <1>7, <1>8, <1>9, <1>10 DEF MemoryNext

\* Each step of the kernel is one of the page tables', or none.
LEMMA VmmStep ==
    ASSUME HeapInv, BootOrder, [MemoryNext]_memoryVars
    PROVE  [V!Next]_(V!vars)
<1> USE DEF Phys
<1>1. ASSUME NEW v \in HeapPages, NEW f \in Phys, paging, V!MapPage(v, f, FALSE) PROVE V!Next
  BY Zenon, <1>1, HeapSizes, KernelMemoryAssumption DEF V!Next
<1>2. CASE InitFrames \/ TakeTestFrame \/ GrowTake \/ GrowFail \/ UNCHANGED memoryVars
  BY Zenon, <1>2 DEF InitFrames, TakeTestFrame, GrowTake, GrowFail, memoryVars, vmmVars, V!vars
<1>3. CASE StartPaging
  BY <1>3 DEF StartPaging, V!Next
<1>4. CASE GrowMap
  <2>1. mappedEnd \in HeapPages /\ inHand \in Phys /\ paging
    BY <1>4, HeapSizes DEF GrowMap, HeapInv, BootOrder, HeapPages
  <2> QED
    BY Zenon, <1>1, <1>4, <2>1 DEF GrowMap
<1>5. ASSUME NEW v \in HeapPages, NEW dev \in Devices, MapPhysicalRegion(v, dev) PROVE V!Next
  <2>1. paging /\ dev \in Phys
    BY <1>5, HeapSizes DEF MapPhysicalRegion, HeapInv, BootOrder
  <2> QED
    BY Zenon, <1>1, <1>5, <2>1 DEF MapPhysicalRegion
<1>6. ASSUME NEW s \in Clones, NEW v \in HeapPages, CreateSpace(s, v) PROVE V!Next
  BY <1>6 DEF CreateSpace, V!Next
<1>7. ASSUME NEW s \in V!Spaces, Switch(s) PROVE V!Next
  BY <1>7 DEF Switch, V!Next
<1> QED
  BY <1>2, <1>3, <1>4, <1>5, <1>6, <1>7 DEF MemoryNext

\* The inductive invariant of the kernel's memory.
MemoryInv == IInv /\ PagesInv /\ HeapInv

\* Every step of the kernel keeps the three invariants.
LEMMA MemoryInvNext == FrameCounts /\ MemoryInv /\ [MemoryNext]_memoryVars => MemoryInv'
<1> SUFFICES ASSUME FrameCounts, MemoryInv, [MemoryNext]_memoryVars PROVE MemoryInv'
  OBVIOUS
<1>1. IInv /\ PagesInv /\ HeapInv /\ IInv'
  BY PmmStep, IInvNext DEF MemoryInv
<1>2. clear \subseteq Frames /\ owned \subseteq Frames /\ clear \cap owned = {} /\ clear \subseteq Nat
  BY <1>1 DEF IInv, TypeOK, NoFrameShared, Frames
<1>3. ASSUME UNCHANGED vmmVars PROVE PagesInv'
  BY <1>1, <1>3, PagesNext DEF vmmVars, V!vars
<1>4. CASE InitFrames
  <2>1. owned \subseteq owned' /\ (phase' = "map" => phase = "map") /\ UNCHANGED <<vmmVars, heapVars>>
    BY Zenon, <1>4 DEF InitFrames, MapVisitor, ReserveFixed
  <2>2. HeapInv'
    BY <1>1, <2>1, HeapUntouched DEF vmmVars, heapVars, HeapInv
  <2> QED
    BY <1>1, <1>3, <2>1, <2>2 DEF MemoryInv
<1>5. CASE StartPaging
  <2>1. PagesInv'
    BY <1>1, <1>5, LoadCr3Keeps, TableSizes DEF StartPaging
  <2>2. HeapInv'
    BY <1>1, <1>5, HeapUntouched DEF StartPaging, V!EnablePaging, vars, heapVars, HeapInv
  <2> QED
    BY <1>1, <2>1, <2>2 DEF MemoryInv
<1>6. CASE TakeTestFrame
  <2>1. /\ owned \subseteq owned' /\ UNCHANGED <<vmmVars, mappedEnd, use, inHand>>
        /\ tested' \in {"no", "got", "none"} /\ phase' = phase /\ paging
    BY <1>6 DEF TakeTestFrame, AllocFrame, vars
  <2>2. phase # "map"
    BY <1>1, <2>1 DEF HeapInv
  <2>3. HeapInv'
    BY <1>1, <2>1, <2>2, HeapUntouched DEF vmmVars
  <2> QED
    BY <1>1, <1>3, <2>1, <2>3 DEF MemoryInv
<1>7. CASE GrowTake
  <2>1. First(clear) \in clear
    BY <1>2, <1>7 DEF GrowTake, AllocFrame, FrameCounts
  <2> QED
    BY <1>1, <1>2, <1>3, <1>7, <2>1, HeapGrowTake DEF MemoryInv, GrowTake
<1>8. CASE GrowMap
  BY <1>1, <1>2, <1>8, HeapGrowMap DEF MemoryInv
<1>9. CASE GrowFail
  <2>1. inHand \in Nat
    BY <1>1, <1>9 DEF HeapInv, GrowFail, Frames
  <2>2. owned' = owned \ {inHand}
    BY <1>9, <2>1, FrameOfAddress DEF GrowFail, FreeFrame
  <2> QED
    BY <1>1, <1>2, <1>3, <1>9, <2>2, HeapGrowFail DEF MemoryInv, GrowFail
<1>10. ASSUME NEW v \in HeapPages, NEW dev \in Devices, MapPhysicalRegion(v, dev) PROVE MemoryInv'
  BY <1>1, <1>10, HeapMapRegion DEF MemoryInv
<1>11. ASSUME NEW s \in Clones, NEW v \in HeapPages, CreateSpace(s, v) PROVE MemoryInv'
  <2>1. PagesInv'
    BY <1>1, <1>11, CreateCloneKeeps DEF CreateSpace
  <2> QED
    BY <1>1, <1>11, <2>1, HeapCreateSpace DEF MemoryInv
<1>12. ASSUME NEW s \in V!Spaces, Switch(s) PROVE MemoryInv'
  <2>1. PagesInv'
    BY <1>1, <1>12, LoadCr3Keeps DEF Switch
  <2>2. HeapInv'
    BY <1>1, <1>12, HeapUntouched DEF Switch, V!SwitchAddressSpace, vars, heapVars, HeapInv
  <2> QED
    BY <1>1, <2>1, <2>2 DEF MemoryInv
<1>13. CASE UNCHANGED memoryVars
  <2>1. HeapInv'
    BY <1>1, <1>13, HeapUntouched DEF memoryVars, vmmVars, vars, heapVars, HeapInv
  <2> QED
    BY <1>1, <1>3, <1>13, <2>1 DEF memoryVars, MemoryInv
<1> QED
  BY <1>4, <1>5, <1>6, <1>7, <1>8, <1>9, <1>10, <1>11, <1>12, <1>13 DEF MemoryNext


\* Every step of the kernel accounts for the frames it takes.
LEMMA AccountsNext ==
    FrameCounts /\ MemoryInv /\ FramesAccounted /\ [MemoryNext]_memoryVars => FramesAccounted'
<1> SUFFICES ASSUME FrameCounts, MemoryInv, FramesAccounted, [MemoryNext]_memoryVars
             PROVE  FramesAccounted'
  OBVIOUS
<1>1. /\ clear \subseteq Nat /\ clear \subseteq Frames /\ owned \in SUBSET Frames
      /\ clear \cap owned = {} /\ Cardinality(owned) \in Nat
  BY DEF MemoryInv, IInv, TypeOK, NoFrameShared, Frames, FrameCounts
<1>2. mappedEnd \in Int /\ HeapStart \in Int
  BY HeapSizes DEF MemoryInv, HeapInv
<1>3. ASSUME AllocFrame
      PROVE  /\ phase = "ready" /\ First(clear) \in Frames /\ First(clear) # NoEntry
             /\ Cardinality(owned') = Cardinality(owned) + 1
  <2>1. First(clear) \in Frames /\ First(clear) \notin owned
    BY Zenon, <1>1, <1>3 DEF AllocFrame, FrameCounts
  <2>2. Cardinality(owned \cup {First(clear)}) = Cardinality(owned) + 1
    BY Zenon, <1>1, <2>1, OneFrame
  <2> QED
    BY <1>3, <2>1, <2>2, HeapSizes DEF AllocFrame
<1>4. ASSUME UNCHANGED <<vars, mappedEnd, inHand>>, tested' = tested \/ (tested = "no" /\ tested' = "none")
      PROVE  FramesAccounted'
  BY <1>4 DEF vars, FramesAccounted
<1>5. CASE InitFrames
  <2>1. CASE \E e \in Entries : MapVisitor(e)
    BY <2>1 DEF MapVisitor, FramesAccounted
  <2>2. CASE ReserveFixed
    <3>1. owned' = {} /\ UNCHANGED heapVars /\ phase = "map"
      BY <1>5, <2>2 DEF InitFrames, ReserveFixed, MemoryInv, IInv
    <3>2. mappedEnd' = HeapStart /\ inHand' = NoEntry /\ tested' = "no"
      BY <3>1 DEF MemoryInv, HeapInv, heapVars
    <3> QED
      BY <1>2, <3>1, <3>2 DEF FramesAccounted, FrameCounts
  <2> QED
    BY <1>5, <2>1, <2>2 DEF InitFrames
<1>6. CASE TakeTestFrame
  <2>1. CASE AllocFrame /\ tested' = "got"
    BY <1>1, <1>2, <1>3, <1>6, <2>1 DEF TakeTestFrame, AllocFrame, FramesAccounted
  <2>2. CASE tested' = "none" /\ UNCHANGED vars
    BY <1>4, <1>6, <2>2 DEF TakeTestFrame
  <2> QED
    BY <1>6, <2>1, <2>2 DEF TakeTestFrame
<1>7. CASE GrowTake
  BY <1>1, <1>2, <1>3, <1>7 DEF GrowTake, AllocFrame, FramesAccounted
<1>8. CASE GrowMap
  BY <1>1, <1>2, <1>8 DEF GrowMap, vars, FramesAccounted
<1>9. CASE GrowFail
  <2>1. inHand \in owned /\ inHand \in Frames /\ inHand \in Nat /\ inHand # NoEntry
    BY <1>1, <1>9 DEF GrowFail, MemoryInv, HeapInv, Frames
  <2>2. owned' = owned \ {inHand}
    BY <1>9, <2>1, FrameOfAddress DEF GrowFail, FreeFrame
  <2>3. Cardinality(owned') = Cardinality(owned) - 1
    BY <1>1, <2>1, <2>2, OneFrame
  <2> QED
    BY <1>1, <1>2, <1>9, <2>1, <2>3 DEF GrowFail, FreeFrame, FramesAccounted
<1>10. CASE StartPaging
  BY <1>4, <1>10 DEF StartPaging, heapVars
<1>11. ASSUME NEW v \in HeapPages, NEW dev \in Devices, MapPhysicalRegion(v, dev) PROVE FramesAccounted'
  BY <1>4, <1>11 DEF MapPhysicalRegion
<1>12. ASSUME NEW s \in Clones, NEW v \in HeapPages, CreateSpace(s, v) PROVE FramesAccounted'
  BY <1>4, <1>12 DEF CreateSpace
<1>13. ASSUME NEW s \in V!Spaces, Switch(s) PROVE FramesAccounted'
  BY <1>4, <1>13 DEF Switch, heapVars
<1>14. CASE UNCHANGED memoryVars
  BY <1>4, <1>14 DEF memoryVars, heapVars
<1> QED
  BY <1>5, <1>6, <1>7, <1>8, <1>9, <1>10, <1>11, <1>12, <1>13, <1>14 DEF MemoryNext

-----------------------------------------------------------------------------
(* Counting, with the library's facts about finite sets, and the theorems. *)

INSTANCE FiniteSetTheorems

\* The scan of alloc_frame returns a clear frame, and none before it is clear.
LEMMA FirstIsLeast ==
    ASSUME NEW S \in SUBSET Nat, S # {}
    PROVE  First(S) \in S /\ \A j \in S : First(S) <= j
<1> DEFINE R == OpToRel(<, Nat)
<1>1. \A x, y \in Nat : y < x => <<y, x>> \in R
  BY Zenon DEF OpToRel
<1>2. IsWellFoundedOn(R, Nat)
  BY Zenon, NatLessThanWellFounded
<1> HIDE DEF R
<1>3. PICK x \in S : \A y \in S : ~(<<y, x>> \in R)
  BY Zenon, <1>2, WFMin
<1>4. \A y \in S : x <= y
  <2> SUFFICES ASSUME NEW y \in S PROVE x <= y
    OBVIOUS
  <2>1. ~(y < x)
    BY Zenon, <1>1, <1>3
  <2> QED
    BY <2>1
<1> QED
  BY Zenon, <1>4 DEF First

\* Frames can be counted, and alloc_frame's scan finds a clear frame.
LEMMA FrameCountsHold == FrameCounts
<1>1. ASSUME NEW S \in SUBSET Frames PROVE IsFiniteSet(S) /\ Cardinality(S) \in Nat
  <2>1. IsFiniteSet(Frames)
    BY PmmAssumption, FS_Interval DEF Frames
  <2> QED
    BY <2>1, FS_Subset, FS_CardinalityType
<1>2. ASSUME NEW S \in SUBSET Frames, NEW T \in SUBSET Frames
      PROVE  Cardinality(S \cup T) = Cardinality(S) + Cardinality(T \ S)
  <2>1. S \cup T = S \cup (T \ S) /\ S \cap (T \ S) = {}
    OBVIOUS
  <2>2. IsFiniteSet(S) /\ IsFiniteSet(T \ S) /\ Cardinality(S) \in Nat /\ Cardinality(T \ S) \in Nat
    BY <1>1
  <2> QED
    <3>1. Cardinality(S \cup (T \ S)) = Cardinality(S) + Cardinality(T \ S) - Cardinality(S \cap (T \ S))
      BY Zenon, <2>2, FS_Union
    <3>2. Cardinality(S \cap (T \ S)) = 0
      BY Zenon, <2>1, FS_EmptySet
    <3> QED
      BY <2>1, <2>2, <3>1, <3>2
<1>3. Cardinality({}) = 0 /\ \A f \in Frames : Cardinality({f}) = 1
  BY Zenon, FS_EmptySet, FS_Singleton
<1>4. \A S \in SUBSET Nat : S # {} => First(S) \in S
  BY Zenon, FirstIsLeast
<1> QED
  BY Zenon, <1>1, <1>2, <1>3, <1>4 DEF FrameCounts

\* The inductive invariant holds in every reachable state.
THEOREM Inductive == Spec => []IInv
BY IInvInit, IInvNext, FrameCountsHold, PTL DEF Spec

\* g_free_frames always equals the number of clear bits, for every memory map.
THEOREM FreeCountAlwaysExact == Spec => []FreeCountExact
<1>1. IInv => FreeCountExact
  BY DEF IInv
<1> QED
  BY <1>1, Inductive, PTL

\* alloc_frame never hands out a frame that a caller still holds.
THEOREM FramesNeverShared == Spec => []NoFrameShared
<1>1. IInv => NoFrameShared
  BY DEF IInv
<1> QED
  BY <1>1, Inductive, PTL

\* Every frame handed out touches RAM and is clear of the first MiB and of the
\* kernel's image, init() leaves none behind, and the count is exact.
THEOREM PoolIsUsableRam == Spec => []PoolExact
<1>1. IInv => PoolExact
  BY IInvImplies DEF IInv, PoolExact
<1> QED
  BY <1>1, Inductive, PTL

\* Allocating and freeing neither creates nor loses a frame.
THEOREM PoolAlwaysConserved == Spec => PoolConserved
<1>1. ASSUME IInv, [Next]_vars
      PROVE  [phase = "ready" => clear' \cup owned' = clear \cup owned]_vars
  <2> SUFFICES ASSUME phase = "ready", Next PROVE clear' \cup owned' = clear \cup owned
    BY <1>1
  <2> QED
    BY <1>1, AllocMoves, FreeMoves, FrameCountsHold DEF Next, MapVisitor, ReserveFixed
<1> QED
  BY <1>1, Inductive, PTL DEF Spec, PoolConserved

\* The invariants of the frames, the tables and the heap hold together, from
\* pmm::init() on.
THEOREM MemoryInductive == MemorySpec => []MemoryInv
<1>1. MemoryInit => MemoryInv
  BY IInvInit, HeapInvInit, FrameCountsHold DEF MemoryInit, MemoryInv
<1> QED
  BY <1>1, MemoryInvNext, FrameCountsHold, PTL DEF MemorySpec

\* Every step of kmain(), of map_next_heap_page and of the drivers is one of the
\* frame allocator's or leaves it alone, so that all theorems about Pmm hold of
\* the kernel: free_frame is only called with a frame that the heap holds.
THEOREM KernelUsesPmm == MemorySpec => UsesPmm
<1>1. MemoryInit => Init
  BY DEF MemoryInit
<1>2. MemoryInv /\ [MemoryNext]_memoryVars => [Next]_vars
  BY PmmStep DEF MemoryInv
<1> QED
  BY <1>1, <1>2, MemoryInductive, PTL DEF MemorySpec, UsesPmm, Spec

\* Every step of the kernel is one of the page tables' or leaves them alone, so
\* that the theorems about Vmm hold of the kernel: map_next_heap_page and
\* map_physical_region call map_page with paging on, pages and frames that exist.
THEOREM KernelUsesVmm == MemorySpec => V!Spec
<1>1. MemoryInit => V!Init /\ BootOrder
  BY DEF MemoryInit, HeapInit, BootOrder
<1>2. MemoryInv => HeapInv
  BY DEF MemoryInv
<1>3. HeapInv /\ BootOrder /\ [MemoryNext]_memoryVars => [V!Next]_(V!vars)
  BY VmmStep
<1>4. MemorySpec => []HeapInv
  BY <1>2, MemoryInductive, PTL
<1>5. MemorySpec => []BootOrder
  BY <1>1, <1>4, BootOrderNext, PTL DEF MemorySpec
<1> QED
  BY <1>1, <1>3, <1>4, <1>5, PTL DEF MemorySpec, V!Spec

\* While the heap grows, drivers map registers and processes come and are
\* switched to, virt_to_phys and the MMU agree, and no page's translation
\* changes but that of the page mapped.
THEOREM KernelTranslationsAgree == MemorySpec => []V!TranslationsAgree /\ V!PageMapSpec
BY KernelUsesVmm, TranslationsAlwaysAgree, TablesImplementMap

\* The heap's pages are mapped exactly up to g_heap_mapped_end, each to a frame
\* of its own that is not in the pool, whatever map_next_heap_page,
\* map_physical_region and the switches of directory between them do.
THEOREM HeapAlwaysBacked == MemorySpec => []HeapBacked
<1>1. MemoryInv => HeapBacked
  BY HeapInvImplies DEF MemoryInv
<1> QED
  BY <1>1, MemoryInductive, PTL

\* map_next_heap_page keeps a frame for each page it maps and gives it back when
\* map_page fails: the frames held are those of the heap and of the boot test.
THEOREM FramesAlwaysAccounted == MemorySpec => []FramesAccounted
<1>1. MemoryInit => FramesAccounted
  BY DEF MemoryInit, Init, FramesAccounted
<1> QED
  BY <1>1, AccountsNext, MemoryInductive, FrameCountsHold, PTL DEF MemorySpec
=============================================================================
