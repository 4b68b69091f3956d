------------------------------- MODULE KHeap -------------------------------
(***************************************************************************)
(* The kernel heap (mm/kheap.c): first fit over a list of blocks, growth   *)
(* by whole pages that may fail half way and is then rolled back, merging  *)
(* on release, and the return of whole pages at the end of the heap.       *)
(*                                                                         *)
(* kheap.blocks   heap_head ... heap_tail                                  *)
(* kheap.end      current_heap_end, in pages from KHEAP_START_VIRTUAL      *)
(* kheap.mapped   the pages of the heap that have a frame                  *)
(* kheap.frames   the frames the frame allocator has left                  *)
(* kheapOthers    not in the code: the frames everybody else holds         *)
(* Every operation runs with interrupts off.                               *)
(***************************************************************************)
EXTENDS HeapBlocks, FiniteSets

CONSTANTS
    PageUnits,    \* the units of a page: 4096 / 16 in the code
    Frames,       \* the frames of the machine
    KSizes        \* the sizes that kmalloc() is called with, in units

VARIABLES kheap, kheapOthers

KHeader == 2      \* sizeof(heap_block_t)
KLeast  == 1      \* size > need + sizeof(heap_block_t) + 4, in units

(* A page holds more than a header, and the machine has a frame for the first. *)
ASSUME KHeapAssumption == /\ PageUnits \in Nat /\ PageUnits > KHeader
                          /\ Frames \in Nat \ {0} /\ KSizes \subseteq Nat

kheapVars == <<kheap, kheapOthers>>

------------------------------------------------------------------------------
(* The page tables are there or not: map_page() may fail. i pages are added. *)
Installed(h, i) ==
    [h EXCEPT !.mapped = @ \cup (h.end .. h.end + i - 1), !.frames = @ - i,
              !.end = @ + i]

heap_rollback(h, start, count) ==
    LET pages == start .. start + count - 1
    IN [h EXCEPT !.mapped = @ \ pages, !.frames = @ + count, !.end = start]

(* The new pages are one free block, or more of the free block they meet. *)
AppendBlock(blocks, new) ==
    IF blocks # <<>> /\ blocks[Len(blocks)].free
         /\ Adjacent(blocks[Len(blocks)], new, KHeader)
    THEN Absorb(Append(blocks, new), Len(blocks), KHeader)
    ELSE Append(blocks, new)

(* The outcomes of heap_grow(): the heap, and whether it grew. *)
heap_grow(h, need) ==
    LET pages == (need + KHeader + PageUnits - 1) \div PageUnits
        new   == FreeBlock(h.end * PageUnits, pages * PageUnits - KHeader)
    IN IF pages > h.frames THEN {<<h, FALSE>>}
       ELSE {<<heap_rollback(Installed(h, i), h.end, i), FALSE>> : i \in 0..(pages - 1)}
            \cup {<<[Installed(h, pages) EXCEPT !.blocks = AppendBlock(@, new)], TRUE>>}

Give(h, need) ==
    [h EXCEPT !.blocks = Taken(@, FirstFit(@, need), need, KHeader, KLeast)]

(* The outcomes of kmalloc(): when nothing fits the heap grows, once, since the
   block that results is large enough; or the caller gets 0. *)
kmalloc(h, need) ==
    IF FirstFit(h.blocks, need) # 0 THEN {<<Give(h, need), TRUE>>}
    ELSE {IF g[2] THEN <<Give(g[1], need), TRUE>> ELSE g : g \in heap_grow(h, need)}

(* Mutant: blocks merge without asking whether they touch. *)
MergesListNeighbours(blocks, i) ==
    IF i \in 1..(Len(blocks) - 1) /\ blocks[i].free /\ blocks[i + 1].free
    THEN Absorb(blocks, i, KHeader) ELSE blocks

(* Both merges of kfree(), each guarded by heap_blocks_adjacent(). *)
MergeWithNext(blocks, i) ==
    IF i \in 1..(Len(blocks) - 1) /\ blocks[i].free /\ blocks[i + 1].free
         /\ Adjacent(blocks[i], blocks[i + 1], KHeader)
    THEN Absorb(blocks, i, KHeader) ELSE blocks

WholePages(size) == size \div PageUnits

(* The end of kfree(): whole pages of a free block at the tail go back, and a
   remainder that could not hold a header is dropped from the list. *)
ShrinkTail(h) ==
    LET n     == Len(h.blocks)
        pages == WholePages(h.blocks[n].size)
        left  == h.blocks[n].size - pages * PageUnits
        cut   == (h.end - pages) .. (h.end - 1)
    IN [h EXCEPT !.mapped = @ \ cut, !.end = @ - pages,
                 !.frames = @ + Cardinality(h.mapped \cap cut),
                 !.blocks = IF pages = 0 THEN @
                            ELSE IF left < KHeader THEN SubSeq(@, 1, n - 1)
                            ELSE [@ EXCEPT ![n].size = left]]

(* kfree() of the block i, which is allocated. *)
kfree(h, i) ==
    LET freed   == [h.blocks EXCEPT ![i].free = TRUE, ![i].asked = 0]
        merged  == MergeWithNext(MergeWithNext(freed, i), i - 1)
        wasTail == merged[Len(merged)].free /\ merged[Len(merged)].addr <= h.blocks[i].addr
        after   == [h EXCEPT !.blocks = merged]
    IN IF wasTail THEN ShrinkTail(after) ELSE after

KHeapInit ==
    /\ kheap = [blocks |-> <<FreeBlock(0, PageUnits - KHeader)>>, end |-> 1,
                mapped |-> {0}, frames |-> Frames - 1]
    /\ kheapOthers = 0

Allocated == {i \in DOMAIN kheap.blocks : ~kheap.blocks[i].free}

KMalloc(need) ==
    /\ \E r \in kmalloc(kheap, need) : kheap' = r[1]
    /\ UNCHANGED kheapOthers

KFree(i) ==
    /\ kheap' = kfree(kheap, i)
    /\ UNCHANGED kheapOthers

PlaceOf(h, addr) == CHOOSE i \in DOMAIN h.blocks : h.blocks[i].addr = addr

(* krealloc() to a size that is not 0: a block that is large enough stays;
   otherwise a new one is filled from it and the old one released, and when
   there is none the old one is kept. *)
KRealloc(i, need) ==
    /\ kheap.blocks[i].size < need
    /\ \E r \in kmalloc(kheap, need) :
         kheap' = IF r[2] THEN kfree(r[1], PlaceOf(r[1], kheap.blocks[i].addr)) ELSE r[1]
    /\ UNCHANGED kheapOthers

(* Everybody else takes and returns frames. *)
OthersTake ==
    /\ kheap.frames > 0
    /\ kheap' = [kheap EXCEPT !.frames = @ - 1]
    /\ kheapOthers' = kheapOthers + 1

OthersReturn ==
    /\ kheapOthers > 0
    /\ kheap' = [kheap EXCEPT !.frames = @ + 1]
    /\ kheapOthers' = kheapOthers - 1

KHeapNext ==
    \/ \E need \in KSizes : KMalloc(need)
    \/ \E i \in Allocated : KFree(i)
    \/ \E i \in Allocated, need \in KSizes : KRealloc(i, need)
    \/ OthersTake
    \/ OthersReturn

KHeapSpec == KHeapInit /\ [][KHeapNext]_kheapVars

------------------------------------------------------------------------------
(* Whatever is allocated and released, in any order and with growth failing
   half way: no two blocks share memory, all of them lie below the end of the
   heap, every page below the end has a frame, memory belongs to no block only
   just before the page where a later growth began, and heap_grow(), its roll
   back and the trimming in kfree() neither lose a frame nor return one twice. *)
KHeapIsSound ==
    LET blocks == kheap.blocks
    IN /\ WellFormed(blocks, KHeader)
       /\ kheap.mapped = 0..(kheap.end - 1)
       /\ blocks # <<>> => EndOf(blocks[Len(blocks)], KHeader) <= kheap.end * PageUnits
       /\ \A i \in 1..(Len(blocks) - 1) :
            \/ Adjacent(blocks[i], blocks[i + 1], KHeader)
            \/ blocks[i + 1].addr % PageUnits = 0
       /\ kheap.frames + Cardinality(kheap.mapped) + kheapOthers = Frames
=============================================================================
