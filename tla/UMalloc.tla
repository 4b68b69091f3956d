------------------------------ MODULE UMalloc ------------------------------
(***************************************************************************)
(* The allocator every program carries (include/umalloc.h): small requests *)
(* from a run of blocks between the end of the image and the program       *)
(* break, large ones from a mapping of their own. The kernel's brk(),      *)
(* mmap() and munmap() may refuse, and round to pages.                     *)
(*                                                                         *)
(* uheap.blocks   umalloc_head and what follows it, the break heap         *)
(* uheap.brk      the program break, in units from where the heap begins   *)
(* uheap.maps     the sizes of the mappings in use, a sequence             *)
(***************************************************************************)
EXTENDS HeapBlocks

CONSTANTS
    UPageUnits,   \* the units of a page
    UMapMin,      \* UMALLOC_MMAP_MIN
    BrkLimit,     \* where brk() refuses
    MaxMaps,      \* the most mappings at a time
    USizes        \* the sizes that umalloc() is called with, in units

ASSUME UMallocAssumption == /\ UPageUnits \in Nat \ {0}
                            /\ {UMapMin, BrkLimit, MaxMaps} \cup USizes \subseteq Nat

VARIABLES uheap

UHeader == 1
ULeast  == 1

UHeapInit == uheap = [blocks |-> <<>>, brk |-> 0, maps |-> <<>>]

PageUp(n) == ((n + UPageUnits - 1) \div UPageUnits) * UPageUnits

------------------------------------------------------------------------------
(* The outcomes of brk(asked): refused, or moved to the end of a page. *)
Brk(h, asked) ==
    {h.brk} \cup {b \in {PageUp(asked)} : b <= BrkLimit}

(* The whole of what the break moved by becomes the last block. *)
GrownTo(h, got, need) ==
    [h EXCEPT !.brk = got, !.blocks = Append(@, FreeBlock(h.brk, got - h.brk - UHeader))]

(* umalloc_grow(): the break is moved, and given up when it did not move enough. *)
umalloc_grow(h, need) ==
    LET asked == h.brk + need + UHeader
    IN {IF got < asked THEN h ELSE GrownTo(h, got, need) : got \in Brk(h, asked)}

umalloc_split(h, i, need) ==
    [h EXCEPT !.blocks = Taken(@, i, need, UHeader, ULeast)]

(* umalloc() of fewer than UMapMin units: the first fit, or the new last block. *)
FromBreak(h, need) ==
    IF FirstFit(h.blocks, need) # 0
    THEN {<<umalloc_split(h, FirstFit(h.blocks, need), need), TRUE>>}
    ELSE {IF g = h THEN <<h, FALSE>>
          ELSE <<umalloc_split(g, Len(g.blocks), need), TRUE>> : g \in umalloc_grow(h, need)}

FromMap(h, need) ==
    {<<h, FALSE>>} \cup
      IF Len(h.maps) = MaxMaps THEN {}
      ELSE {<<[h EXCEPT !.maps = Append(@, need)], TRUE>>}

(* The outcomes of umalloc(): the heap and whether there was memory. *)
umalloc(h, need) ==
    IF need + UHeader >= UMapMin THEN FromMap(h, need) ELSE FromBreak(h, need)

MergeAdjacent(h, i) ==
    IF i \in 1..(Len(h.blocks) - 1) /\ h.blocks[i].free /\ h.blocks[i + 1].free
         /\ Adjacent(h.blocks[i], h.blocks[i + 1], UHeader)
    THEN [h EXCEPT !.blocks = Absorb(@, i, UHeader)] ELSE h

(* Mutant: a freed block does not join the one before it. *)
FreesForwardOnly(h, i) ==
    MergeAdjacent([h EXCEPT !.blocks[i].free = TRUE, !.blocks[i].asked = 0], i)

(* ufree() of a block of the break heap: a free successor is merged into it (the
   loop finds no second one, BreakHeapIsTiled), and then it into a free
   predecessor. *)
ufree(h, i) ==
    LET freed == [h EXCEPT !.blocks[i].free = TRUE, !.blocks[i].asked = 0]
    IN MergeAdjacent(MergeAdjacent(freed, i), i - 1)

(* ufree() of a mapping. *)
Unmapped(h, m) ==
    [h EXCEPT !.maps = SubSeq(@, 1, m - 1) \o SubSeq(@, m + 1, Len(@))]

InUse == {i \in DOMAIN uheap.blocks : ~uheap.blocks[i].free}

BlockAt(h, addr) == CHOOSE i \in DOMAIN h.blocks : h.blocks[i].addr = addr

UMallocCall(need) == \E r \in umalloc(uheap, need) : uheap' = r[1]

UFree == \/ \E i \in InUse : uheap' = ufree(uheap, i)
         \/ \E m \in DOMAIN uheap.maps : uheap' = Unmapped(uheap, m)

(* urealloc() of what is too small: a new block, the old one's contents, and the
   old one released; or nothing, when there is no new block. *)
URealloc(need) ==
    \/ \E i \in InUse :
         /\ uheap.blocks[i].size < need
         /\ \E r \in umalloc(uheap, need) :
              uheap' = IF r[2] THEN ufree(r[1], BlockAt(r[1], uheap.blocks[i].addr)) ELSE uheap
    \/ \E m \in DOMAIN uheap.maps :
         /\ uheap.maps[m] < need
         /\ \E r \in umalloc(uheap, need) : uheap' = IF r[2] THEN Unmapped(r[1], m) ELSE uheap

UHeapNext == UFree \/ \E need \in USizes : UMallocCall(need) \/ URealloc(need)

UHeapSpec == UHeapInit /\ [][UHeapNext]_uheap

------------------------------------------------------------------------------
(* The blocks of the break heap tile it from its beginning to the break: every
   block ends where the next begins, nothing is lost and nothing is counted
   twice; no two free neighbours are left unmerged; and every block in use is as
   large as what was asked for. "The break heap is one continuous run". *)
BreakHeapIsTiled ==
    LET blocks == uheap.blocks
    IN /\ WellFormed(blocks, UHeader)
       /\ \A i \in 1..(Len(blocks) - 1) : Adjacent(blocks[i], blocks[i + 1], UHeader)
       /\ uheap.brk = IF blocks = <<>> THEN 0 ELSE EndOf(blocks[Len(blocks)], UHeader)
       /\ blocks # <<>> => blocks[1].addr = 0
=============================================================================
