----------------------------- MODULE HeapBlocks -----------------------------
(***************************************************************************)
(* A heap's list of blocks in address order, as both allocators keep it:   *)
(* the kernel's (mm/kheap.c) and the one every program carries             *)
(* (include/umalloc.h). A block has the address of its header, the size of *)
(* what follows the header, whether it is free, and, not in the code, what *)
(* was asked for. Addresses and sizes are in units of 16 bytes, which both *)
(* allocators round every request up to.                                   *)
(***************************************************************************)
EXTENDS Integers, Sequences

FreeBlock(addr, size) == [addr |-> addr, size |-> size, free |-> TRUE, asked |-> 0]

EndOf(block, header) == block.addr + header + block.size

(* b begins exactly where a ends. *)
Adjacent(a, b, header) == EndOf(a, header) = b.addr

(* The first free block that is large enough, or 0. *)
FirstFit(blocks, need) ==
    LET fits == {i \in DOMAIN blocks : blocks[i].free /\ blocks[i].size >= need}
    IN IF fits = {} THEN 0 ELSE CHOOSE i \in fits : \A j \in fits : i <= j

(* Block i is given out; what is left becomes a block of its own when at least
   least units remain beyond its header. *)
Taken(blocks, i, need, header, least) ==
    LET b    == blocks[i]
        rest == b.size - need - header
    IN IF rest < least
       THEN [blocks EXCEPT ![i].free = FALSE, ![i].asked = need]
       ELSE SubSeq(blocks, 1, i - 1)
              \o <<[b EXCEPT !.free = FALSE, !.asked = need, !.size = need],
                   FreeBlock(b.addr + header + need, rest)>>
              \o SubSeq(blocks, i + 1, Len(blocks))

(* Block i swallows block i + 1 and its header. *)
Absorb(blocks, i, header) ==
    SubSeq(blocks, 1, i - 1)
      \o <<[blocks[i] EXCEPT !.size = @ + header + blocks[i + 1].size]>>
      \o SubSeq(blocks, i + 2, Len(blocks))

(* Every block ends before the next begins, what was given out is as large as
   what was asked for, and free neighbours in memory are one block. *)
WellFormed(blocks, header) ==
    /\ \A i \in 1..(Len(blocks) - 1) :
         /\ EndOf(blocks[i], header) <= blocks[i + 1].addr
         /\ ~(/\ Adjacent(blocks[i], blocks[i + 1], header)
              /\ blocks[i].free /\ blocks[i + 1].free)
    /\ \A i \in DOMAIN blocks : ~blocks[i].free => blocks[i].size >= blocks[i].asked
=============================================================================
