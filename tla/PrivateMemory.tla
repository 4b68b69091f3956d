--------------------------- MODULE PrivateMemory ---------------------------
(***************************************************************************)
(* What fork(), brk(), mmap() and exec() promise a program: an address     *)
(* space of its own.  A fork copies it, a store changes one page of one    *)
(* space, and nothing another program does can change it.                  *)
(***************************************************************************)
CONSTANTS Space, Page, Value, Zero, Unmapped, NoSpace

VARIABLE image  \* of every address space, the contents of its pages

Init == image = [s \in Space |-> NoSpace]

(* exec() builds a space from a program file. *)
Exec(c) ==
    /\ image[c] = NoSpace
    /\ \E contents \in [Page -> Value \cup {Unmapped}] :
         image' = [image EXCEPT ![c] = contents]

Fork(s, c) ==
    /\ image[s] # NoSpace /\ image[c] = NoSpace
    /\ image' = [image EXCEPT ![c] = image[s]]

Store(s, p, v) ==
    /\ image[s] # NoSpace /\ image[s][p] # Unmapped
    /\ image' = [image EXCEPT ![s] = [image[s] EXCEPT ![p] = v]]

(* brk() and mmap(): fresh pages read as zero. *)
Grow(s, P) ==
    /\ image[s] # NoSpace /\ \A p \in P : image[s][p] = Unmapped
    /\ image' = [image EXCEPT ![s] = [p \in Page |-> IF p \in P THEN Zero ELSE image[s][p]]]

Shrink(s, P) ==
    /\ image[s] # NoSpace
    /\ image' = [image EXCEPT ![s] =
                   [p \in Page |-> IF p \in P THEN Unmapped ELSE image[s][p]]]

Release(s) ==
    /\ image[s] # NoSpace
    /\ image' = [image EXCEPT ![s] = NoSpace]

Next ==
    \E s \in Space :
        \/ Exec(s) \/ Release(s)
        \/ \E c \in Space : Fork(s, c)
        \/ \E p \in Page, v \in Value : Store(s, p, v)
        \/ \E P \in SUBSET Page : Grow(s, P) \/ Shrink(s, P)

Spec == Init /\ [][Next]_image
============================================================================
