------------------------------- MODULE Memory -------------------------------
(***************************************************************************)
(* User memory: the frame allocator (mm/pmm.c), page tables and copy on    *)
(* write (mm/paging.c), the program break and anonymous mappings           *)
(* (kernel/syscall/sys_mem.c), and the construction and tear-down of       *)
(* address spaces (kernel/proc/elf.c, kernel/proc/process.c).              *)
(*                                                                         *)
(* Frames hold user pages, page tables and page directories alike.  Each   *)
(* address space has a slot for its directory, one for every page table    *)
(* and one for every page; a page is reached through the table it falls    *)
(* in.  fork() lets two spaces share frames, marks what was writable as    *)
(* copy on write in both, and relies on a reference count per frame to     *)
(* know who is the last to let go.                                         *)
(*                                                                         *)
(* A system call or a fault is one step.  A frame is free exactly when its *)
(* count is zero: pmm.c changes the bitmap and the count together.  Which  *)
(* free frame is handed out is of no consequence and left to CHOOSE.       *)
(***************************************************************************)
EXTENDS Naturals, FiniteSets

CONSTANTS Space,     \* address spaces, of live tasks and of zombies
          Page,      \* user pages
          Table,     \* page tables
          TableOf,   \* the table each page falls in
          Dir,       \* the slot of the page directory
          Frame,     \* physical frames
          NoFrame,
          Value,     \* contents of a frame
          Zero,
          RefMax,    \* 255: where a reference count saturates
          Unmapped, NoSpace

Slot == Page \cup Table \cup {Dir}

(* A count cannot saturate while there are no more address spaces than it  *)
(* can count.                                                              *)
ASSUME MemoryAssumption == /\ \A S \in {Space, Page, Table, Frame} : IsFiniteSet(S)
                           /\ RefMax \in Nat
                           /\ Cardinality(Space) <= RefMax
                           /\ TableOf \in [Page -> Table]
                           /\ Page \cap Table = {} /\ Dir \notin Page \cup Table
                           /\ NoFrame \notin Frame /\ Zero \in Value
                           /\ Unmapped \notin Value
                           /\ NoSpace \notin [Page -> Value \cup {Unmapped}]

VARIABLES live,   \* the address spaces that exist
          owned,  \* those some task, running or zombie, owns
          own,    \* the frame in every slot of every space
          mode,   \* of every page: "none", "ro", "rw" or "cow" (PAGE_COW)
          refs,   \* pmm_refcount[]
          mem     \* the contents of every frame

vars == <<live, owned, own, mode, refs, mem>>

Init ==
    /\ live = {} /\ owned = {}
    /\ own = [s \in Space |-> [x \in Slot |-> NoFrame]]
    /\ mode = [s \in Space |-> [p \in Page |-> "none"]]
    /\ refs = [f \in Frame |-> 0]
    /\ mem = [f \in Frame |-> Zero]

---------------------------------------------------------------------------
(* The frame allocator. *)

Free == {f \in Frame : refs[f] = 0}

(* Mutant: a table whose last count is out of reach. *)
MutantRefStopsShort(n) == IF n + 1 = RefMax THEN n ELSE n + 1

(* pmm_ref_frame() refuses to wrap; pmm_free_frame() drops one owner. *)
Ref(n) == IF n = RefMax THEN n ELSE n + 1
Unref(n) == IF n > 1 THEN n - 1 ELSE 0

(* pmm_alloc_frame() for each of the slots X. *)
Fits(X) == Cardinality(X) <= Cardinality(Free)
Alloc(X) == CHOOSE a \in [X -> Free] : \A x, y \in X : a[x] = a[y] => x = y

Held(s) == {own[s][x] : x \in Slot} \ {NoFrame}
Present(s) == {p \in Page : mode[s][p] # "none"}
PagesHeld(s, P) == {own[s][p] : p \in P} \ {NoFrame}

(* The page tables map_page() has to build before P can be mapped in s. *)
TablesFor(P) == {TableOf[p] : p \in P}
MissingTables(s, P) == {t \in TablesFor(P) : own[s][t] = NoFrame}

---------------------------------------------------------------------------
(* load_and_exec_elf(): a fresh directory, and pages filled from the file. *)
(* When frames run out everything is given back; when create_process()     *)
(* fails (~created) nothing is, and no task owns the space.                *)
Exec(c, P, readonly, v, created) ==
    LET X == {Dir} \cup TablesFor(P) \cup P
        a == Alloc(X)
    IN /\ c \notin live /\ Fits(X)
       /\ live' = live \cup {c}
       /\ owned' = IF created THEN owned \cup {c} ELSE owned
       /\ own' = [own EXCEPT ![c] = [x \in Slot |-> IF x \in X THEN a[x] ELSE NoFrame]]
       /\ mode' = [mode EXCEPT ![c] = [p \in Page |-> IF p \notin P THEN "none"
                                          ELSE IF p \in readonly THEN "ro" ELSE "rw"]]
       /\ refs' = [f \in Frame |-> IF \E x \in X : a[x] = f THEN 1 ELSE refs[f]]
       /\ mem' = [f \in Frame |-> IF \E p \in P : a[p] = f THEN v
                                  ELSE IF \E x \in X : a[x] = f THEN Zero ELSE mem[f]]

(* copy_user_space(), first pass: what was writable becomes copy on write. *)
Tightened(s) == [p \in Page |-> IF mode[s][p] = "rw" THEN "cow" ELSE mode[s][p]]

(* sys_fork(): clone_page_directory() and both passes. *)
Fork(s, c) ==
    LET X == {Dir} \cup TablesFor(Present(s))
        a == Alloc(X)
    IN /\ s \in owned /\ c \notin live /\ Fits(X)
       /\ live' = live \cup {c}
       /\ owned' = owned \cup {c}
       /\ own' = [own EXCEPT ![c] = [x \in Slot |-> IF x \in X THEN a[x]
                                          ELSE IF x \in Page THEN own[s][x] ELSE NoFrame]]
       /\ mode' = [mode EXCEPT ![s] = Tightened(s), ![c] = Tightened(s)]
       /\ refs' = [f \in Frame |-> IF \E x \in X : a[x] = f THEN 1
                                   ELSE IF f \in PagesHeld(s, Page) THEN Ref(refs[f])
                                   ELSE refs[f]]
       /\ mem' = [f \in Frame |-> IF \E x \in X : a[x] = f THEN Zero ELSE mem[f]]

(* A fork that runs out of memory after the first pass: the references are *)
(* dropped, by copy_user_space() or with the child's directory, and the    *)
(* parent's pages stay marked.                                             *)
ForkFails(s) ==
    /\ s \in owned /\ live # Space /\ Fits({Dir})
    /\ mode' = [mode EXCEPT ![s] = Tightened(s)]
    /\ refs' = [f \in Frame |-> IF f \in PagesHeld(s, Page) THEN Unref(Ref(refs[f]))
                                ELSE refs[f]]
    /\ UNCHANGED <<live, owned, own, mem>>

(* cow_handle_fault(): the sole owner writes in place... *)
CowReuse(s, p) ==
    /\ s \in owned /\ mode[s][p] = "cow" /\ refs[own[s][p]] <= 1
    /\ mode' = [mode EXCEPT ![s] = [mode[s] EXCEPT ![p] = "rw"]]
    /\ UNCHANGED <<live, owned, own, refs, mem>>

(* ...and anyone else gets a private copy. *)
CowSplit(s, p) ==
    LET old == own[s][p]
        fresh == Alloc({p})[p]
    IN /\ s \in owned /\ mode[s][p] = "cow" /\ refs[old] > 1 /\ Fits({p})
       /\ own' = [own EXCEPT ![s] = [own[s] EXCEPT ![p] = fresh]]
       /\ mode' = [mode EXCEPT ![s] = [mode[s] EXCEPT ![p] = "rw"]]
       /\ refs' = [refs EXCEPT ![fresh] = 1, ![old] = Unref(refs[old])]
       /\ mem' = [mem EXCEPT ![fresh] = mem[old]]
       /\ UNCHANGED <<live, owned>>

(* A store by the program, once the page table lets it through. *)
Store(s, p, v) ==
    /\ s \in owned /\ mode[s][p] = "rw"
    /\ mem' = [mem EXCEPT ![own[s][p]] = v]
    /\ UNCHANGED <<live, owned, own, mode, refs>>

(* Mutant: map_zeroed_page() leaves in the page what its last owner wrote. *)
MutantGrowUnzeroed(s, P) ==
    LET X == P \cup MissingTables(s, P)
        a == Alloc(X)
    IN /\ s \in owned /\ P # {} /\ P \cap Present(s) = {} /\ Fits(X)
       /\ own' = [own EXCEPT ![s] = [x \in Slot |-> IF x \in X THEN a[x] ELSE own[s][x]]]
       /\ mode' = [mode EXCEPT ![s] = [p \in Page |-> IF p \in P THEN "rw" ELSE mode[s][p]]]
       /\ refs' = [f \in Frame |-> IF \E x \in X : a[x] = f THEN 1 ELSE refs[f]]
       /\ UNCHANGED <<live, owned, mem>>

(* brk() upwards and mmap(), for the pages P. *)
Grow(s, P) ==
    LET X == P \cup MissingTables(s, P)
        a == Alloc(X)
    IN /\ s \in owned /\ P # {} /\ P \cap Present(s) = {} /\ Fits(X)
       /\ own' = [own EXCEPT ![s] = [x \in Slot |-> IF x \in X THEN a[x] ELSE own[s][x]]]
       /\ mode' = [mode EXCEPT ![s] = [p \in Page |-> IF p \in P THEN "rw" ELSE mode[s][p]]]
       /\ refs' = [f \in Frame |-> IF \E x \in X : a[x] = f THEN 1 ELSE refs[f]]
       /\ mem' = [f \in Frame |-> IF \E x \in X : a[x] = f THEN Zero ELSE mem[f]]
       /\ UNCHANGED <<live, owned>>

(* All or nothing, but a page table built on the way stays. *)
GrowFails(s, P, T) ==
    /\ s \in owned /\ P \cap Present(s) = {} /\ ~Fits(P \cup MissingTables(s, P))
    /\ T \subseteq MissingTables(s, P) /\ T # {} /\ Fits(T)
    /\ own' = [own EXCEPT ![s] = [x \in Slot |-> IF x \in T THEN Alloc(T)[x] ELSE own[s][x]]]
    /\ refs' = [f \in Frame |-> IF \E x \in T : Alloc(T)[x] = f THEN 1 ELSE refs[f]]
    /\ mem' = [f \in Frame |-> IF \E x \in T : Alloc(T)[x] = f THEN Zero ELSE mem[f]]
    /\ UNCHANGED <<live, owned, mode>>

(* release_user_range(): brk() downwards and munmap(). *)
Shrink(s, P) ==
    /\ s \in owned /\ P # {} /\ P \subseteq Present(s)
    /\ own' = [own EXCEPT ![s] = [x \in Slot |-> IF x \in P THEN NoFrame ELSE own[s][x]]]
    /\ mode' = [mode EXCEPT ![s] = [p \in Page |-> IF p \in P THEN "none" ELSE mode[s][p]]]
    /\ refs' = [f \in Frame |-> IF f \in PagesHeld(s, P) THEN Unref(refs[f]) ELSE refs[f]]
    /\ UNCHANGED <<live, owned, mem>>

(* cleanup_process_memory(), once the space is not the one in CR3. *)
Release(s) ==
    /\ s \in owned
    /\ live' = live \ {s}
    /\ owned' = owned \ {s}
    /\ own' = [own EXCEPT ![s] = [x \in Slot |-> NoFrame]]
    /\ mode' = [mode EXCEPT ![s] = [p \in Page |-> "none"]]
    /\ refs' = [f \in Frame |-> IF f \in Held(s) THEN Unref(refs[f]) ELSE refs[f]]
    /\ UNCHANGED mem

Next ==
    \E s \in Space :
        \/ \E P \in SUBSET Page, v \in Value : \E R \in SUBSET P :
               \E created \in BOOLEAN : Exec(s, P, R, v, created)
        \/ \E c \in Space : Fork(s, c)
        \/ ForkFails(s) \/ Release(s)
        \/ \E p \in Page : CowReuse(s, p) \/ CowSplit(s, p)
        \/ \E p \in Page, v \in Value : Store(s, p, v)
        \/ \E P \in SUBSET Page : Grow(s, P) \/ Shrink(s, P)
        \/ \E P \in SUBSET Page, T \in SUBSET Table : GrowFails(s, P, T)

Spec == Init /\ [][Next]_vars

---------------------------------------------------------------------------
(* Properties *)

(* Every variable keeps its type; what a page table says and what a space  *)
(* holds agree, and a mapped page has a table to be reached through.       *)
TypeOK ==
    /\ live \subseteq Space /\ owned \subseteq live
    /\ own \in [Space -> [Slot -> Frame \cup {NoFrame}]]
    /\ mode \in [Space -> [Page -> {"none", "ro", "rw", "cow"}]]
    /\ refs \in [Frame -> 0..RefMax]
    /\ mem \in [Frame -> Value]
    /\ \A s \in Space, p \in Page : /\ mode[s][p] = "none" <=> own[s][p] = NoFrame
                                    /\ own[s][p] # NoFrame => own[s][TableOf[p]] # NoFrame
    /\ \A s \in Space, x \in Slot : own[s][x] # NoFrame => s \in live

Holders(f) == {s \in Space : f \in Held(s)}

(* In any order of fork, exec, copy-on-write fault, brk, munmap and exit,  *)
(* with memory running out anywhere, a reference count is exactly the      *)
(* number of address spaces that hold the frame: no frame is freed while   *)
(* it is in use and none is lost.                                          *)
RefsAreExact == \A f \in Frame : refs[f] = Cardinality(Holders(f))

(* A frame that one space may write in place is no part of any other       *)
(* space, and of none of its page tables.                                  *)
WritableIsPrivate ==
    \A s \in Space, p \in Page : mode[s][p] = "rw" =>
        \A t \in Space, x \in Slot :
            own[t][x] = own[s][p] => t = s /\ x = p

(* Frames are counted exactly and shared only where nobody writes, and     *)
(* page tables agree with what a space holds.                              *)
MemoryIsSound == TypeOK /\ RefsAreExact /\ WritableIsPrivate

(* What every program sees. *)
Image(s) == [p \in Page |-> IF own[s][p] = NoFrame THEN Unmapped ELSE mem[own[s][p]]]
Images == [s \in Space |-> IF s \in live THEN Image(s) ELSE NoSpace]

Private == INSTANCE PrivateMemory WITH image <- Images

(* Sharing frames is not observable: copy on write implements address      *)
(* spaces that are copied outright.                                        *)
ImplementsPrivateMemory == Private!Spec

============================================================================
