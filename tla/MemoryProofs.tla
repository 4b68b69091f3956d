---------------------------- MODULE MemoryProofs ----------------------------
(***************************************************************************)
(* For any number of address spaces, pages and frames: the reference       *)
(* counts are exact, a writable frame is private, and copy on write is     *)
(* indistinguishable from copying.                                         *)
(*                                                                         *)
(* None of this is inductive alone.  A count says how many spaces hold a   *)
(* frame, so taking a slot's frame away lowers it by one only because no   *)
(* space holds a frame in two slots (OneSlot); that a store goes to a      *)
(* private frame rests on the count when a copy-on-write page is reused    *)
(* in place; and the count can be raised only because it has not           *)
(* saturated, which is where Cardinality(Space) <= RefMax comes in.        *)
(***************************************************************************)
EXTENDS Memory, FunctionTheorems, FiniteSetTheorems, TLAPS

(* No address space holds a frame in two of its slots. *)
OneSlot ==
    \A s \in Space, x, y \in Slot : own[s][x] = own[s][y] /\ own[s][x] # NoFrame => x = y

Inv == TypeOK /\ OneSlot /\ RefsAreExact /\ WritableIsPrivate

---------------------------------------------------------------------------
(* Slots *)

(* A space has finitely many slots. *)
LEMMA SlotFinite == IsFiniteSet(Slot)
  <1>1. IsFiniteSet(Page \cup Table) BY FS_Union, MemoryAssumption
  <1> QED BY <1>1, FS_AddElement DEF Slot

(* pmm_alloc_frame() hands out free frames, never one of them twice. *)
Allocated(X, a) == a \in [X -> Free] /\ \A x, y \in X : a[x] = a[y] => x = y

(* Whenever there are enough free frames, Alloc finds distinct ones. *)
LEMMA AllocAllocates ==
  ASSUME NEW X \in SUBSET Slot, Fits(X)
  PROVE  Allocated(X, Alloc(X))
  <1>1. IsFiniteSet(X) /\ IsFiniteSet(Free)
    BY SlotFinite, FS_Subset, MemoryAssumption DEF Free
  <1> DEFINE m == Cardinality(X)
             n == Cardinality(Free)
  <1>2. m \in Nat /\ n \in Nat /\ m <= n
    BY <1>1, FS_CardinalityType DEF Fits
  <1>3. ExistsBijection(1..m, X) /\ ExistsBijection(1..n, Free)
    BY <1>1, FS_CardinalityType
  <1> HIDE DEF m, n
  <1>4. ExistsInjection(X, 1..m) /\ ExistsInjection(1..n, Free)
    BY <1>3, Fun_ExistsBijSymmetric DEF ExistsBijection, ExistsInjection, Bijection
  <1>5. ExistsInjection(1..m, 1..n)
    BY <1>2, Fun_NatInjLeq
  <1>6. ExistsInjection(X, Free)
    BY <1>4, <1>5, Fun_ExistsInjTransitive
  <1>7. \E a \in [X -> Free] : \A x, y \in X : a[x] = a[y] => x = y
    BY <1>6 DEF ExistsInjection, Injection, IsInjective
  <1> QED BY <1>7 DEF Alloc, Allocated

(* The sets of spaces that hold a frame are finite, and as large as its    *)
(* count.                                                                  *)
LEMMA HoldersFinite ==
  ASSUME NEW f
  PROVE  IsFiniteSet(Holders(f)) /\ Cardinality(Holders(f)) \in Nat
  BY FS_Subset, FS_CardinalityType, MemoryAssumption DEF Holders

(* A free frame is in nobody's hands. *)
LEMMA FreeIsUnheld ==
  ASSUME Inv, NEW f \in Free
  PROVE  \A s \in Space, x \in Slot : own[s][x] # f
  <1>1. Cardinality(Holders(f)) = 0 BY DEF Inv, RefsAreExact, Free
  <1>2. Holders(f) = {} BY <1>1, HoldersFinite, FS_EmptySet
  <1>3. f # NoFrame BY MemoryAssumption DEF Free
  <1> QED BY <1>2, <1>3 DEF Holders, Held

---------------------------------------------------------------------------
(* The two ways slots change hands *)

(* Space s, which had nothing in the slots X, is given fresh frames there. *)
Gives(s, X, a) ==
    /\ X \subseteq Slot /\ Allocated(X, a)
    /\ \A x \in X : own[s][x] = NoFrame
    /\ own' = [own EXCEPT ![s] = [x \in Slot |-> IF x \in X THEN a[x] ELSE own[s][x]]]
    /\ refs' = [f \in Frame |-> IF \E x \in X : a[x] = f THEN 1 ELSE refs[f]]

(* Space s gives back what it has in the slots Y. *)
Drops(s, Y) ==
    /\ Y \subseteq Slot
    /\ own' = [own EXCEPT ![s] = [x \in Slot |-> IF x \in Y THEN NoFrame ELSE own[s][x]]]
    /\ refs' = [f \in Frame |-> IF \E x \in Y : own[s][x] = f THEN Unref(refs[f]) ELSE refs[f]]

OwnType == own \in [Space -> [Slot -> Frame \cup {NoFrame}]]
RefsType == refs \in [Frame -> 0..RefMax]

(* A count can express one owner as soon as there is one space. *)
LEMMA RefMaxPositive ==
  ASSUME NEW s \in Space
  PROVE  RefMax \in Nat /\ RefMax >= 1
  <1>1. Cardinality({s}) <= Cardinality(Space)
    BY FS_Subset, MemoryAssumption
  <1>2. Cardinality(Space) \in Nat /\ Cardinality({s}) = 1
    BY FS_CardinalityType, FS_Singleton, MemoryAssumption
  <1> QED BY <1>1, <1>2, MemoryAssumption

(* Fresh frames went to the slots X of s and to nobody else. *)
GivenTo(s, X, a) ==
    /\ OwnType'
    /\ \A t \in Space, x \in Slot :
         own'[t][x] = IF t = s /\ x \in X THEN a[x] ELSE own[t][x]
    /\ \A x \in X : /\ a[x] \in Frame /\ refs[a[x]] = 0
                    /\ \A t \in Space, y \in Slot : own[t][y] # a[x]

(* And a Gives step does that. *)
LEMMA GivesMoves ==
  ASSUME Inv, NEW s \in Space, NEW X, NEW a, Gives(s, X, a)
  PROVE  GivenTo(s, X, a)
  <1>1. \A x \in X : a[x] \in Free BY DEF Gives, Allocated
  <1>2. \A x \in X : a[x] \in Frame /\ refs[a[x]] = 0 BY <1>1 DEF Free
  <1>3. OwnType BY DEF Inv, TypeOK, OwnType
  <1>4. OwnType' BY <1>2, <1>3 DEF Gives, OwnType
  <1>5. \A t \in Space, x \in Slot :
          own'[t][x] = IF t = s /\ x \in X THEN a[x] ELSE own[t][x]
    BY <1>3 DEF Gives, OwnType
  <1> QED BY <1>1, <1>2, <1>4, <1>5, FreeIsUnheld DEF GivenTo

(* A space given fresh frames still has no frame in two slots. *)
LEMMA GivesKeepsOneSlot ==
  ASSUME Inv, NEW s \in Space, NEW X, NEW a, Gives(s, X, a)
  PROVE  OneSlot'
  <1>g. GivenTo(s, X, a) BY GivesMoves
  <1> SUFFICES ASSUME NEW t \in Space, NEW x \in Slot, NEW y \in Slot,
                      own'[t][x] = own'[t][y], own'[t][x] # NoFrame
               PROVE  x = y
    BY DEF OneSlot
  <1> DEFINE new(t1, x1) == t1 = s /\ x1 \in X
  <1>1. CASE new(t, x) /\ new(t, y)
    BY <1>1, <1>g DEF GivenTo, Gives, Allocated
  <1>2. CASE new(t, x) /\ ~new(t, y)
    BY <1>2, <1>g DEF GivenTo
  <1>3. CASE ~new(t, x) /\ new(t, y)
    BY <1>3, <1>g DEF GivenTo
  <1>4. CASE ~new(t, x) /\ ~new(t, y)
    BY <1>4, <1>g DEF GivenTo, Inv, OneSlot
  <1> QED BY <1>1, <1>2, <1>3, <1>4

(* A fresh frame has one holder and the count 1; the rest is untouched. *)
LEMMA GivesKeepsCounts ==
  ASSUME Inv, NEW s \in Space, NEW X, NEW a, Gives(s, X, a)
  PROVE  RefsAreExact' /\ RefsType'
  <1>g. GivenTo(s, X, a) BY GivesMoves
  <1>t. RefsType BY DEF Inv, TypeOK, RefsType
  <1>1. RefsType'
    BY <1>t, RefMaxPositive DEF Gives, RefsType
  <1>2. ASSUME NEW f \in Frame PROVE refs'[f] = Cardinality(Holders(f)')
    <2>0. f # NoFrame BY MemoryAssumption
    <2>1. CASE \E x \in X : a[x] = f
      <3>1. refs'[f] = 1 BY <2>1 DEF Gives
      <3>2. PICK x \in X : a[x] = f BY <2>1
      <3>3. x \in Slot BY DEF Gives
      <3>4. own'[s][x] = f BY <3>2, <3>3, <1>g DEF GivenTo
      <3>5. ASSUME NEW t \in Space, NEW y \in Slot, own'[t][y] = f PROVE t = s
        BY <3>2, <3>5, <1>g DEF GivenTo
      <3>6. Holders(f)' = {s}
        BY <2>0, <3>3, <3>4, <3>5 DEF Holders, Held
      <3> QED BY <3>1, <3>6, FS_Singleton
    <2>2. CASE ~\E x \in X : a[x] = f
      <3>1. refs'[f] = refs[f] BY <2>2 DEF Gives
      <3>2. \A t \in Space, y \in Slot : own'[t][y] = f <=> own[t][y] = f
        BY <2>0, <2>2, <1>g DEF GivenTo, Gives
      <3>3. Holders(f)' = Holders(f) BY <2>0, <3>2 DEF Holders, Held
      <3> QED BY <3>1, <3>3 DEF Inv, RefsAreExact
    <2> QED BY <2>1, <2>2
  <1> QED BY <1>1, <1>2 DEF RefsAreExact

(* Frames given to s are in no other slot, so what was private stays so;   *)
(* the pages among X may become writable.                                  *)
LEMMA GivesKeepsPrivacy ==
  ASSUME Inv, NEW s \in Space, NEW X, NEW a, Gives(s, X, a),
         \A t \in Space, p \in Page :
             mode'[t][p] = "rw" => (t = s /\ p \in X) \/ mode[t][p] = "rw"
  PROVE  WritableIsPrivate'
  <1>g. GivenTo(s, X, a) BY GivesMoves
  <1> SUFFICES ASSUME NEW t \in Space, NEW p \in Page, mode'[t][p] = "rw",
                      NEW u \in Space, NEW x \in Slot, own'[u][x] = own'[t][p]
               PROVE  u = t /\ x = p
    BY DEF WritableIsPrivate
  <1>0. p \in Slot BY DEF Slot
  <1>1. CASE t = s /\ p \in X
    BY <1>0, <1>1, <1>g DEF GivenTo, Gives, Allocated
  <1>2. CASE ~(t = s /\ p \in X)
    <2>1. mode[t][p] = "rw" /\ own'[t][p] = own[t][p] BY <1>0, <1>2, <1>g DEF GivenTo
    <2>2. own'[u][x] = own[u][x] BY <1>0, <2>1, <1>g DEF GivenTo
    <2> QED BY <2>1, <2>2 DEF Inv, WritableIsPrivate
  <1> QED BY <1>1, <1>2

(* Only the slots Y of s are emptied. *)
LEMMA DropsMoves ==
  ASSUME Inv, NEW s \in Space, NEW Y, Drops(s, Y)
  PROVE  /\ OwnType'
         /\ \A t \in Space, x \in Slot :
              own'[t][x] = IF t = s /\ x \in Y THEN NoFrame ELSE own[t][x]
  BY DEF Inv, TypeOK, OwnType, Drops

(* Giving frames back puts none into a second slot. *)
LEMMA DropsKeepsOneSlot ==
  ASSUME Inv, NEW s \in Space, NEW Y, Drops(s, Y)
  PROVE  OneSlot'
  BY DropsMoves DEF Inv, OneSlot

(* One holder fewer: what pmm_free_frame() makes of an exact count. *)
LEMMA OneHolderLess ==
  ASSUME Inv, NEW f \in Frame, NEW s \in Holders(f)
  PROVE  /\ Unref(refs[f]) = Cardinality(Holders(f) \ {s})
         /\ Unref(refs[f]) \in 0..RefMax
  <1>1. refs[f] \in 0..RefMax /\ refs[f] = Cardinality(Holders(f))
    BY DEF Inv, TypeOK, RefsAreExact
  <1>2. refs[f] # 0
    BY <1>1, HoldersFinite, FS_EmptySet
  <1>3. Cardinality(Holders(f) \ {s}) = refs[f] - 1
    BY <1>1, HoldersFinite, FS_RemoveElement
  <1> QED BY <1>1, <1>2, <1>3, MemoryAssumption DEF Unref

(* pmm_free_frame() once per dropped slot keeps every count exact. *)
LEMMA DropsKeepsCounts ==
  ASSUME Inv, NEW s \in Space, NEW Y, Drops(s, Y)
  PROVE  RefsAreExact' /\ RefsType'
  <1>1. ASSUME NEW f \in Frame
        PROVE  refs'[f] = Cardinality(Holders(f)') /\ refs'[f] \in 0..RefMax
    <2>0. f # NoFrame BY MemoryAssumption
    <2>1. CASE \E x \in Y : own[s][x] = f
      <3>1. refs'[f] = Unref(refs[f]) BY <2>1 DEF Drops
      <3>2. PICK x \in Y : own[s][x] = f BY <2>1
      <3>3. x \in Slot BY DEF Drops
      <3>4. s \in Holders(f) BY <2>0, <3>2, <3>3 DEF Holders, Held
      <3>5. \A y \in Slot : own'[s][y] # f
        BY <2>0, <3>2, <3>3, DropsMoves DEF Inv, OneSlot
      <3>6. \A t \in Space \ {s}, y \in Slot : own'[t][y] = own[t][y]
        BY DropsMoves
      <3>7. Holders(f)' = Holders(f) \ {s}
        BY <2>0, <3>5, <3>6 DEF Holders, Held
      <3> QED BY <3>1, <3>4, <3>7, OneHolderLess
    <2>2. CASE ~\E x \in Y : own[s][x] = f
      <3>1. refs'[f] = refs[f] BY <2>2 DEF Drops
      <3>2. \A t \in Space, y \in Slot : own'[t][y] = f <=> own[t][y] = f
        BY <2>0, <2>2, DropsMoves
      <3>3. Holders(f)' = Holders(f) BY <2>0, <3>2 DEF Holders, Held
      <3> QED BY <3>1, <3>3 DEF Inv, RefsAreExact, TypeOK
    <2> QED BY <2>1, <2>2
  <1>2. refs' = [f \in Frame |-> refs'[f]] BY DEF Drops
  <1> QED BY <1>1, <1>2 DEF RefsAreExact, RefsType

(* Giving frames back shares none of the writable ones. *)
LEMMA DropsKeepsPrivacy ==
  ASSUME Inv, NEW s \in Space, NEW Y, Drops(s, Y),
         \A t \in Space, p \in Page :
             mode'[t][p] = "rw" => mode[t][p] = "rw" /\ ~(t = s /\ p \in Y)
  PROVE  WritableIsPrivate'
  <1> SUFFICES ASSUME NEW t \in Space, NEW p \in Page, mode'[t][p] = "rw",
                      NEW u \in Space, NEW x \in Slot, own'[u][x] = own'[t][p]
               PROVE  u = t /\ x = p
    BY DEF WritableIsPrivate
  <1>0. p \in Slot BY DEF Slot
  <1>1. mode[t][p] = "rw" /\ own'[t][p] = own[t][p] BY <1>0, DropsMoves
  <1>2. own[t][p] # NoFrame BY <1>1 DEF Inv, TypeOK
  <1>3. own'[u][x] = own[u][x] BY <1>1, <1>2, DropsMoves
  <1> QED BY <1>1, <1>3 DEF Inv, WritableIsPrivate

---------------------------------------------------------------------------
(* One lemma per action *)

Modes == {"none", "ro", "rw", "cow"}
RestType == /\ live \subseteq Space /\ owned \subseteq live
            /\ mode \in [Space -> [Page -> Modes]]
            /\ mem \in [Frame -> Value]
(* Page tables and slots agree. *)
Agree ==
    /\ \A s \in Space, p \in Page : /\ mode[s][p] = "none" <=> own[s][p] = NoFrame
                                    /\ own[s][p] # NoFrame => own[s][TableOf[p]] # NoFrame
    /\ \A s \in Space, x \in Slot : own[s][x] # NoFrame => s \in live

(* The type invariant, taken apart. *)
LEMMA TypeOKParts == TypeOK <=> OwnType /\ RefsType /\ RestType /\ Agree
  BY DEF TypeOK, OwnType, RefsType, RestType, Agree, Modes

(* Pages, tables and the directory are slots of different kinds. *)
LEMMA SlotKinds ==
  /\ Page \subseteq Slot /\ Table \subseteq Slot /\ Dir \in Slot
  /\ \A p \in Page : TableOf[p] \in Table /\ p \notin Table /\ p # Dir
  BY MemoryAssumption DEF Slot

(* load_and_exec_elf(), successful or not, keeps the invariant. *)
LEMMA ExecKeepsInv ==
  ASSUME Inv, NEW c \in Space, NEW P \in SUBSET Page, NEW R \in SUBSET P, NEW v \in Value,
         NEW created \in BOOLEAN, Exec(c, P, R, v, created)
  PROVE  Inv'
  <1> DEFINE X == {Dir} \cup TablesFor(P) \cup P
             a == Alloc(X)
  <1>t. OwnType /\ RefsType /\ RestType /\ Agree BY TypeOKParts DEF Inv
  <1>1. X \in SUBSET Slot BY SlotKinds DEF TablesFor
  <1>2. Allocated(X, a) BY <1>1, AllocAllocates DEF Exec
  <1>3. c \notin live /\ \A x \in Slot : own[c][x] = NoFrame
    BY <1>t DEF Exec, Agree
  <1>e. /\ live' = live \cup {c}
        /\ owned' = IF created THEN owned \cup {c} ELSE owned
        /\ own' = [own EXCEPT ![c] = [x \in Slot |-> IF x \in X THEN a[x] ELSE NoFrame]]
        /\ mode' = [mode EXCEPT ![c] = [p \in Page |-> IF p \notin P THEN "none"
                                          ELSE IF p \in R THEN "ro" ELSE "rw"]]
        /\ refs' = [f \in Frame |-> IF \E x \in X : a[x] = f THEN 1 ELSE refs[f]]
        /\ mem' = [f \in Frame |-> IF \E p \in P : a[p] = f THEN v
                                  ELSE IF \E x \in X : a[x] = f THEN Zero ELSE mem[f]]
    BY DEF Exec
  <1>p. P \subseteq X /\ (\A p \in P : TableOf[p] \in X) /\ \A p \in Page \ P : p \notin X
    BY SlotKinds DEF TablesFor
  <1> HIDE DEF X, a
  <1>4. [x \in Slot |-> IF x \in X THEN a[x] ELSE NoFrame]
          = [x \in Slot |-> IF x \in X THEN a[x] ELSE own[c][x]]
    BY <1>3
  <1>5. Gives(c, X, a) BY <1>1, <1>2, <1>3, <1>4, <1>e DEF Gives
  <1>g. GivenTo(c, X, a) BY <1>5, GivesMoves
  <1>6. RestType' BY <1>t, <1>e, MemoryAssumption DEF RestType, Modes
  <1>m. \A t \in Space, p \in Page :
          mode'[t][p] = IF t # c THEN mode[t][p]
                        ELSE IF p \notin P THEN "none" ELSE IF p \in R THEN "ro" ELSE "rw"
    BY <1>t, <1>e DEF RestType
  <1>7. Agree'
    <2>1. \A x \in X : a[x] # NoFrame BY <1>g, MemoryAssumption DEF GivenTo
    <2>2. ASSUME NEW t \in Space, NEW p \in Page
          PROVE  /\ mode'[t][p] = "none" <=> own'[t][p] = NoFrame
                 /\ own'[t][p] # NoFrame => own'[t][TableOf[p]] # NoFrame
      <3>1. CASE t # c BY <3>1, <1>t, <1>m, <1>g, SlotKinds DEF GivenTo, Agree
      <3>2. CASE t = c BY <3>2, <2>1, <1>m, <1>p, <1>3, <1>g, SlotKinds DEF GivenTo
      <3> QED BY <3>1, <3>2
    <2>3. \A t \in Space, x \in Slot : own'[t][x] # NoFrame => t \in live'
      BY <1>t, <1>e, <1>g DEF GivenTo, Agree
    <2> QED BY <2>2, <2>3 DEF Agree
  <1>8. WritableIsPrivate'
    <2>1. \A t \in Space, p \in Page :
             mode'[t][p] = "rw" => (t = c /\ p \in X) \/ mode[t][p] = "rw"
      BY <1>m, <1>p
    <2> QED BY <2>1, <1>5, GivesKeepsPrivacy
  <1> QED BY <1>5, <1>6, <1>7, <1>8, <1>g, GivesKeepsOneSlot, GivesKeepsCounts,
             TypeOKParts DEF GivenTo, Inv, TypeOK, OwnType, RefsType, RestType, Agree, Modes

(* brk() upwards and mmap() keep the invariant. *)
LEMMA GrowKeepsInv ==
  ASSUME Inv, NEW s \in Space, NEW P \in SUBSET Page, Grow(s, P)
  PROVE  Inv'
  <1> DEFINE X == P \cup MissingTables(s, P)
             a == Alloc(X)
  <1>t. OwnType /\ RefsType /\ RestType /\ Agree BY TypeOKParts DEF Inv
  <1>1. X \in SUBSET Slot BY SlotKinds DEF TablesFor, MissingTables
  <1>2. Allocated(X, a) BY <1>1, AllocAllocates DEF Grow
  <1>3. \A x \in X : own[s][x] = NoFrame
    BY <1>t DEF Grow, Agree, Present, MissingTables
  <1>e. /\ s \in owned /\ UNCHANGED <<live, owned>>
        /\ own' = [own EXCEPT ![s] = [x \in Slot |-> IF x \in X THEN a[x] ELSE own[s][x]]]
        /\ mode' = [mode EXCEPT ![s] = [p \in Page |-> IF p \in P THEN "rw" ELSE mode[s][p]]]
        /\ refs' = [f \in Frame |-> IF \E x \in X : a[x] = f THEN 1 ELSE refs[f]]
        /\ mem' = [f \in Frame |-> IF \E x \in X : a[x] = f THEN Zero ELSE mem[f]]
    BY DEF Grow
  <1>p. P \subseteq X /\ \A p \in Page \ P : p \notin X
    BY SlotKinds DEF TablesFor, MissingTables
  <1>q. \A p \in P : TableOf[p] \in X \/ own[s][TableOf[p]] # NoFrame
    BY DEF TablesFor, MissingTables
  <1> HIDE DEF X, a
  <1>5. Gives(s, X, a) BY <1>1, <1>2, <1>3, <1>e DEF Gives
  <1>g. GivenTo(s, X, a) BY <1>5, GivesMoves
  <1>6. RestType' BY <1>t, <1>e, MemoryAssumption DEF RestType, Modes
  <1>m. \A t \in Space, p \in Page :
          mode'[t][p] = IF t = s /\ p \in P THEN "rw" ELSE mode[t][p]
    BY <1>t, <1>e DEF RestType
  <1>7. Agree'
    <2>1. \A x \in X : a[x] # NoFrame BY <1>g, MemoryAssumption DEF GivenTo
    <2>2. ASSUME NEW t \in Space, NEW p \in Page
          PROVE  /\ mode'[t][p] = "none" <=> own'[t][p] = NoFrame
                 /\ own'[t][p] # NoFrame => own'[t][TableOf[p]] # NoFrame
      <3>1. CASE ~(t = s /\ p \in P)
        BY <3>1, <2>1, <1>t, <1>m, <1>p, <1>g, SlotKinds DEF GivenTo, Agree
      <3>2. CASE t = s /\ p \in P
        BY <3>2, <2>1, <1>m, <1>p, <1>q, <1>g, SlotKinds DEF GivenTo
      <3> QED BY <3>1, <3>2
    <2>3. \A t \in Space, x \in Slot : own'[t][x] # NoFrame => t \in live'
      BY <1>t, <1>e, <1>g DEF GivenTo, Agree, RestType
    <2> QED BY <2>2, <2>3 DEF Agree
  <1>8. WritableIsPrivate'
    <2>1. \A t \in Space, p \in Page :
             mode'[t][p] = "rw" => (t = s /\ p \in X) \/ mode[t][p] = "rw"
      BY <1>m, <1>p
    <2> QED BY <2>1, <1>5, GivesKeepsPrivacy
  <1> QED BY <1>5, <1>6, <1>7, <1>8, <1>g, GivesKeepsOneSlot, GivesKeepsCounts,
             TypeOKParts DEF GivenTo, Inv, TypeOK, OwnType, RefsType, RestType, Agree, Modes

(* So do brk() and mmap() that run out of frames. *)
LEMMA GrowFailsKeepsInv ==
  ASSUME Inv, NEW s \in Space, NEW P \in SUBSET Page, NEW T \in SUBSET Table,
         GrowFails(s, P, T)
  PROVE  Inv'
  <1> DEFINE a == Alloc(T)
  <1>t. OwnType /\ RefsType /\ RestType /\ Agree BY TypeOKParts DEF Inv
  <1>1. T \in SUBSET Slot /\ \A p \in Page : p \notin T BY SlotKinds
  <1>2. Allocated(T, a) BY <1>1, AllocAllocates DEF GrowFails
  <1>3. \A x \in T : own[s][x] = NoFrame
    BY DEF GrowFails, MissingTables
  <1>e. /\ s \in owned /\ UNCHANGED <<live, owned, mode>>
        /\ own' = [own EXCEPT ![s] = [x \in Slot |-> IF x \in T THEN a[x] ELSE own[s][x]]]
        /\ refs' = [f \in Frame |-> IF \E x \in T : a[x] = f THEN 1 ELSE refs[f]]
        /\ mem' = [f \in Frame |-> IF \E x \in T : a[x] = f THEN Zero ELSE mem[f]]
    BY DEF GrowFails
  <1> HIDE DEF a
  <1>5. Gives(s, T, a) BY <1>1, <1>2, <1>3, <1>e DEF Gives
  <1>g. GivenTo(s, T, a) BY <1>5, GivesMoves
  <1>6. RestType' BY <1>t, <1>e, MemoryAssumption DEF RestType, Modes
  <1>7. Agree'
    <2>1. \A x \in T : a[x] # NoFrame BY <1>g, MemoryAssumption DEF GivenTo
    <2>2. ASSUME NEW t \in Space, NEW p \in Page
          PROVE  /\ mode'[t][p] = "none" <=> own'[t][p] = NoFrame
                 /\ own'[t][p] # NoFrame => own'[t][TableOf[p]] # NoFrame
      BY <2>1, <1>t, <1>e, <1>1, <1>g, SlotKinds DEF GivenTo, Agree
    <2>3. \A t \in Space, x \in Slot : own'[t][x] # NoFrame => t \in live'
      BY <1>t, <1>e, <1>g DEF GivenTo, Agree, RestType
    <2> QED BY <2>2, <2>3 DEF Agree
  <1>8. WritableIsPrivate' BY <1>e, <1>5, GivesKeepsPrivacy
  <1> QED BY <1>5, <1>6, <1>7, <1>8, <1>g, GivesKeepsOneSlot, GivesKeepsCounts,
             TypeOKParts DEF GivenTo, Inv, TypeOK, OwnType, RefsType, RestType, Agree, Modes

(* release_user_range() keeps the invariant. *)
LEMMA ShrinkKeepsInv ==
  ASSUME Inv, NEW s \in Space, NEW P \in SUBSET Page, Shrink(s, P)
  PROVE  Inv'
  <1>t. OwnType /\ RefsType /\ RestType /\ Agree BY TypeOKParts DEF Inv
  <1>e. /\ s \in owned /\ UNCHANGED <<live, owned, mem>>
        /\ own' = [own EXCEPT ![s] = [x \in Slot |-> IF x \in P THEN NoFrame ELSE own[s][x]]]
        /\ mode' = [mode EXCEPT ![s] = [p \in Page |-> IF p \in P THEN "none" ELSE mode[s][p]]]
        /\ refs' = [f \in Frame |-> IF f \in PagesHeld(s, P) THEN Unref(refs[f]) ELSE refs[f]]
    BY DEF Shrink
  <1>1. \A f \in Frame : f \in PagesHeld(s, P) <=> \E x \in P : own[s][x] = f
    BY MemoryAssumption DEF PagesHeld
  <1>2. refs' = [f \in Frame |-> IF \E x \in P : own[s][x] = f THEN Unref(refs[f]) ELSE refs[f]]
    BY <1>e, <1>1
  <1>5. Drops(s, P) BY <1>2, <1>e, SlotKinds DEF Drops
  <1>6. RestType' BY <1>t, <1>e DEF RestType, Modes
  <1>m. \A t \in Space, p \in Page :
          mode'[t][p] = IF t = s /\ p \in P THEN "none" ELSE mode[t][p]
    BY <1>t, <1>e DEF RestType
  <1>7. Agree'
    <2>1. \A p \in Page : TableOf[p] \notin P BY SlotKinds
    <2>2. ASSUME NEW t \in Space, NEW p \in Page
          PROVE  /\ mode'[t][p] = "none" <=> own'[t][p] = NoFrame
                 /\ own'[t][p] # NoFrame => own'[t][TableOf[p]] # NoFrame
      BY <2>1, <1>t, <1>m, <1>5, DropsMoves, SlotKinds DEF Agree
    <2>3. \A t \in Space, x \in Slot : own'[t][x] # NoFrame => t \in live'
      BY <1>t, <1>e, <1>5, DropsMoves DEF Agree
    <2> QED BY <2>2, <2>3 DEF Agree
  <1>8. WritableIsPrivate'
    <2>1. \A t \in Space, p \in Page :
             mode'[t][p] = "rw" => mode[t][p] = "rw" /\ ~(t = s /\ p \in P)
      BY <1>m
    <2> QED BY <2>1, <1>5, DropsKeepsPrivacy
  <1> QED BY <1>5, <1>6, <1>7, <1>8, DropsMoves, DropsKeepsOneSlot, DropsKeepsCounts,
             TypeOKParts DEF Inv, TypeOK, OwnType, RefsType, RestType, Agree, Modes

(* cleanup_process_memory() keeps the invariant. *)
LEMMA ReleaseKeepsInv ==
  ASSUME Inv, NEW s \in Space, Release(s)
  PROVE  Inv'
  <1>t. OwnType /\ RefsType /\ RestType /\ Agree BY TypeOKParts DEF Inv
  <1>e. /\ live' = live \ {s} /\ owned' = owned \ {s} /\ UNCHANGED mem
        /\ own' = [own EXCEPT ![s] = [x \in Slot |-> NoFrame]]
        /\ mode' = [mode EXCEPT ![s] = [p \in Page |-> "none"]]
        /\ refs' = [f \in Frame |-> IF f \in Held(s) THEN Unref(refs[f]) ELSE refs[f]]
    BY DEF Release
  <1>1. \A f \in Frame : f \in Held(s) <=> \E x \in Slot : own[s][x] = f
    BY MemoryAssumption DEF Held
  <1>2. refs' = [f \in Frame |-> IF \E x \in Slot : own[s][x] = f THEN Unref(refs[f]) ELSE refs[f]]
    BY <1>e, <1>1
  <1>3. [x \in Slot |-> NoFrame] = [x \in Slot |-> IF x \in Slot THEN NoFrame ELSE own[s][x]]
    OBVIOUS
  <1>5. Drops(s, Slot) BY <1>2, <1>3, <1>e DEF Drops
  <1>6. RestType' BY <1>t, <1>e DEF RestType, Modes
  <1>m. \A t \in Space, p \in Page : mode'[t][p] = IF t = s THEN "none" ELSE mode[t][p]
    BY <1>t, <1>e DEF RestType
  <1>7. Agree'
    <2>2. ASSUME NEW t \in Space, NEW p \in Page
          PROVE  /\ mode'[t][p] = "none" <=> own'[t][p] = NoFrame
                 /\ own'[t][p] # NoFrame => own'[t][TableOf[p]] # NoFrame
      BY <1>t, <1>m, <1>5, DropsMoves, SlotKinds DEF Agree
    <2>3. \A t \in Space, x \in Slot : own'[t][x] # NoFrame => t \in live'
      BY <1>t, <1>e, <1>5, DropsMoves DEF Agree
    <2> QED BY <2>2, <2>3 DEF Agree
  <1>8. WritableIsPrivate'
    <2>1. \A t \in Space, p \in Page :
             mode'[t][p] = "rw" => mode[t][p] = "rw" /\ ~(t = s /\ p \in Slot)
      BY <1>m
    <2> QED BY <2>1, <1>5, DropsKeepsPrivacy
  <1> QED BY <1>5, <1>6, <1>7, <1>8, DropsMoves, DropsKeepsOneSlot, DropsKeepsCounts,
             TypeOKParts DEF Inv, TypeOK, OwnType, RefsType, RestType, Agree, Modes

(* A store changes contents only. *)
LEMMA StoreKeepsInv ==
  ASSUME Inv, NEW s \in Space, NEW p \in Page, NEW v \in Value, Store(s, p, v)
  PROVE  Inv'
  <1>1. mem' \in [Frame -> Value] BY DEF Inv, TypeOK, Store
  <1> QED BY <1>1 DEF Inv, TypeOK, OneSlot, RefsAreExact, WritableIsPrivate, Holders, Held, Store

(* A sole owner may write in place. *)
LEMMA CowReuseKeepsInv ==
  ASSUME Inv, NEW s \in Space, NEW p \in Page, CowReuse(s, p)
  PROVE  Inv'
  <1>t. OwnType /\ RefsType /\ RestType /\ Agree BY TypeOKParts DEF Inv
  <1>e. /\ UNCHANGED <<live, owned, own, refs, mem>>
        /\ mode' = [mode EXCEPT ![s] = [mode[s] EXCEPT ![p] = "rw"]]
        /\ mode[s][p] = "cow" /\ refs[own[s][p]] <= 1
    BY DEF CowReuse
  <1>m. \A t \in Space, q \in Page : mode'[t][q] = IF t = s /\ q = p THEN "rw" ELSE mode[t][q]
    BY <1>t, <1>e DEF RestType
  <1> DEFINE f == own[s][p]
  <1>1. f \in Frame /\ p \in Slot BY <1>t, <1>e, SlotKinds DEF Agree, OwnType
  <1>2. s \in Holders(f) BY <1>1, MemoryAssumption DEF Holders, Held
  <1>3. Holders(f) = {s}
    <2>1. Cardinality(Holders(f)) = refs[f] BY <1>1 DEF Inv, RefsAreExact
    <2>2. Cardinality(Holders(f)) # 0 BY <1>2, HoldersFinite, FS_EmptySet
    <2>3. Cardinality(Holders(f)) = 1 BY <2>1, <2>2, <1>e, HoldersFinite
    <2>4. \E x : Holders(f) = {x} BY <2>3, HoldersFinite, FS_Singleton
    <2> QED BY <2>4, <1>2
  <1>4. \A t \in Space, x \in Slot : own[t][x] = f => t = s /\ x = p
    <2> SUFFICES ASSUME NEW t \in Space, NEW x \in Slot, own[t][x] = f
                 PROVE  t = s /\ x = p
      OBVIOUS
    <2>1. t \in Holders(f) BY <1>1, MemoryAssumption DEF Holders, Held
    <2>2. t = s BY <2>1, <1>3
    <2> QED BY <2>2, <1>1, MemoryAssumption DEF Inv, OneSlot
  <1>5. WritableIsPrivate'
    BY <1>4, <1>m, <1>e DEF Inv, WritableIsPrivate
  <1>6. RestType' BY <1>t, <1>e DEF RestType, Modes
  <1>7. Agree' BY <1>t, <1>e, <1>m DEF Agree
  <1>8. OwnType' /\ RefsType' /\ OneSlot' /\ RefsAreExact'
    BY <1>t, <1>e DEF OwnType, RefsType, OneSlot, RefsAreExact, Holders, Held, Inv
  <1> QED BY <1>5, <1>6, <1>7, <1>8
          DEF Inv, TypeOK, OwnType, RefsType, RestType, Agree, Modes

(* The others get a frame of their own. *)
LEMMA CowSplitKeepsInv ==
  ASSUME Inv, NEW s \in Space, NEW p \in Page, CowSplit(s, p)
  PROVE  Inv'
  <1> DEFINE old == own[s][p]
             fresh == Alloc({p})[p]
  <1>t. OwnType /\ RefsType /\ RestType /\ Agree BY TypeOKParts DEF Inv
  <1>e. /\ UNCHANGED <<live, owned>> /\ mode[s][p] = "cow" /\ refs[old] > 1
        /\ own' = [own EXCEPT ![s] = [own[s] EXCEPT ![p] = fresh]]
        /\ mode' = [mode EXCEPT ![s] = [mode[s] EXCEPT ![p] = "rw"]]
        /\ refs' = [refs EXCEPT ![fresh] = 1, ![old] = Unref(refs[old])]
        /\ mem' = [mem EXCEPT ![fresh] = mem[old]]
    BY DEF CowSplit
  <1>1. p \in Slot /\ old \in Frame BY <1>t, <1>e, SlotKinds DEF Agree, OwnType
  <1>2. Allocated({p}, Alloc({p})) BY <1>1, AllocAllocates DEF CowSplit
  <1>3. fresh \in Free BY <1>2 DEF Allocated
  <1> HIDE DEF fresh
  <1>4. /\ fresh \in Frame /\ fresh # old /\ fresh # NoFrame
        /\ \A t \in Space, x \in Slot : own[t][x] # fresh
    BY <1>1, <1>3, FreeIsUnheld, MemoryAssumption DEF Free
  <1>o. \A t \in Space, x \in Slot : own'[t][x] = IF t = s /\ x = p THEN fresh ELSE own[t][x]
    BY <1>t, <1>e DEF OwnType
  <1>m. \A t \in Space, q \in Page : mode'[t][q] = IF t = s /\ q = p THEN "rw" ELSE mode[t][q]
    BY <1>t, <1>e DEF RestType
  <1>r. refs' = [f \in Frame |-> IF f = fresh THEN 1 ELSE IF f = old THEN Unref(refs[old])
                                 ELSE refs[f]]
    BY <1>t, <1>e, <1>1, <1>4 DEF RefsType
  <1>s. s \in Holders(old) BY <1>1, MemoryAssumption DEF Holders, Held
  <1>5. ASSUME NEW f \in Frame
        PROVE  refs'[f] = Cardinality(Holders(f)') /\ refs'[f] \in 0..RefMax
    <2>0. f # NoFrame BY MemoryAssumption
    <2>1. CASE f = fresh
      <3>1. Holders(f)' = {s} BY <2>0, <2>1, <1>o, <1>1, <1>4 DEF Holders, Held
      <3> QED BY <3>1, <2>1, <1>r, FS_Singleton, RefMaxPositive
    <2>2. CASE f = old
      <3>1. \A x \in Slot : own'[s][x] # f
        BY <2>0, <2>2, <1>o, <1>1, <1>4 DEF Inv, OneSlot
      <3>2. \A t \in Space \ {s}, x \in Slot : own'[t][x] = own[t][x] BY <1>o
      <3>3. Holders(f)' = Holders(f) \ {s} BY <2>0, <3>1, <3>2 DEF Holders, Held
      <3> QED BY <3>3, <2>2, <1>r, <1>s, <1>4, OneHolderLess
    <2>3. CASE f # fresh /\ f # old
      <3>1. \A t \in Space, x \in Slot : own'[t][x] = f <=> own[t][x] = f
        BY <2>3, <1>o
      <3>2. Holders(f)' = Holders(f) BY <2>0, <3>1 DEF Holders, Held
      <3> QED BY <3>2, <2>3, <1>r DEF Inv, RefsAreExact, TypeOK
    <2> QED BY <2>1, <2>2, <2>3
  <1>6. RefsAreExact' /\ RefsType' BY <1>5, <1>r DEF RefsAreExact, RefsType
  <1>7. OwnType' BY <1>t, <1>e, <1>4 DEF OwnType
  <1>8. OneSlot' BY <1>o, <1>4 DEF Inv, OneSlot
  <1>9. RestType' BY <1>t, <1>e, <1>1, <1>4 DEF RestType, Modes
  <1>10. Agree'
    <2>1. ASSUME NEW t \in Space, NEW q \in Page
          PROVE  /\ mode'[t][q] = "none" <=> own'[t][q] = NoFrame
                 /\ own'[t][q] # NoFrame => own'[t][TableOf[q]] # NoFrame
      BY <1>t, <1>o, <1>m, <1>1, <1>4, SlotKinds, MemoryAssumption DEF Agree
    <2>2. \A t \in Space, x \in Slot : own'[t][x] # NoFrame => t \in live'
      BY <1>t, <1>o, <1>e, <1>1, MemoryAssumption DEF Agree
    <2> QED BY <2>1, <2>2 DEF Agree
  <1>11. WritableIsPrivate'
    <2> SUFFICES ASSUME NEW t \in Space, NEW q \in Page, mode'[t][q] = "rw",
                        NEW u \in Space, NEW x \in Slot, own'[u][x] = own'[t][q]
                 PROVE  u = t /\ x = q
      BY DEF WritableIsPrivate
    <2>0. q \in Slot BY SlotKinds
    <2>1. CASE t = s /\ q = p BY <2>0, <2>1, <1>o, <1>4
    <2>2. CASE ~(t = s /\ q = p)
      <3>1. mode[t][q] = "rw" /\ own'[t][q] = own[t][q] BY <2>0, <2>2, <1>o, <1>m
      <3>2. own'[u][x] = own[u][x] BY <2>0, <3>1, <1>o, <1>4
      <3> QED BY <3>1, <3>2 DEF Inv, WritableIsPrivate
    <2> QED BY <2>1, <2>2
  <1> QED BY <1>6, <1>7, <1>8, <1>9, <1>10, <1>11
          DEF Inv, TypeOK, OwnType, RefsType, RestType, Agree, Modes

(* While a space is still to be made, no count has reached the ceiling. *)
LEMMA NotSaturated ==
  ASSUME Inv, NEW c \in Space, c \notin live, NEW f \in Frame
  PROVE  refs[f] \in Nat /\ refs[f] < RefMax
  <1>1. refs[f] = Cardinality(Holders(f)) BY DEF Inv, RefsAreExact
  <1>2. Holders(f) \subseteq Space \ {c}
    BY DEF Holders, Held, Inv, TypeOK
  <1>3. IsFiniteSet(Space \ {c}) /\ Cardinality(Space \ {c}) = Cardinality(Space) - 1
    BY FS_RemoveElement, MemoryAssumption
  <1>4. Cardinality(Holders(f)) <= Cardinality(Space \ {c})
    BY <1>2, <1>3, FS_Subset
  <1>5. Cardinality(Space) \in Nat BY FS_CardinalityType, MemoryAssumption
  <1> QED BY <1>1, <1>3, <1>4, <1>5, HoldersFinite, MemoryAssumption

(* A fork that fails leaves the counts as it found them. *)
LEMMA ForkFailsKeepsInv ==
  ASSUME Inv, NEW s \in Space, ForkFails(s)
  PROVE  Inv'
  <1>t. OwnType /\ RefsType /\ RestType /\ Agree BY TypeOKParts DEF Inv
  <1>e. /\ UNCHANGED <<live, owned, own, mem>> /\ live # Space
        /\ mode' = [mode EXCEPT ![s] = Tightened(s)]
        /\ refs' = [f \in Frame |-> IF f \in PagesHeld(s, Page) THEN Unref(Ref(refs[f]))
                                    ELSE refs[f]]
    BY DEF ForkFails
  <1>1. PICK c \in Space : c \notin live BY <1>t, <1>e DEF RestType
  <1>2. ASSUME NEW f \in PagesHeld(s, Page) PROVE Unref(Ref(refs[f])) = refs[f]
    <2>1. f \in Frame /\ s \in Holders(f)
      BY <1>t, SlotKinds DEF PagesHeld, Holders, Held, OwnType
    <2>2. refs[f] # 0
      BY <2>1, HoldersFinite, FS_EmptySet DEF Inv, RefsAreExact
    <2>3. refs[f] \in Nat /\ refs[f] < RefMax BY <2>1, <1>1, NotSaturated
    <2> QED BY <2>2, <2>3, MemoryAssumption DEF Ref, Unref
  <1>3. refs' = refs BY <1>t, <1>e, <1>2 DEF RefsType
  <1>m. \A t \in Space, p \in Page :
          mode'[t][p] = IF t = s /\ mode[t][p] = "rw" THEN "cow" ELSE mode[t][p]
    BY <1>t, <1>e DEF RestType, Tightened
  <1>4. RestType' BY <1>t, <1>e DEF RestType, Modes, Tightened
  <1>5. Agree' BY <1>t, <1>e, <1>m DEF Agree
  <1>6. WritableIsPrivate' BY <1>e, <1>m DEF Inv, WritableIsPrivate
  <1>7. OwnType' /\ RefsType' /\ OneSlot' /\ RefsAreExact'
    BY <1>t, <1>e, <1>3 DEF OwnType, RefsType, OneSlot, RefsAreExact, Holders, Held, Inv
  <1> QED BY <1>4, <1>5, <1>6, <1>7
          DEF Inv, TypeOK, OwnType, RefsType, RestType, Agree, Modes

(* The effect of a fork, slot by slot. *)
Forks(s, c, X, a) ==
    /\ s \in live /\ c \notin live
    /\ X \subseteq Slot /\ Allocated(X, a)
    /\ \A p \in Page : p \notin X /\ (mode[s][p] # "none" => TableOf[p] \in X)
    /\ live' = live \cup {c} /\ owned' = owned \cup {c}
    /\ own' = [own EXCEPT ![c] = [x \in Slot |-> IF x \in X THEN a[x]
                                       ELSE IF x \in Page THEN own[s][x] ELSE NoFrame]]
    /\ mode' = [mode EXCEPT ![s] = Tightened(s), ![c] = Tightened(s)]
    /\ refs' = [f \in Frame |-> IF \E x \in X : a[x] = f THEN 1
                                ELSE IF f \in PagesHeld(s, Page) THEN Ref(refs[f])
                                ELSE refs[f]]
    /\ mem' = [f \in Frame |-> IF \E x \in X : a[x] = f THEN Zero ELSE mem[f]]

(* sys_fork() is a Forks step for some choice of fresh frames. *)
LEMMA ForkForks ==
  ASSUME Inv, NEW s \in Space, NEW c \in Space, Fork(s, c)
  PROVE  \E X, a : Forks(s, c, X, a)
  <1> DEFINE X == {Dir} \cup TablesFor(Present(s))
             a == Alloc(X)
  <1>1. X \in SUBSET Slot BY SlotKinds DEF TablesFor, Present
  <1>2. Allocated(X, a) BY <1>1, AllocAllocates DEF Fork
  <1>3. \A p \in Page : p \notin X /\ (mode[s][p] # "none" => TableOf[p] \in X)
    BY SlotKinds DEF TablesFor, Present
  <1>4. s \in live BY DEF Fork, Inv, TypeOK
  <1>5. Forks(s, c, X, a) BY <1>1, <1>2, <1>3, <1>4 DEF Forks, Fork
  <1> QED BY <1>5

(* What a fork does to the slots and the pages: the child gets its own    *)
(* directory and tables and the parent's pages.                           *)
Forked(s, c, X, a) ==
    /\ OwnType' /\ s # c
    /\ \A x \in Slot : own[c][x] = NoFrame
    /\ \A t \in Space, x \in Slot :
         own'[t][x] = IF t # c THEN own[t][x]
                      ELSE IF x \in X THEN a[x]
                      ELSE IF x \in Page THEN own[s][x] ELSE NoFrame
    /\ \A t \in Space, p \in Page :
         mode'[t][p] = IF t \notin {s, c} THEN mode[t][p]
                       ELSE IF mode[s][p] = "rw" THEN "cow" ELSE mode[s][p]
    /\ \A x \in X : /\ a[x] \in Frame /\ a[x] # NoFrame
                    /\ \A t \in Space, y \in Slot : own[t][y] # a[x]

(* And a Forks step does that. *)
LEMMA ForksMoves ==
  ASSUME Inv, NEW s \in Space, NEW c \in Space, NEW X, NEW a, Forks(s, c, X, a)
  PROVE  Forked(s, c, X, a)
  <1>t. OwnType /\ RefsType /\ RestType /\ Agree BY TypeOKParts DEF Inv
  <1>1. \A x \in X : a[x] \in Free BY DEF Forks, Allocated
  <1>2. \A x \in X : a[x] \in Frame /\ a[x] # NoFrame BY <1>1, MemoryAssumption DEF Free
  <1>3. s # c BY DEF Forks
  <1>4. \A x \in Slot : own[c][x] = NoFrame BY <1>t DEF Forks, Agree
  <1>5. OwnType'
    <2>1. [x \in Slot |-> IF x \in X THEN a[x] ELSE IF x \in Page THEN own[s][x] ELSE NoFrame]
            \in [Slot -> Frame \cup {NoFrame}]
      BY <1>t, <1>2 DEF OwnType
    <2> QED BY <2>1, <1>t DEF Forks, OwnType
  <1>6. \A t \in Space, x \in Slot :
          own'[t][x] = IF t # c THEN own[t][x]
                       ELSE IF x \in X THEN a[x]
                       ELSE IF x \in Page THEN own[s][x] ELSE NoFrame
    BY <1>t DEF Forks, OwnType
  <1>7. \A t \in Space, p \in Page :
          mode'[t][p] = IF t \notin {s, c} THEN mode[t][p]
                        ELSE IF mode[s][p] = "rw" THEN "cow" ELSE mode[s][p]
    BY <1>t DEF Forks, RestType, Tightened
  <1> QED BY <1>1, <1>2, <1>3, <1>4, <1>5, <1>6, <1>7, FreeIsUnheld DEF Forked

(* Each shared page has one holder and one count more. *)
LEMMA ForksKeepsCounts ==
  ASSUME Inv, NEW s \in Space, NEW c \in Space, NEW X, NEW a, Forks(s, c, X, a)
  PROVE  RefsAreExact' /\ RefsType'
  <1>t. OwnType /\ RefsType /\ RestType /\ Agree BY TypeOKParts DEF Inv
  <1>m. Forked(s, c, X, a) BY ForksMoves
  <1>r. refs' = [f \in Frame |-> IF \E x \in X : a[x] = f THEN 1
                                ELSE IF f \in PagesHeld(s, Page) THEN Ref(refs[f])
                                ELSE refs[f]]
    BY DEF Forks
  <1>x. X \subseteq Slot /\ c \notin live /\ \A p \in Page : p \in Slot /\ p \notin X
    BY SlotKinds DEF Forks
  <1>1. ASSUME NEW f \in Frame
        PROVE  refs'[f] = Cardinality(Holders(f)') /\ refs'[f] \in 0..RefMax
    <2>0. f # NoFrame BY MemoryAssumption
    <2>1. CASE \E x \in X : a[x] = f
      <3>1. PICK x \in X : a[x] = f BY <2>1
      <3>2. own'[c][x] = f BY <3>1, <1>x, <1>m DEF Forked
      <3>3. \A t \in Space, y \in Slot : own[t][y] # f BY <3>1, <1>m DEF Forked
      <3>4. \A t \in Space \ {c}, y \in Slot : own'[t][y] # f BY <3>3, <1>m DEF Forked
      <3>5. Holders(f)' = {c} BY <2>0, <3>2, <3>4, <1>x DEF Holders, Held
      <3> QED BY <2>1, <3>5, <1>r, FS_Singleton, RefMaxPositive
    <2>2. CASE ~(\E x \in X : a[x] = f) /\ f \in PagesHeld(s, Page)
      <3>1. PICK p \in Page : own[s][p] = f BY <2>2 DEF PagesHeld
      <3>2. own'[c][p] = f BY <3>1, <1>x, <1>m DEF Forked
      <3>3. \A t \in Space \ {c}, y \in Slot : own'[t][y] = own[t][y] BY <1>m DEF Forked
      <3>4. c \notin Holders(f) BY <2>0, <1>m DEF Forked, Holders, Held
      <3>5. Holders(f)' = Holders(f) \cup {c}
        BY <2>0, <3>2, <3>3, <1>x DEF Holders, Held
      <3>6. Cardinality(Holders(f)') = Cardinality(Holders(f)) + 1
        BY <3>4, <3>5, HoldersFinite, FS_AddElement
      <3>7. refs[f] = Cardinality(Holders(f)) BY DEF Inv, RefsAreExact
      <3>8. refs[f] \in Nat /\ refs[f] < RefMax BY <1>x, NotSaturated
      <3>9. refs'[f] = Ref(refs[f]) BY <2>2, <1>r
      <3> QED BY <3>6, <3>7, <3>8, <3>9, MemoryAssumption DEF Ref
    <2>3. CASE ~(\E x \in X : a[x] = f) /\ f \notin PagesHeld(s, Page)
      <3>1. \A p \in Page : own[s][p] # f BY <2>0, <2>3 DEF PagesHeld
      <3>2. \A t \in Space, y \in Slot : own'[t][y] = f <=> own[t][y] = f
        BY <2>0, <2>3, <3>1, <1>m DEF Forked
      <3>3. Holders(f)' = Holders(f) BY <2>0, <3>2 DEF Holders, Held
      <3> QED BY <2>3, <3>3, <1>r DEF Inv, RefsAreExact, TypeOK
    <2> QED BY <2>1, <2>2, <2>3
  <1> QED BY <1>1, <1>r DEF RefsAreExact, RefsType

(* sys_fork() keeps the invariant: nothing shared stays writable. *)
LEMMA ForkKeepsInv ==
  ASSUME Inv, NEW s \in Space, NEW c \in Space, Fork(s, c)
  PROVE  Inv'
  <1>f. PICK X, a : Forks(s, c, X, a) BY ForkForks
  <1>m. Forked(s, c, X, a) BY <1>f, ForksMoves
  <1>t. OwnType /\ RefsType /\ RestType /\ Agree BY TypeOKParts DEF Inv
  <1>x. /\ X \subseteq Slot /\ Allocated(X, a)
        /\ \A p \in Page : p \in Slot /\ p \notin X /\ TableOf[p] \in Slot
        /\ \A p \in Page : mode[s][p] # "none" => TableOf[p] \in X
        /\ live' = live \cup {c} /\ s \in live
    BY <1>f, SlotKinds DEF Forks
  <1>n. \A x \in X : a[x] # NoFrame /\ \A t \in Space, y \in Slot : own[t][y] # a[x]
    BY <1>m DEF Forked
  <1>1. RestType'
    <2>1. Tightened(s) \in [Page -> Modes] BY <1>t DEF Tightened, RestType, Modes
    <2>2. mode' \in [Space -> [Page -> Modes]] BY <2>1, <1>t, <1>f DEF Forks, RestType
    <2>3. mem' \in [Frame -> Value] BY <1>t, <1>f, MemoryAssumption DEF Forks, RestType
    <2> QED BY <2>2, <2>3, <1>t, <1>f DEF Forks, RestType
  <1>2. OneSlot'
    <2> SUFFICES ASSUME NEW t \in Space, NEW x \in Slot, NEW y \in Slot,
                        own'[t][x] = own'[t][y], own'[t][x] # NoFrame
                 PROVE  x = y
      BY DEF OneSlot
    <2>0. \A z \in {x, y} : own'[t][z] = IF t # c THEN own[t][z]
                                       ELSE IF z \in X THEN a[z]
                                       ELSE IF z \in Page THEN own[s][z] ELSE NoFrame
      BY <1>m DEF Forked
    <2>1. CASE t # c
      <3>1. own[t][x] = own[t][y] /\ own[t][x] # NoFrame BY <2>0, <2>1
      <3> QED BY <3>1 DEF Inv, OneSlot
    <2>2. CASE t = c /\ x \in X /\ y \in X
      BY <2>0, <2>2, <1>x DEF Allocated
    <2>3. CASE t = c /\ x \in X /\ y \notin X
      BY <2>0, <2>3, <1>n
    <2>4. CASE t = c /\ x \notin X /\ y \in X
      BY <2>0, <2>4, <1>n
    <2>5. CASE t = c /\ x \notin X /\ y \notin X
      <3>1. own[s][x] = own[s][y] /\ own[s][x] # NoFrame BY <2>0, <2>5
      <3> QED BY <3>1 DEF Inv, OneSlot
    <2> QED BY <2>1, <2>2, <2>3, <2>4, <2>5
  <1>3. Agree'
    <2>1. ASSUME NEW t \in Space, NEW p \in Page
          PROVE  /\ mode'[t][p] = "none" <=> own'[t][p] = NoFrame
                 /\ own'[t][p] # NoFrame => own'[t][TableOf[p]] # NoFrame
      <3>1. CASE t # c BY <3>1, <1>t, <1>x, <1>m DEF Forked, Agree
      <3>2. CASE t = c
        <4>1. own'[c][p] = own[s][p] BY <1>x, <1>m DEF Forked
        <4>2. mode'[c][p] = "none" <=> mode[s][p] = "none" BY <1>m DEF Forked
        <4>3. mode[s][p] # "none" => own'[c][TableOf[p]] # NoFrame
          BY <1>x, <1>m DEF Forked
        <4> QED BY <3>2, <4>1, <4>2, <4>3, <1>t DEF Agree
      <3> QED BY <3>1, <3>2
    <2>2. \A t \in Space, x \in Slot : own'[t][x] # NoFrame => t \in live'
      BY <1>t, <1>x, <1>m DEF Forked, Agree
    <2> QED BY <2>1, <2>2 DEF Agree
  <1>4. WritableIsPrivate'
    <2> SUFFICES ASSUME NEW t \in Space, NEW p \in Page, mode'[t][p] = "rw",
                        NEW u \in Space, NEW x \in Slot, own'[u][x] = own'[t][p]
                 PROVE  u = t /\ x = p
      BY DEF WritableIsPrivate
    <2>m. mode'[t][p] = IF t \notin {s, c} THEN mode[t][p]
                        ELSE IF mode[s][p] = "rw" THEN "cow" ELSE mode[s][p]
      BY <1>m DEF Forked
    <2>0. t \notin {s, c} /\ mode[t][p] = "rw" BY <2>m
    <2>1. t \notin {s, c} /\ mode[t][p] = "rw" /\ own'[t][p] = own[t][p]
      BY <2>0, <1>x, <1>m DEF Forked
    <2>2. own[t][p] # NoFrame BY <2>1, <1>t DEF Agree
    <2>w. \A v \in Space, y \in Slot : own[v][y] = own[t][p] => v = t /\ y = p
      BY <2>0 DEF Inv, WritableIsPrivate
    <2>3. CASE u # c
      <3>1. own'[u][x] = own[u][x] BY <2>3, <1>m DEF Forked
      <3>2. own[u][x] = own[t][p] BY <3>1, <2>1
      <3> QED BY <3>2, <2>w
    <2>4. CASE u = c /\ x \in X
      <3>1. own'[u][x] = a[x] BY <2>4, <1>m DEF Forked
      <3>2. p \in Slot /\ own[t][p] # a[x] BY <2>4, <1>n, <1>x
      <3> QED BY <3>1, <3>2, <2>1
    <2>5. CASE u = c /\ x \notin X
      <3>1. x \in Page /\ own[s][x] = own[t][p] BY <2>1, <2>2, <2>5, <1>m DEF Forked
      <3> QED BY <3>1, <2>1 DEF Inv, WritableIsPrivate
    <2> QED BY <2>3, <2>4, <2>5
  <1> QED BY <1>1, <1>2, <1>3, <1>4, <1>f, <1>m, ForksKeepsCounts
          DEF Forked, Inv, TypeOK, OwnType, RefsType, RestType, Agree, Modes

---------------------------------------------------------------------------
(* Safety *)

(* The invariant holds before the first program is loaded. *)
LEMMA InitInv == Init => Inv
  <1> SUFFICES ASSUME Init PROVE Inv OBVIOUS
  <1>1. \A s \in Space, x \in Slot : own[s][x] = NoFrame BY DEF Init
  <1>2. \A f \in Frame : Holders(f) = {} BY <1>1, MemoryAssumption DEF Holders, Held
  <1>3. RefsAreExact BY <1>2, FS_EmptySet DEF Init, RefsAreExact
  <1>4. TypeOK BY SlotKinds, MemoryAssumption DEF Init, TypeOK
  <1>5. OneSlot BY <1>1 DEF OneSlot
  <1>6. WritableIsPrivate BY DEF Init, WritableIsPrivate
  <1> QED BY <1>3, <1>4, <1>5, <1>6 DEF Inv

(* Every step keeps the invariant. *)
LEMMA NextInv == Inv /\ [Next]_vars => Inv'
  <1> SUFFICES ASSUME Inv, [Next]_vars PROVE Inv' OBVIOUS
  <1>1. CASE UNCHANGED vars
    BY <1>1 DEF vars, Inv, TypeOK, OneSlot, RefsAreExact, WritableIsPrivate, Holders, Held
  <1>2. ASSUME NEW s \in Space, NEW P \in SUBSET Page, NEW v \in Value, NEW R \in SUBSET P,
               NEW created \in BOOLEAN, Exec(s, P, R, v, created)
        PROVE  Inv'
    BY <1>2, ExecKeepsInv
  <1>3. ASSUME NEW s \in Space, NEW c \in Space, Fork(s, c) PROVE Inv'
    BY <1>3, ForkKeepsInv
  <1>4. ASSUME NEW s \in Space, ForkFails(s) \/ Release(s) PROVE Inv'
    BY <1>4, ForkFailsKeepsInv, ReleaseKeepsInv
  <1>5. ASSUME NEW s \in Space, NEW p \in Page, CowReuse(s, p) \/ CowSplit(s, p) PROVE Inv'
    BY <1>5, CowReuseKeepsInv, CowSplitKeepsInv
  <1>6. ASSUME NEW s \in Space, NEW p \in Page, NEW v \in Value, Store(s, p, v) PROVE Inv'
    BY <1>6, StoreKeepsInv
  <1>7. ASSUME NEW s \in Space, NEW P \in SUBSET Page, Grow(s, P) \/ Shrink(s, P) PROVE Inv'
    BY <1>7, GrowKeepsInv, ShrinkKeepsInv
  <1>8. ASSUME NEW s \in Space, NEW P \in SUBSET Page, NEW T \in SUBSET Table,
               GrowFails(s, P, T)
        PROVE  Inv'
    BY <1>8, GrowFailsKeepsInv
  <1> QED BY <1>1, <1>2, <1>3, <1>4, <1>5, <1>6, <1>7, <1>8 DEF Next

(* The inductive invariant holds in every reachable state. *)
THEOREM Invariance == Spec => []Inv
  BY InitInv, NextInv, PTL DEF Spec

(* The page tables, the slots and the counts keep their types, and agree   *)
(* with each other on what is mapped.                                      *)
THEOREM TypeCorrectness == Spec => []TypeOK
  BY Invariance, PTL DEF Inv

(* For any number of spaces up to the ceiling of a count: pmm_refcount[]   *)
(* is exactly the number of address spaces that hold the frame.            *)
THEOREM ExactReferenceCounts == Spec => []RefsAreExact
  BY Invariance, PTL DEF Inv

(* No frame that a page table lets one program write is reachable from     *)
(* another slot of any address space.                                      *)
THEOREM WritableFramesArePrivate == Spec => []WritableIsPrivate
  BY Invariance, PTL DEF Inv

(* Exact counts, private writable frames and consistent page tables hold   *)
(* together, for any number of spaces, pages and frames.                   *)
THEOREM MemoryStaysSound == Spec => []MemoryIsSound
  <1>1. TypeOK /\ RefsAreExact /\ WritableIsPrivate => MemoryIsSound BY DEF MemoryIsSound
  <1> QED
    BY <1>1, TypeCorrectness, ExactReferenceCounts, WritableFramesArePrivate, PTL

---------------------------------------------------------------------------
(* Refinement *)

(* A live space shows its program contents for its mapped pages. *)
LEMMA ImageType ==
  ASSUME Inv, NEW s \in Space
  PROVE  Image(s) \in [Page -> Value \cup {Unmapped}] /\ Image(s) # NoSpace
  <1>1. Image(s) \in [Page -> Value \cup {Unmapped}]
    BY SlotKinds DEF Inv, TypeOK, Image
  <1> QED BY <1>1, MemoryAssumption

(* A space none of whose pages moves, and whose frames keep their          *)
(* contents, looks the same.                                               *)
LEMMA SameImage ==
  ASSUME NEW s \in Space,
         \A p \in Page : own'[s][p] = own[s][p],
         \A p \in Page : own[s][p] # NoFrame => mem'[own[s][p]] = mem[own[s][p]]
  PROVE  Image(s)' = Image(s)
  BY DEF Image

(* Frames given to a space were unheld, so filling them changes nobody     *)
(* else's image.                                                           *)
LEMMA GivesKeepsOthers ==
  ASSUME Inv, NEW s \in Space, NEW X, NEW a, Gives(s, X, a),
         \A f \in Frame : mem'[f] # mem[f] => \E x \in X : a[x] = f
  PROVE  \A t \in Space \ {s} : Image(t)' = Image(t)
  <1>g. GivenTo(s, X, a) BY GivesMoves
  <1> SUFFICES ASSUME NEW t \in Space \ {s} PROVE Image(t)' = Image(t) OBVIOUS
  <1>1. \A p \in Page : own'[t][p] = own[t][p] BY <1>g, SlotKinds DEF GivenTo
  <1>2. \A p \in Page : own[t][p] # NoFrame => own[t][p] \in Frame
    BY SlotKinds DEF Inv, TypeOK
  <1>3. \A p \in Page : own[t][p] # NoFrame => mem'[own[t][p]] = mem[own[t][p]]
    BY <1>2, <1>g, SlotKinds DEF GivenTo
  <1> QED BY <1>1, <1>3, SameImage

(* exec() looks like a space built from a program file. *)
LEMMA ExecRefines ==
  ASSUME Inv, NEW c \in Space, NEW P \in SUBSET Page, NEW R \in SUBSET P, NEW v \in Value,
         NEW created \in BOOLEAN, Exec(c, P, R, v, created)
  PROVE  Private!Exec(c)
  <1> DEFINE X == {Dir} \cup TablesFor(P) \cup P
             a == Alloc(X)
  <1>1. X \in SUBSET Slot BY SlotKinds DEF TablesFor
  <1>2. Allocated(X, a) BY <1>1, AllocAllocates DEF Exec
  <1>3. c \notin live /\ \A x \in Slot : own[c][x] = NoFrame
    BY DEF Exec, Inv, TypeOK
  <1>4. [x \in Slot |-> IF x \in X THEN a[x] ELSE NoFrame]
          = [x \in Slot |-> IF x \in X THEN a[x] ELSE own[c][x]]
    BY <1>3
  <1>5. Gives(c, X, a) BY <1>1, <1>2, <1>3, <1>4 DEF Gives, Exec
  <1>6. \A f \in Frame : mem'[f] # mem[f] => \E x \in X : a[x] = f BY DEF Exec
  <1>e. live' = live \cup {c} BY DEF Exec
  <1>i. Inv' BY ExecKeepsInv
  <1> HIDE DEF X, a
  <1>7. \A t \in Space \ {c} : Image(t)' = Image(t) BY <1>5, <1>6, GivesKeepsOthers
  <1>8. Image(c)' \in [Page -> Value \cup {Unmapped}]
    <2>1. own'[c] \in [Slot -> Frame \cup {NoFrame}] /\ mem' \in [Frame -> Value]
      BY <1>i DEF Inv, TypeOK
    <2>2. \A p \in Page : own'[c][p] \in Frame \cup {NoFrame} BY <2>1, SlotKinds
    <2> QED BY <2>1, <2>2 DEF Image
  <1>9. Images' = [Images EXCEPT ![c] = Image(c)'] BY <1>7, <1>e DEF Images
  <1>10. Images[c] = NoSpace BY <1>3 DEF Images
  <1> QED BY <1>8, <1>9, <1>10 DEF Private!Exec

(* fork() with shared frames looks like a copy. *)
LEMMA ForkRefines ==
  ASSUME Inv, NEW s \in Space, NEW c \in Space, Fork(s, c)
  PROVE  Private!Fork(s, c)
  <1>f. PICK X, a : Forks(s, c, X, a) BY ForkForks
  <1>m. Forked(s, c, X, a) BY <1>f, ForksMoves
  <1>x. /\ \A p \in Page : p \in Slot /\ p \notin X
        /\ live' = live \cup {c} /\ s \in live /\ c \notin live
        /\ mem' = [f \in Frame |-> IF \E x \in X : a[x] = f THEN Zero ELSE mem[f]]
    BY <1>f, SlotKinds DEF Forks
  <1>1. \A t \in Space, p \in Page : own[t][p] # NoFrame => mem'[own[t][p]] = mem[own[t][p]]
    <2>1. \A t \in Space, p \in Page : own[t][p] # NoFrame => own[t][p] \in Frame
      BY <1>x DEF Inv, TypeOK
    <2> QED BY <2>1, <1>x, <1>m DEF Forked
  <1>2. \A t \in Space \ {c} : Image(t)' = Image(t)
    BY <1>1, <1>x, <1>m, SameImage DEF Forked
  <1>3. \A p \in Page : own'[c][p] = own[s][p] BY <1>x, <1>m DEF Forked
  <1>4. Image(c)' = Image(s) BY <1>1, <1>3 DEF Image
  <1>5. Images' = [Images EXCEPT ![c] = Images[s]] BY <1>2, <1>4, <1>x DEF Images
  <1>6. Images[s] # NoSpace /\ Images[c] = NoSpace BY <1>x, ImageType DEF Images
  <1> QED BY <1>5, <1>6 DEF Private!Fork

(* A store is seen by the space that made it and by no other. *)
LEMMA StoreRefines ==
  ASSUME Inv, NEW s \in Space, NEW p \in Page, NEW v \in Value, Store(s, p, v)
  PROVE  Private!Store(s, p, v)
  <1>e. /\ s \in live /\ mode[s][p] = "rw" /\ UNCHANGED <<live, own>>
        /\ mem' = [mem EXCEPT ![own[s][p]] = v]
    BY DEF Store, Inv, TypeOK
  <1>1. own[s][p] \in Frame /\ own[s][p] # NoFrame
    BY <1>e, SlotKinds, MemoryAssumption DEF Inv, TypeOK
  <1>2. \A t \in Space, q \in Page : own[t][q] = own[s][p] => t = s /\ q = p
    BY <1>e, SlotKinds DEF Inv, WritableIsPrivate
  <1>3. \A t \in Space, q \in Page : own[t][q] # NoFrame =>
          mem'[own[t][q]] = IF t = s /\ q = p THEN v ELSE mem[own[t][q]]
    <2>1. \A t \in Space, q \in Page : own[t][q] # NoFrame => own[t][q] \in Frame
      BY SlotKinds DEF Inv, TypeOK
    <2> QED BY <2>1, <1>1, <1>2, <1>e DEF Inv, TypeOK
  <1>4. \A t \in Space \ {s} : Image(t)' = Image(t) BY <1>3, <1>e, SameImage
  <1>5. Image(s)' = [Image(s) EXCEPT ![p] = v] BY <1>3, <1>1, <1>e DEF Image
  <1>6. Images' = [Images EXCEPT ![s] = [Images[s] EXCEPT ![p] = v]]
    BY <1>4, <1>5, <1>e DEF Images
  <1>7. Images[s] # NoSpace /\ Images[s][p] # Unmapped
    <2>1. Images[s] = Image(s) BY <1>e DEF Images
    <2>2. Image(s)[p] = mem[own[s][p]] BY <1>1 DEF Image
    <2>3. mem[own[s][p]] \in Value BY <1>1 DEF Inv, TypeOK
    <2> QED BY <2>1, <2>2, <2>3, ImageType, MemoryAssumption
  <1> QED BY <1>6, <1>7 DEF Private!Store

(* The pages brk() and mmap() add read as zero. *)
LEMMA GrowRefines ==
  ASSUME Inv, NEW s \in Space, NEW P \in SUBSET Page, Grow(s, P)
  PROVE  Private!Grow(s, P)
  <1> DEFINE X == P \cup MissingTables(s, P)
             a == Alloc(X)
  <1>1. X \in SUBSET Slot BY SlotKinds DEF TablesFor, MissingTables
  <1>2. Allocated(X, a) BY <1>1, AllocAllocates DEF Grow
  <1>3. \A x \in X : own[s][x] = NoFrame
    BY DEF Grow, Inv, TypeOK, Present, MissingTables
  <1>5. Gives(s, X, a) BY <1>1, <1>2, <1>3 DEF Gives, Grow
  <1>e. /\ UNCHANGED live /\ s \in live
        /\ mem' = [f \in Frame |-> IF \E x \in X : a[x] = f THEN Zero ELSE mem[f]]
    BY DEF Grow, Inv, TypeOK
  <1>p. P \subseteq X /\ (\A p \in Page \ P : p \notin X) /\ \A p \in Page : p \in Slot
    BY SlotKinds DEF TablesFor, MissingTables
  <1> HIDE DEF X, a
  <1>g. GivenTo(s, X, a) BY <1>5, GivesMoves
  <1>6. \A t \in Space \ {s} : Image(t)' = Image(t) BY <1>5, <1>e, GivesKeepsOthers
  <1>7. Image(s)' = [p \in Page |-> IF p \in P THEN Zero ELSE Image(s)[p]]
    <2>1. ASSUME NEW p \in P
          PROVE  own'[s][p] # NoFrame /\ mem'[own'[s][p]] = Zero
      <3>1. p \in X /\ p \in Slot BY <1>p
      <3>2. own'[s][p] = a[p] /\ a[p] \in Frame BY <3>1, <1>g DEF GivenTo
      <3>3. mem'[a[p]] = Zero BY <3>1, <3>2, <1>e
      <3> QED BY <3>2, <3>3, MemoryAssumption
    <2>2. ASSUME NEW p \in Page \ P
          PROVE  /\ own'[s][p] = own[s][p]
                 /\ own[s][p] # NoFrame => mem'[own[s][p]] = mem[own[s][p]]
      <3>1. own'[s][p] = own[s][p] BY <1>p, <1>g DEF GivenTo
      <3>2. own[s][p] # NoFrame => own[s][p] \in Frame BY <1>p DEF Inv, TypeOK
      <3>3. \A x \in X : own[s][p] # a[x]
        <4>1. p \in Slot BY <1>p
        <4> QED BY <4>1, <1>g DEF GivenTo
      <3> QED BY <3>1, <3>2, <3>3, <1>e
    <2> QED BY <2>1, <2>2 DEF Image
  <1>8. Images' = [Images EXCEPT ![s] = [p \in Page |-> IF p \in P THEN Zero ELSE Images[s][p]]]
    BY <1>6, <1>7, <1>e DEF Images
  <1>9. Images[s] # NoSpace /\ \A p \in P : Images[s][p] = Unmapped
    <2>1. Images[s] = Image(s) BY <1>e DEF Images
    <2>2. \A p \in P : Image(s)[p] = Unmapped BY <1>3, <1>p DEF Image
    <2> QED BY <2>1, <2>2, ImageType
  <1> QED BY <1>8, <1>9 DEF Private!Grow

(* The pages brk() and munmap() remove are gone, the others unchanged. *)
LEMMA ShrinkRefines ==
  ASSUME Inv, NEW s \in Space, NEW P \in SUBSET Page, Shrink(s, P)
  PROVE  Private!Shrink(s, P)
  <1>e. /\ UNCHANGED <<live, mem>> /\ s \in live
        /\ own' = [own EXCEPT ![s] = [x \in Slot |-> IF x \in P THEN NoFrame ELSE own[s][x]]]
    BY DEF Shrink, Inv, TypeOK
  <1>1. \A t \in Space, p \in Page :
          own'[t][p] = IF t = s /\ p \in P THEN NoFrame ELSE own[t][p]
    BY <1>e, SlotKinds DEF Inv, TypeOK
  <1>2. \A t \in Space \ {s} : Image(t)' = Image(t) BY <1>1, <1>e, SameImage
  <1>3. Image(s)' = [p \in Page |-> IF p \in P THEN Unmapped ELSE Image(s)[p]]
    <2>1. \A p \in P : own'[s][p] = NoFrame BY <1>1
    <2>2. \A p \in Page \ P : own'[s][p] = own[s][p] BY <1>1
    <2>3. mem' = mem BY <1>e
    <2> QED BY <2>1, <2>2, <2>3 DEF Image
  <1>4. Images' = [Images EXCEPT ![s] = [p \in Page |-> IF p \in P THEN Unmapped
                                                       ELSE Images[s][p]]]
    BY <1>2, <1>3, <1>e DEF Images
  <1>5. Images[s] # NoSpace BY <1>e, ImageType DEF Images
  <1> QED BY <1>4, <1>5 DEF Private!Shrink

(* Tear-down removes one space and changes no other. *)
LEMMA ReleaseRefines ==
  ASSUME Inv, NEW s \in Space, Release(s)
  PROVE  Private!Release(s)
  <1>e. /\ live' = live \ {s} /\ s \in live /\ UNCHANGED mem
        /\ own' = [own EXCEPT ![s] = [x \in Slot |-> NoFrame]]
    BY DEF Release, Inv, TypeOK
  <1>1. \A t \in Space \ {s}, p \in Page : own'[t][p] = own[t][p]
    BY <1>e DEF Inv, TypeOK
  <1>2. \A t \in Space \ {s} : Image(t)' = Image(t) BY <1>1, <1>e, SameImage
  <1>3. Images' = [Images EXCEPT ![s] = NoSpace] BY <1>2, <1>e DEF Images
  <1>4. Images[s] # NoSpace BY <1>e, ImageType DEF Images
  <1> QED BY <1>3, <1>4 DEF Private!Release

(* A private copy shows what the shared frame showed. *)
LEMMA CowSplitInvisible ==
  ASSUME Inv, NEW s \in Space, NEW p \in Page, CowSplit(s, p)
  PROVE  Images' = Images
  <1>0. \A t \in Space, q \in Page : own[t][q] # NoFrame => own[t][q] \in Frame
    BY SlotKinds DEF Inv, TypeOK
  <1> DEFINE old == own[s][p]
             fresh == Alloc({p})[p]
  <1>e. /\ UNCHANGED live /\ mode[s][p] = "cow"
        /\ own' = [own EXCEPT ![s] = [own[s] EXCEPT ![p] = fresh]]
        /\ mem' = [mem EXCEPT ![fresh] = mem[old]]
    BY DEF CowSplit
  <1>t. own \in [Space -> [Slot -> Frame \cup {NoFrame}]] /\ own[s][p] # NoFrame
    BY <1>e DEF Inv, TypeOK
  <1>1. p \in Slot /\ old \in Frame /\ old # NoFrame
    BY <1>t, SlotKinds
  <1>2. Allocated({p}, Alloc({p})) BY <1>1, AllocAllocates DEF CowSplit
  <1>3. fresh \in Free BY <1>2 DEF Allocated
  <1> HIDE DEF fresh
  <1>4. /\ fresh \in Frame /\ fresh # NoFrame
        /\ \A t \in Space, x \in Slot : own[t][x] # fresh
    BY <1>3, FreeIsUnheld, MemoryAssumption DEF Free
  <1>o. \A t \in Space, q \in Page : own'[t][q] = IF t = s /\ q = p THEN fresh ELSE own[t][q]
    BY <1>e, <1>t, SlotKinds
  <1>m. \A f \in Frame : mem'[f] = IF f = fresh THEN mem[old] ELSE mem[f]
    BY <1>e, <1>4 DEF Inv, TypeOK
  <1>5. \A t \in Space, q \in Page :
          (IF own'[t][q] = NoFrame THEN Unmapped ELSE mem'[own'[t][q]])
            = IF own[t][q] = NoFrame THEN Unmapped ELSE mem[own[t][q]]
    BY <1>o, <1>m, <1>1, <1>4, <1>0, SlotKinds
  <1>6. \A t \in Space : Image(t)' = Image(t) BY <1>5 DEF Image
  <1> QED BY <1>6, <1>e DEF Images

(* The page tables a failed brk() leaves behind show nothing. *)
LEMMA GrowFailsInvisible ==
  ASSUME Inv, NEW s \in Space, NEW P \in SUBSET Page, NEW T \in SUBSET Table,
         GrowFails(s, P, T)
  PROVE  Images' = Images
  <1>0. \A t \in Space, q \in Page : own[t][q] # NoFrame => own[t][q] \in Frame
    BY SlotKinds DEF Inv, TypeOK
  <1> DEFINE a == Alloc(T)
  <1>1. T \in SUBSET Slot /\ \A p \in Page : p \notin T BY SlotKinds
  <1>2. Allocated(T, a) BY <1>1, AllocAllocates DEF GrowFails
  <1>3. \A x \in T : own[s][x] = NoFrame BY DEF GrowFails, MissingTables
  <1>4. Gives(s, T, a) BY <1>1, <1>2, <1>3 DEF Gives, GrowFails
  <1>e. /\ UNCHANGED live
        /\ mem' = [f \in Frame |-> IF \E x \in T : a[x] = f THEN Zero ELSE mem[f]]
    BY DEF GrowFails
  <1> HIDE DEF a
  <1>g. GivenTo(s, T, a) BY <1>4, GivesMoves
  <1>5. \A p \in Page : own'[s][p] = own[s][p] BY <1>1, <1>g, SlotKinds DEF GivenTo
  <1>6. \A p \in Page : own[s][p] # NoFrame => mem'[own[s][p]] = mem[own[s][p]]
    BY <1>0, <1>g, <1>e, SlotKinds DEF GivenTo
  <1>7. Image(s)' = Image(s) BY <1>5, <1>6, SameImage
  <1>8. \A t \in Space \ {s} : Image(t)' = Image(t) BY <1>4, <1>e, GivesKeepsOthers
  <1> QED BY <1>7, <1>8, <1>e DEF Images

(* What a copy-on-write fault, and a fork or brk() that fails, do to the   *)
(* tables cannot be seen.                                                  *)
LEMMA InvisibleSteps ==
  ASSUME Inv, NEW s \in Space,
         \/ ForkFails(s)
         \/ \E p \in Page : CowReuse(s, p) \/ CowSplit(s, p)
         \/ \E P \in SUBSET Page, T \in SUBSET Table : GrowFails(s, P, T)
  PROVE  Images' = Images
  <1>1. CASE ForkFails(s) BY <1>1 DEF ForkFails, Images, Image
  <1>2. ASSUME NEW p \in Page, CowReuse(s, p) PROVE Images' = Images
    BY <1>2 DEF CowReuse, Images, Image
  <1> QED BY <1>1, <1>2, CowSplitInvisible, GrowFailsInvisible

(* Every step is a step of PrivateMemory or invisible to programs. *)
LEMMA StepRefines == Inv /\ [Next]_vars => [Private!Next]_Images
  <1> SUFFICES ASSUME Inv, [Next]_vars PROVE Private!Next \/ Images' = Images OBVIOUS
  <1>1. CASE UNCHANGED vars BY <1>1 DEF vars, Images, Image
  <1>2. ASSUME NEW s \in Space, NEW P \in SUBSET Page, NEW v \in Value, NEW R \in SUBSET P,
               NEW created \in BOOLEAN, Exec(s, P, R, v, created)
        PROVE  Private!Next
    BY <1>2, ExecRefines DEF Private!Next
  <1>3. ASSUME NEW s \in Space, NEW c \in Space, Fork(s, c) PROVE Private!Next
    BY <1>3, ForkRefines DEF Private!Next
  <1>4. ASSUME NEW s \in Space, Release(s) PROVE Private!Next
    BY <1>4, ReleaseRefines DEF Private!Next
  <1>5. ASSUME NEW s \in Space, NEW p \in Page, NEW v \in Value, Store(s, p, v)
        PROVE  Private!Next
    BY <1>5, StoreRefines DEF Private!Next
  <1>6. ASSUME NEW s \in Space, NEW P \in SUBSET Page, Grow(s, P) PROVE Private!Next
    BY <1>6, GrowRefines DEF Private!Next
  <1>7. ASSUME NEW s \in Space, NEW P \in SUBSET Page, Shrink(s, P) PROVE Private!Next
    BY <1>7, ShrinkRefines DEF Private!Next
  <1> QED BY <1>1, <1>2, <1>3, <1>4, <1>5, <1>6, <1>7, InvisibleSteps DEF Next

(* fork() by sharing frames, counting them and splitting them on the first *)
(* write implements address spaces that are copied outright: no program    *)
(* can tell, whatever runs out of memory when.                             *)
THEOREM CopyOnWriteIsInvisible == Spec => ImplementsPrivateMemory
  <1>1. Init => Private!Init BY DEF Init, Private!Init, Images
  <1> QED BY <1>1, Invariance, StepRefines, PTL
          DEF Spec, ImplementsPrivateMemory, Private!Spec

============================================================================
