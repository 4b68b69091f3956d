---------------------------- MODULE BCacheProofs ----------------------------
(***************************************************************************)
(* Proofs about the block cache, for any number of slots, devices, sectors *)
(* and contents, and for any values of the high-water mark, the flush      *)
(* interval and the tick counter's modulus.                                *)
(***************************************************************************)
EXTENDS BCache, FiniteSetTheorems, TLAPS

---------------------------------------------------------------------------
(* WriteBack is well typed, gives each written slot's sector that slot's   *)
(* data when no two written slots share a sector, and leaves every other   *)
(* sector alone.                                                           *)
LEMMA WriteBackType ==
    ASSUME NEW dk \in [Key -> Data], NEW ks, NEW ds \in [Slot -> Data], NEW W \in SUBSET Slot
    PROVE  WriteBack(dk, ks, ds, W) \in [Key -> Data]
<1> SUFFICES ASSUME NEW k \in Key
             PROVE  WriteBack(dk, ks, ds, W)[k] \in Data
  BY DEF WriteBack
<1> QED
  BY DEF WriteBack

(* A sector some slot of W holds has that slot's data afterwards. *)
LEMMA WriteBackWritten ==
    ASSUME NEW dk, NEW ks, NEW ds, NEW W, NEW s \in W, ks[s] \in Key,
           \A t \in W : ks[t] = ks[s] => t = s
    PROVE  WriteBack(dk, ks, ds, W)[ks[s]] = ds[s]
<1>1. (CHOOSE t \in W : ks[t] = ks[s]) = s
  OBVIOUS
<1> QED
  BY <1>1 DEF WriteBack

(* A sector no slot of W holds is left as it was. *)
LEMMA WriteBackOther ==
    ASSUME NEW dk, NEW ks, NEW ds, NEW W, NEW k \in Key, \A t \in W : ks[t] # k
    PROVE  WriteBack(dk, ks, ds, W)[k] = dk[k]
  BY DEF WriteBack

(* The slots and any set of them are finite. *)
LEMMA SlotsFinite ==
    ASSUME NEW D \in SUBSET Slot
    PROVE  IsFiniteSet(D) /\ Cardinality(D) \in Nat
<1>1. IsFiniteSet(Slot)
  BY NumSlotsAssumption, FS_Interval DEF Slot
<1> QED
  BY <1>1, FS_Subset, FS_CardinalityType

(* Cleaning the slots of W takes dirty_count from the size of D to that of *)
(* what is left of D.                                                      *)
LEMMA CountClean ==
    ASSUME NEW D \in SUBSET Slot, NEW W \in SUBSET D
    PROVE  CountAfterClean(Cardinality(D), W) = Cardinality(D \ W)
<1>1. IsFiniteSet(D) /\ IsFiniteSet(W) /\ Cardinality(W) \in Nat /\ Cardinality(D) \in Nat
  BY SlotsFinite
<1>2. Cardinality(W) <= Cardinality(D)
  BY <1>1, FS_Subset
<1>3. Cardinality(D \ W) = Cardinality(D) - Cardinality(D \cap W)
  BY Zenon, <1>1, FS_Difference
<1>4. D \cap W = W
  OBVIOUS
<1> QED
  BY <1>1, <1>2, <1>3, <1>4 DEF CountAfterClean

---------------------------------------------------------------------------
(* The two invariants on contents, with the state as a parameter: no       *)
(* sector in two slots, and clean slots equal to the disk.                 *)
Unique(ks) == \A s, t \in Slot : ks[s] = ks[t] /\ ks[s] # NoKey => s = t

CleanOn(dk, ks, ds, D) ==
    \A s \in Slot : IF s \in D THEN ks[s] # NoKey
                               ELSE ks[s] # NoKey => ds[s] = dk[ks[s]]

Contents(dk, ks, ds, D) == /\ dk \in [Key -> Data]
                           /\ ks \in [Slot -> Key \cup {NoKey}]
                           /\ ds \in [Slot -> Data]
                           /\ D \in SUBSET Slot
                           /\ Unique(ks)
                           /\ CleanOn(dk, ks, ds, D)

(* What WriteBack gives each sector, over any set of slots. *)
LEMMA WriteBackLookup ==
    ASSUME NEW dk, NEW ks \in [Slot -> Key \cup {NoKey}], NEW ds, NEW W \in SUBSET Slot,
           Unique(ks), NEW k \in Key
    PROVE  /\ \A s \in W : ks[s] = k => WriteBack(dk, ks, ds, W)[k] = ds[s]
           /\ (\A s \in W : ks[s] # k) => WriteBack(dk, ks, ds, W)[k] = dk[k]
<1>1. k # NoKey
  BY NoKeyAssumption
<1>2. ASSUME NEW s \in W, ks[s] = k
      PROVE  WriteBack(dk, ks, ds, W)[k] = ds[s]
  <2>1. \A t \in W : ks[t] = ks[s] => t = s
    BY <1>1, <1>2 DEF Unique
  <2> QED
    BY <1>2, <2>1, WriteBackWritten
<1> QED
  BY <1>2, WriteBackOther

(* Writing some dirty slots back and marking them clean keeps the          *)
(* invariants and changes no value a read returns.                         *)
LEMMA FlushKeeps ==
    ASSUME NEW dk, NEW ks, NEW ds, NEW D, Contents(dk, ks, ds, D), NEW W \in SUBSET D
    PROVE  /\ Contents(WriteBack(dk, ks, ds, W), ks, ds, D \ W)
           /\ WriteBack(WriteBack(dk, ks, ds, W), ks, ds, Slot) = WriteBack(dk, ks, ds, Slot)
<1> DEFINE dk2 == WriteBack(dk, ks, ds, W)
<1> W \in SUBSET Slot
  BY DEF Contents
<1>1. dk2 \in [Key -> Data]
  BY WriteBackType DEF Contents
<1>2. CleanOn(dk2, ks, ds, D \ W)
  <2> SUFFICES ASSUME NEW s \in Slot, s \notin D \ W, ks[s] # NoKey
               PROVE  ds[s] = dk2[ks[s]]
    BY DEF CleanOn, Contents
  <2>1. ks[s] \in Key
    BY DEF Contents
  <2>2. CASE s \in W
    BY <2>1, <2>2, WriteBackLookup DEF Contents
  <2>3. CASE s \notin W
    <3>1. \A t \in W : ks[t] # ks[s]
      BY <2>3 DEF Contents, Unique
    <3> QED
      BY <2>1, <2>3, <3>1, WriteBackLookup DEF Contents, CleanOn
  <2> QED
    BY <2>2, <2>3
<1>3. ASSUME NEW k \in Key
      PROVE  WriteBack(dk2, ks, ds, Slot)[k] = WriteBack(dk, ks, ds, Slot)[k]
  <2> HIDE DEF dk2
  <2>1. ASSUME NEW s \in Slot, ks[s] = k
        PROVE  WriteBack(dk2, ks, ds, Slot)[k] = WriteBack(dk, ks, ds, Slot)[k]
    <3>1. WriteBack(dk2, ks, ds, Slot)[k] = ds[s]
      BY <2>1, WriteBackLookup DEF Contents
    <3>2. WriteBack(dk, ks, ds, Slot)[k] = ds[s]
      BY <2>1, WriteBackLookup DEF Contents
    <3> QED
      BY <3>1, <3>2
  <2>2. CASE \A s \in Slot : ks[s] # k
    <3>1. dk2[k] = dk[k]
      BY <2>2, WriteBackLookup DEF Contents, dk2
    <3> QED
      BY <2>2, <3>1, WriteBackLookup DEF Contents
  <2> QED
    BY <2>1, <2>2
<1>4. /\ WriteBack(dk2, ks, ds, Slot) \in [Key -> Data]
      /\ WriteBack(dk, ks, ds, Slot) \in [Key -> Data]
  BY <1>1, WriteBackType DEF Contents
<1>5. WriteBack(dk2, ks, ds, Slot) = WriteBack(dk, ks, ds, Slot)
  <2> HIDE DEF dk2
  <2> QED
    BY <1>3, <1>4
<1> QED
  BY <1>1, <1>2, <1>5 DEF Contents

(* Slot s takes sector k with contents v, which leaves keys ks2, data ds2  *)
(* and dirty slots D2.                                                     *)
Refilled(dk, ks, ds, D, s, k, v, ks2, ds2, D2) ==
    /\ ks2 = [ks EXCEPT ![s] = k]
    /\ ds2 = [ds EXCEPT ![s] = v]
    /\ Contents(dk, ks, ds, D)
    /\ s \in Slot
    /\ k \in Key \cup {NoKey}
    /\ v \in Data
    /\ ks[s] = k \/ (s \notin D /\ \A t \in Slot : k = NoKey \/ ks[t] # k)
    /\ D2 = D \/ D2 = D \cup {s}
    /\ s \in D2 => k # NoKey
    /\ s \notin D2 /\ k # NoKey => v = dk[k]

(* Giving a clean slot to another sector k, with contents v that are the   *)
(* disk's if the slot stays clean, keeps the invariants; reads of k return *)
(* v from then on and no other read changes.                               *)
LEMMA RefillKeeps ==
    ASSUME NEW dk, NEW ks, NEW ds, NEW D, NEW s, NEW k, NEW v,
           NEW ks2, NEW ds2, NEW D2, Refilled(dk, ks, ds, D, s, k, v, ks2, ds2, D2)
    PROVE  /\ Contents(dk, ks2, ds2, D2)
           /\ \A j \in Key : WriteBack(dk, ks2, ds2, Slot)[j] =
                               IF j = k THEN v ELSE WriteBack(dk, ks, ds, Slot)[j]
<1>0. /\ ks2 = [ks EXCEPT ![s] = k]
      /\ ds2 = [ds EXCEPT ![s] = v]
      /\ Contents(dk, ks, ds, D) /\ s \in Slot /\ k \in Key \cup {NoKey} /\ v \in Data
      /\ ks[s] = k \/ (s \notin D /\ \A t \in Slot : k = NoKey \/ ks[t] # k)
      /\ D2 = D \/ D2 = D \cup {s}
      /\ s \in D2 => k # NoKey
      /\ s \notin D2 /\ k # NoKey => v = dk[k]
  BY DEF Refilled
<1>1. ks2 \in [Slot -> Key \cup {NoKey}] /\ ds2 \in [Slot -> Data] /\ dk \in [Key -> Data]
  BY <1>0 DEF Contents
<1>2. Unique(ks2)
  BY <1>0 DEF Contents, Unique
<1>3. CleanOn(dk, ks2, ds2, D2)
  BY <1>0 DEF Contents, CleanOn
<1>a. \A t \in Slot : /\ ks2[t] = IF t = s THEN k ELSE ks[t]
                      /\ ds2[t] = IF t = s THEN v ELSE ds[t]
  BY <1>0 DEF Contents
<1>4. ASSUME NEW j \in Key
      PROVE  WriteBack(dk, ks2, ds2, Slot)[j] =
               IF j = k THEN v ELSE WriteBack(dk, ks, ds, Slot)[j]
  <2>1. CASE j = k
    <3>1. s \in Slot /\ ks2[s] = j /\ ds2[s] = v
      BY <1>0, <1>a, <2>1
    <3>2. WriteBack(dk, ks2, ds2, Slot)[j] = v
      BY <1>1, <1>2, <3>1, WriteBackLookup
    <3> QED
      BY <2>1, <3>2
  <2>2. ASSUME j # k, NEW t \in Slot, t # s, ks[t] = j
        PROVE  WriteBack(dk, ks2, ds2, Slot)[j] = WriteBack(dk, ks, ds, Slot)[j]
    <3>1. ks2[t] = j /\ ds2[t] = ds[t]
      BY <1>0, <1>a, <2>2
    <3>2. WriteBack(dk, ks2, ds2, Slot)[j] = ds[t]
      BY <1>1, <1>2, <3>1, WriteBackLookup
    <3>3. WriteBack(dk, ks, ds, Slot)[j] = ds[t]
      BY <1>0, <2>2, WriteBackLookup DEF Contents
    <3> QED
      BY <3>2, <3>3
  <2>3. ASSUME j # k, \A t \in Slot : t # s => ks[t] # j
        PROVE  WriteBack(dk, ks2, ds2, Slot)[j] = WriteBack(dk, ks, ds, Slot)[j]
    <3>1. \A t \in Slot : ks2[t] # j
      BY <1>0, <1>a, <2>3
    <3>2. WriteBack(dk, ks2, ds2, Slot)[j] = dk[j]
      BY <1>1, <1>2, <3>1, WriteBackLookup
    <3>3. WriteBack(dk, ks, ds, Slot)[j] = dk[j]
      <4>1. CASE ks[s] = j
        <5>1. ds[s] = dk[j]
          BY <1>0, <2>3, <4>1, NoKeyAssumption DEF Contents, CleanOn
        <5> QED
          BY <1>0, <4>1, <5>1, WriteBackLookup DEF Contents
      <4>2. CASE ks[s] # j
        BY <1>0, <2>3, <4>2, WriteBackLookup DEF Contents
      <4> QED
        BY <1>0, <4>1, <4>2
    <3> QED
      BY <3>2, <3>3
  <2> QED
    BY Zenon, <1>0, <2>1, <2>2, <2>3
<1> QED
  BY Zenon, <1>0, <1>1, <1>2, <1>3, <1>4 DEF Contents

---------------------------------------------------------------------------
(* The inductive invariant. *)
IInv == /\ TypeOK
        /\ OneSlotPerSector
        /\ CleanIsOnDisk
        /\ CountIsExact
        /\ DeadlineCoversAll

Current == WriteBack(disk, key, data, Slot)

(* The inductive invariant speaks of the contents of the cache as a whole. *)
LEMMA IInvContents == IInv => Contents(disk, key, data, dirty)
  BY DEF IInv, TypeOK, OneSlotPerSector, CleanIsOnDisk, Contents, Unique, CleanOn

(* A partial flush gives each sector its old durable or its current value. *)
LEMMA WriteBackCatchesUp ==
    ASSUME NEW dk, NEW ks, NEW ds, NEW D, Contents(dk, ks, ds, D), NEW W \in SUBSET Slot,
           NEW j \in Key
    PROVE  WriteBack(dk, ks, ds, W)[j] \in {dk[j], WriteBack(dk, ks, ds, Slot)[j]}
<1>1. CASE \A s \in W : ks[s] # j
  BY <1>1, WriteBackLookup DEF Contents
<1>2. ASSUME NEW s \in W, ks[s] = j
      PROVE  WriteBack(dk, ks, ds, W)[j] = WriteBack(dk, ks, ds, Slot)[j]
  <2>1. WriteBack(dk, ks, ds, W)[j] = ds[s]
    BY <1>2, WriteBackLookup DEF Contents
  <2>2. WriteBack(dk, ks, ds, Slot)[j] = ds[s]
    BY <1>2, WriteBackLookup DEF Contents
  <2> QED
    BY <2>1, <2>2
<1> QED
  BY <1>1, <1>2

(* Writing a victim back makes its slot reusable: no read changes, and no  *)
(* other sector's durable value does.                                      *)
LEMMA EvictKeeps ==
    ASSUME Contents(disk, key, data, dirty), NEW s \in Slot
    PROVE  /\ Contents(DiskAfterEvict(s), key, data, dirty \ {s})
           /\ WriteBack(DiskAfterEvict(s), key, data, Slot) = Current
           /\ \A j \in Key : DiskAfterEvict(s)[j] \in {disk[j], Current[j]}
           /\ \A j \in Key : j # key[s] => DiskAfterEvict(s)[j] = disk[j]
<1> DEFINE W == {s} \cap dirty
<1>1. W \in SUBSET dirty /\ dirty \ W = dirty \ {s} /\ W \in SUBSET Slot
  BY DEF Contents
<1>2. DiskAfterEvict(s) = WriteBack(disk, key, data, W)
  BY DEF DiskAfterEvict
<1>3. \A t \in W : t = s
  OBVIOUS
<1> HIDE DEF W
<1>4. /\ Contents(DiskAfterEvict(s), key, data, dirty \ {s})
      /\ WriteBack(DiskAfterEvict(s), key, data, Slot) = Current
  BY <1>1, <1>2, FlushKeeps DEF Current
<1>5. \A j \in Key : DiskAfterEvict(s)[j] \in {disk[j], Current[j]}
  BY <1>1, <1>2, WriteBackCatchesUp DEF Current
<1>6. ASSUME NEW j \in Key, j # key[s]
      PROVE  DiskAfterEvict(s)[j] = disk[j]
  BY <1>1, <1>2, <1>3, <1>6, WriteBackLookup DEF Contents
<1> QED
  BY <1>4, <1>5, <1>6

(* dirty_count after a victim has been cleaned. *)
LEMMA EvictCount ==
    ASSUME dirty \in SUBSET Slot, CountIsExact, NEW s
    PROVE  CountAfterClean(dirtyCount, {s} \cap dirty) = Cardinality(dirty \ {s})
<1>1. dirty \ ({s} \cap dirty) = dirty \ {s}
  OBVIOUS
<1> QED
  BY <1>1, CountClean DEF CountIsExact

(* Aged forgets the age of clean slots and keeps that of dirty ones. *)
LEMMA AgedType ==
    ASSUME NEW a \in [Slot -> 0..Interval], NEW D
    PROVE  /\ Aged(a, D) \in [Slot -> 0..Interval]
           /\ \A s \in Slot : s \in D => Aged(a, D)[s] = a[s]
  BY BoundsAssumption DEF Aged

(* The cache p that bcache_write_sector(k, v) has put its sector in is     *)
(* sound, returns v for k, and has written nothing else than a victim.     *)
PutOK(p, k, v) ==
    /\ Contents(p.disk, p.key, p.data, p.dirty)
    /\ \A j \in Key : WriteBack(p.disk, p.key, p.data, Slot)[j] =
                        IF j = k THEN v ELSE Current[j]
    /\ \A j \in Key : p.disk[j] \in {disk[j], Current[j]}
    /\ p.disk[k] = disk[k]
    /\ p.count = Cardinality(p.dirty)
    /\ p.waited \in 0..Interval
    /\ p.age \in [Slot -> 0..Interval]
    /\ \A t \in p.dirty : p.age[t] <= p.waited

(* Put() leaves the cache consistent, with the new value in its slot. *)
LEMMA PutKeeps ==
    ASSUME IInv, NEW s \in Slot, NEW k \in Key, NEW v \in Data, SlotFor(s, k)
    PROVE  PutOK(Put(s, k, v), k, v)
<1> DEFINE p == Put(s, k, v)
           miss == key[s] # k
           dirty0 == IF miss THEN dirty \ {s} ELSE dirty
           count0 == CountAfterClean(dirtyCount, dirty \ dirty0)
           disk0 == IF miss THEN DiskAfterEvict(s) ELSE disk
<1>0. /\ Contents(disk, key, data, dirty) /\ TypeOK /\ CountIsExact /\ DeadlineCoversAll
      /\ k # NoKey
  BY IInvContents, NoKeyAssumption DEF IInv
<1>1. /\ p.key = [key EXCEPT ![s] = k]
      /\ p.data = [data EXCEPT ![s] = v]
      /\ p.dirty = dirty0 \cup {s}
      /\ p.count = IF s \in dirty0 THEN count0 ELSE count0 + 1
      /\ p.waited = IF s \notin dirty0 /\ count0 = 0 THEN 0 ELSE waited
      /\ p.disk = disk0
      /\ p.age = IF s \in dirty0 THEN age ELSE [age EXCEPT ![s] = 0]
  BY DEF Put, CountAfterMark, WaitedAfterMark
<1>2. /\ Contents(disk0, key, data, dirty0)
      /\ WriteBack(disk0, key, data, Slot) = Current
      /\ \A j \in Key : disk0[j] \in {disk[j], Current[j]}
      /\ disk0[k] = disk[k]
  <2>1. CASE miss
    BY <1>0, <2>1, EvictKeeps
  <2>2. CASE ~miss
    BY <1>0, <2>2 DEF Current
  <2> QED
    BY <2>1, <2>2
<1>3. ~miss \/ (s \notin dirty0 /\ \A t \in Slot : key[t] # k)
  BY DEF SlotFor, Hits
<1>4. dirty0 \in SUBSET Slot /\ dirty0 \cup {s} \in SUBSET Slot
  BY <1>0 DEF TypeOK
<1>5. count0 = Cardinality(dirty0)
  <2>1. dirty \ dirty0 \in SUBSET dirty /\ dirty \ (dirty \ dirty0) = dirty0
    OBVIOUS
  <2> QED
    BY <1>0, <2>1, CountClean DEF TypeOK, CountIsExact
<1>6. \A t \in dirty0 : age[t] <= waited
  BY <1>0 DEF DeadlineCoversAll
<1>7. disk0 \in [Key -> Data] /\ IsFiniteSet(dirty0) /\ Cardinality(dirty0) \in Nat
  BY <1>2, <1>4, SlotsFinite DEF Contents
<1>8. key[s] = k \/ (s \notin dirty0 /\ \A t \in Slot : key[t] # k)
  BY <1>3
<1> HIDE DEF miss, dirty0, count0, disk0, p
<1>9. /\ Contents(p.disk, p.key, p.data, p.dirty)
      /\ \A j \in Key : WriteBack(p.disk, p.key, p.data, Slot)[j] =
                          IF j = k THEN v ELSE Current[j]
  <2>1. Refilled(disk0, key, data, dirty0, s, k, v, p.key, p.data, p.dirty)
    BY <1>0, <1>1, <1>2, <1>8 DEF Refilled
  <2>2. /\ Contents(disk0, p.key, p.data, p.dirty)
        /\ \A j \in Key : WriteBack(disk0, p.key, p.data, Slot)[j] =
                            IF j = k THEN v ELSE WriteBack(disk0, key, data, Slot)[j]
    BY <2>1, RefillKeeps
  <2> QED
    BY Zenon, <1>1, <1>2, <2>2
<1>10. p.count = Cardinality(p.dirty)
  <2>1. CASE s \in dirty0
    <3>1. dirty0 \cup {s} = dirty0
      BY <2>1
    <3> QED
      BY <1>1, <1>5, <2>1, <3>1
  <2>2. CASE s \notin dirty0
    BY Zenon, <1>1, <1>5, <1>7, <2>2, FS_AddElement
  <2> QED
    BY <2>1, <2>2
<1>11. p.waited \in 0..Interval /\ p.age \in [Slot -> 0..Interval]
  BY <1>0, <1>1, BoundsAssumption DEF TypeOK
<1>12. \A t \in p.dirty : p.age[t] <= p.waited
  <2>1. CASE s \notin dirty0 /\ count0 = 0
    <3>1. dirty0 = {}
      BY Zenon, <1>5, <1>7, <2>1, FS_EmptySet
    <3> QED
      BY <1>0, <1>1, <2>1, <3>1 DEF TypeOK
  <2>2. CASE ~(s \notin dirty0 /\ count0 = 0)
    BY <1>0, <1>1, <1>4, <1>6, <2>2 DEF TypeOK
  <2> QED
    BY <2>1, <2>2
<1> QED
  BY Zenon, <1>1, <1>2, <1>9, <1>10, <1>11, <1>12 DEF p, PutOK

(* Dropping clean slots changes no read. *)
LEMMA DropKeeps ==
    ASSUME NEW dk, NEW ks, NEW ds, NEW D, Contents(dk, ks, ds, D), NEW X \in SUBSET Slot,
           X \cap D = {}, NEW ks2, ks2 = [s \in Slot |-> IF s \in X THEN NoKey ELSE ks[s]]
    PROVE  /\ Contents(dk, ks2, ds, D)
           /\ WriteBack(dk, ks2, ds, Slot) = WriteBack(dk, ks, ds, Slot)
<1>1. /\ ks2 \in [Slot -> Key \cup {NoKey}]
      /\ \A s \in Slot : ks2[s] = IF s \in X THEN NoKey ELSE ks[s]
  BY DEF Contents
<1>2. Unique(ks2)
  BY <1>1 DEF Contents, Unique
<1>3. CleanOn(dk, ks2, ds, D)
  BY <1>1 DEF Contents, CleanOn
<1>4. ASSUME NEW j \in Key
      PROVE  WriteBack(dk, ks2, ds, Slot)[j] = WriteBack(dk, ks, ds, Slot)[j]
  <2>1. j # NoKey
    BY NoKeyAssumption
  <2>2. CASE \A t \in Slot : ks[t] # j
    <3>1. \A t \in Slot : ks2[t] # j
      BY <1>1, <2>1, <2>2
    <3> QED
      BY <1>1, <1>2, <2>2, <3>1, WriteBackLookup DEF Contents
  <2>3. ASSUME NEW t \in Slot, ks[t] = j
        PROVE  WriteBack(dk, ks2, ds, Slot)[j] = WriteBack(dk, ks, ds, Slot)[j]
    <3>1. WriteBack(dk, ks, ds, Slot)[j] = ds[t]
      BY <2>3, WriteBackLookup DEF Contents
    <3>2. CASE t \in X
      <4>1. ds[t] = dk[j]
        BY <2>1, <2>3, <3>2 DEF Contents, CleanOn
      <4>2. \A u \in Slot : ks2[u] # j
        BY <1>1, <2>1, <2>3, <3>2 DEF Contents, Unique
      <4>3. WriteBack(dk, ks2, ds, Slot)[j] = dk[j]
        BY <1>1, <1>2, <4>2, WriteBackLookup
      <4> QED
        BY <3>1, <4>1, <4>3
    <3>3. CASE t \notin X
      <4>1. ks2[t] = j
        BY <1>1, <2>3, <3>3
      <4>2. ks2[t] \in Key /\ \A u \in Slot : ks2[u] = ks2[t] => u = t
        BY <1>2, <2>1, <4>1 DEF Unique
      <4>3. WriteBack(dk, ks2, ds, Slot)[ks2[t]] = ds[t]
        BY <4>2, WriteBackWritten
      <4> QED
        BY <3>1, <4>1, <4>3
    <3> QED
      BY <3>2, <3>3
  <2> QED
    BY <2>2, <2>3
<1>5. /\ WriteBack(dk, ks2, ds, Slot) \in [Key -> Data]
      /\ WriteBack(dk, ks, ds, Slot) \in [Key -> Data]
  BY WriteBackType DEF Contents
<1>6. WriteBack(dk, ks2, ds, Slot) = WriteBack(dk, ks, ds, Slot)
  BY <1>4, <1>5
<1> QED
  BY <1>1, <1>2, <1>3, <1>6 DEF Contents

(* Once every dirty slot is written, the disk holds what reads return. *)
LEMMA FullFlush ==
    ASSUME NEW dk, NEW ks, NEW ds, NEW D, Contents(dk, ks, ds, D)
    PROVE  WriteBack(dk, ks, ds, D) = WriteBack(dk, ks, ds, Slot)
<1>1. ASSUME NEW j \in Key
      PROVE  WriteBack(dk, ks, ds, D)[j] = WriteBack(dk, ks, ds, Slot)[j]
  <2>1. CASE \A t \in Slot : ks[t] # j
    BY <2>1, WriteBackLookup DEF Contents
  <2>2. ASSUME NEW t \in Slot, ks[t] = j
        PROVE  WriteBack(dk, ks, ds, D)[j] = WriteBack(dk, ks, ds, Slot)[j]
    <3>1. WriteBack(dk, ks, ds, Slot)[j] = ds[t]
      BY <2>2, WriteBackLookup DEF Contents
    <3>2. CASE t \in D
      BY <2>2, <3>1, <3>2, WriteBackLookup DEF Contents
    <3>3. CASE t \notin D
      <4>1. ds[t] = dk[j] /\ \A u \in D : ks[u] # j
        BY <2>2, <3>3, NoKeyAssumption DEF Contents, CleanOn, Unique
      <4>2. WriteBack(dk, ks, ds, D)[j] = dk[j]
        BY <4>1, WriteBackLookup DEF Contents
      <4> QED
        BY <3>1, <4>1, <4>2
    <3> QED
      BY <3>2, <3>3
  <2> QED
    BY <2>1, <2>2
<1>2. /\ WriteBack(dk, ks, ds, D) \in [Key -> Data]
      /\ WriteBack(dk, ks, ds, Slot) \in [Key -> Data]
  BY WriteBackType DEF Contents
<1> QED
  BY <1>1, <1>2

(* An empty cache over any disk: reads return the disk. *)
LEMMA EmptyContents ==
    ASSUME NEW dk \in [Key -> Data], NEW ks, ks = [s \in Slot |-> NoKey],
           NEW ds, ds = [s \in Slot |-> Zero]
    PROVE  Contents(dk, ks, ds, {}) /\ WriteBack(dk, ks, ds, Slot) = dk
<1>1. Contents(dk, ks, ds, {})
  BY DataAssumption, NoKeyAssumption DEF Contents, Unique, CleanOn
<1>2. WriteBack(dk, ks, ds, {}) = dk
  BY DEF WriteBack
<1> QED
  BY <1>1, <1>2, FullFlush

---------------------------------------------------------------------------
(* What one step does to the contents: the invariants hold afterwards,     *)
(* reads return target, and the disk has at most caught up with it.        *)
After(target) == /\ Contents(disk', key', data', dirty')
                 /\ WriteBack(disk', key', data', Slot) = target
                 /\ Store!CatchUp(target)

(* What reads return is a value for every sector. *)
LEMMA CurrentType == IInv => Current \in [Key -> Data] /\ disk \in [Key -> Data]
  BY IInvContents, WriteBackType DEF Current, Contents

(* A read of k that misses evicts s and, if the device answers, k2 = k,    *)
(* fills it.                                                               *)
Missed(s, k, k2) == /\ Hits(k) = {}
                    /\ disk' = DiskAfterEvict(s)
                    /\ key' = [key EXCEPT ![s] = k2]
                    /\ data' = [data EXCEPT ![s] = IF k2 = k THEN disk'[k] ELSE Zero]
                    /\ dirty' = dirty \ {s}

(* A miss, answered or failed, keeps the invariant and what reads return. *)
LEMMA MissStep ==
    ASSUME IInv, NEW s \in Slot, NEW k \in Key, NEW k2 \in {k, NoKey}, Missed(s, k, k2)
    PROVE  After(Current) /\ disk'[k] = Current[k]
<1> DEFINE v == IF k2 = k THEN disk'[k] ELSE Zero
<1>1. Contents(disk, key, data, dirty) /\ k # NoKey
  BY IInvContents, NoKeyAssumption
<1>2. /\ Contents(disk', key, data, dirty')
      /\ WriteBack(disk', key, data, Slot) = Current
      /\ \A j \in Key : disk'[j] \in {disk[j], Current[j]}
      /\ \A j \in Key : j # key[s] => disk'[j] = disk[j]
  BY <1>1, EvictKeeps DEF Missed
<1>3. \A t \in Slot : key[t] # k
  BY DEF Missed, Hits
<1>4. disk'[k] = Current[k] /\ disk' \in [Key -> Data]
  <2>1. Current[k] = disk[k]
    BY <1>1, <1>3, WriteBackLookup DEF Current, Contents
  <2> QED
    BY <1>2, <1>3, <2>1 DEF Contents
<1>5. v \in Data
  BY <1>4, DataAssumption
<1>6. Refilled(disk', key, data, dirty', s, k2, v, key', data', dirty')
  BY <1>1, <1>2, <1>3, <1>5 DEF Refilled, Missed
<1> HIDE DEF v
<1>7. /\ Contents(disk', key', data', dirty')
      /\ \A j \in Key : WriteBack(disk', key', data', Slot)[j] =
                          IF j = k2 THEN v ELSE WriteBack(disk', key, data, Slot)[j]
  BY <1>6, RefillKeeps
<1>8. \A j \in Key : WriteBack(disk', key', data', Slot)[j] = Current[j]
  BY <1>2, <1>4, <1>7, NoKeyAssumption DEF v
<1>9. WriteBack(disk', key', data', Slot) \in [Key -> Data] /\ Current \in [Key -> Data]
  BY <1>7, CurrentType, WriteBackType DEF Contents
<1>10. WriteBack(disk', key', data', Slot) = Current
  BY <1>8, <1>9
<1> QED
  BY <1>2, <1>4, <1>7, <1>10 DEF After, Store!CatchUp

(* An accepted write. *)
LEMMA WriteStep ==
    ASSUME IInv, NEW k \in Key, NEW v \in Data, Write(k, v)
    PROVE  /\ After([Current EXCEPT ![k] = v])
           /\ CountIsExact'
           /\ DeadlineCoversAll'
           /\ waited' \in 0..Interval
           /\ age' \in [Slot -> 0..Interval]
<1>1. PICK s \in Slot :
        /\ SlotFor(s, k)
        /\ key' = Put(s, k, v).key
        /\ data' = Put(s, k, v).data
        /\ dirty' = Put(s, k, v).dirty \ WriteBehind(Put(s, k, v))
        /\ dirtyCount' = CountAfterClean(Put(s, k, v).count, WriteBehind(Put(s, k, v)))
        /\ waited' = Put(s, k, v).waited
        /\ disk' = WriteBack(Put(s, k, v).disk, Put(s, k, v).key, Put(s, k, v).data,
                             WriteBehind(Put(s, k, v)))
        /\ age' = Aged(Put(s, k, v).age, dirty')
  BY DEF Write
<1> DEFINE p == Put(s, k, v)
           W == WriteBehind(p)
           target == [Current EXCEPT ![k] = v]
<1>2. /\ Contents(p.disk, p.key, p.data, p.dirty)
      /\ \A j \in Key : WriteBack(p.disk, p.key, p.data, Slot)[j] =
                          IF j = k THEN v ELSE Current[j]
      /\ \A j \in Key : p.disk[j] \in {disk[j], Current[j]}
      /\ p.disk[k] = disk[k]
      /\ p.count = Cardinality(p.dirty)
      /\ p.waited \in 0..Interval
      /\ p.age \in [Slot -> 0..Interval]
      /\ \A t \in p.dirty : p.age[t] <= p.waited
  <2>1. PutOK(p, k, v)
    BY <1>1, PutKeeps
  <2> QED
    BY <2>1 DEF PutOK
<1>3. W \in SUBSET p.dirty /\ p.dirty \in SUBSET Slot
  BY <1>2 DEF WriteBehind, Flushable, Contents
<1>4. Current \in [Key -> Data]
  BY CurrentType
<1> HIDE DEF p, W
<1>5. /\ Contents(disk', key', data', dirty')
      /\ WriteBack(disk', key', data', Slot) = WriteBack(p.disk, p.key, p.data, Slot)
  BY <1>1, <1>2, <1>3, FlushKeeps DEF p, W
<1>6. WriteBack(p.disk, p.key, p.data, Slot) = target
  <2>1. WriteBack(p.disk, p.key, p.data, Slot) \in [Key -> Data]
    BY <1>2, WriteBackType DEF Contents
  <2> QED
    BY Zenon, <1>2, <1>4, <2>1
<1>7. Store!CatchUp(target)
  <2>1. \A j \in Key : disk'[j] \in {p.disk[j], WriteBack(p.disk, p.key, p.data, Slot)[j]}
    BY <1>1, <1>2, <1>3, WriteBackCatchesUp DEF p, W
  <2>2. \A j \in Key : disk'[j] \in {disk[j], target[j]}
    BY <1>2, <1>4, <1>6, <2>1
  <2> QED
    BY <1>5, <2>2 DEF Store!CatchUp, Contents
<1>8. CountIsExact'
  BY <1>1, <1>2, <1>3, CountClean DEF CountIsExact, p, W
<1>9. /\ waited' \in 0..Interval /\ age' \in [Slot -> 0..Interval]
      /\ DeadlineCoversAll'
  <2>1. /\ age' \in [Slot -> 0..Interval]
        /\ \A t \in Slot : t \in dirty' => age'[t] = p.age[t]
    <3>1. age' = Aged(p.age, dirty') /\ p.age \in [Slot -> 0..Interval]
      BY <1>1, <1>2 DEF p
    <3> QED
      BY <3>1, AgedType
  <2>2. dirty' \in SUBSET p.dirty /\ waited' = p.waited
    BY <1>1 DEF p
  <2> QED
    BY <1>2, <1>3, <2>1, <2>2 DEF DeadlineCoversAll
<1> QED
  BY <1>5, <1>6, <1>7, <1>8, <1>9 DEF After

(* Writing back some dirty slots, and dropping some clean ones. *)
LEMMA CleanStep ==
    ASSUME IInv, NEW W \in SUBSET dirty, NEW X \in SUBSET Slot, X \cap (dirty \ W) = {},
           key' = [s \in Slot |-> IF s \in X THEN NoKey ELSE key[s]],
           data' = data,
           dirty' = dirty \ W,
           dirtyCount' = CountAfterClean(dirtyCount, W),
           disk' = WriteBack(disk, key, data, W),
           age' = Aged(age, dirty'),
           waited' = waited
    PROVE  /\ After(Current)
           /\ CountIsExact'
           /\ DeadlineCoversAll'
           /\ waited' \in 0..Interval
           /\ age' \in [Slot -> 0..Interval]
<1>1. Contents(disk, key, data, dirty) /\ W \in SUBSET Slot /\ dirty \in SUBSET Slot
  BY IInvContents DEF Contents
<1>2. /\ Contents(disk', key, data, dirty')
      /\ WriteBack(disk', key, data, Slot) = Current
  BY <1>1, FlushKeeps DEF Current
<1>3. X \cap dirty' = {}
  OBVIOUS
<1>4. /\ Contents(disk', key', data', dirty')
      /\ WriteBack(disk', key', data', Slot) = Current
  BY <1>2, <1>3, DropKeeps
<1>5. Store!CatchUp(Current)
  <2>1. \A j \in Key : disk'[j] \in {disk[j], Current[j]}
    BY <1>1, WriteBackCatchesUp DEF Current
  <2> QED
    BY <1>4, <2>1 DEF Store!CatchUp, Contents
<1>6. CountIsExact'
  BY <1>1, CountClean DEF CountIsExact, IInv
<1>7. /\ age' \in [Slot -> 0..Interval]
      /\ \A t \in Slot : t \in dirty' => age'[t] = age[t]
  BY AgedType DEF IInv, TypeOK
<1>8. waited' \in 0..Interval /\ DeadlineCoversAll'
  BY Zenon, <1>1, <1>7 DEF IInv, TypeOK, DeadlineCoversAll
<1> QED
  BY <1>4, <1>5, <1>6, <1>7, <1>8 DEF After

---------------------------------------------------------------------------
(* Consistent contents give the invariants on slots and their types... *)
LEMMA ContentsIInv ==
    Contents(disk, key, data, dirty)
      => /\ OneSlotPerSector /\ CleanIsOnDisk
         /\ key \in [Slot -> Key \cup {NoKey}] /\ data \in [Slot -> Data]
         /\ dirty \subseteq Slot /\ disk \in [Key -> Data]
  BY DEF OneSlotPerSector, CleanIsOnDisk, Contents, Unique, CleanOn

(* ...and so they do after a step. *)
LEMMA ContentsIInvPrime ==
    Contents(disk', key', data', dirty')
      => /\ OneSlotPerSector' /\ CleanIsOnDisk'
         /\ key' \in [Slot -> Key \cup {NoKey}] /\ data' \in [Slot -> Data]
         /\ dirty' \subseteq Slot /\ disk' \in [Key -> Data]
  BY DEF OneSlotPerSector, CleanIsOnDisk, Contents, Unique, CleanOn

(* The counters of bcache_ticks stay in range. *)
LEMMA TickType == \A n \in Nat : (n + 1) % TickMod \in 0..(TickMod - 1)
  BY BoundsAssumption

(* Time passes for the deadline and for every dirty slot alike. *)
LEMMA OlderMonotonic ==
    /\ \A n \in 0..Interval : Older(n) \in 0..Interval
    /\ \A m, n \in 0..Interval : m <= n => Older(m) <= Older(n)
  BY BoundsAssumption DEF Older

(* The step from a cache to an empty one over a disk dk. *)
LEMMA EmptyStep ==
    ASSUME NEW dk \in [Key -> Data], disk' = dk, EmptyCache
    PROVE  /\ Contents(disk', key', data', dirty')
           /\ WriteBack(disk', key', data', Slot) = disk'
           /\ CountIsExact'
           /\ DeadlineCoversAll'
           /\ last' \in [Slot -> 0..(TickMod - 1)] /\ ticks' \in 0..(TickMod - 1)
           /\ dirtyCount' \in Nat /\ waited' \in 0..Interval /\ age' \in [Slot -> 0..Interval]
<1>1. /\ key' = [s \in Slot |-> NoKey] /\ data' = [s \in Slot |-> Zero] /\ dirty' = {}
      /\ last' = [s \in Slot |-> 0] /\ ticks' = 0 /\ dirtyCount' = 0 /\ waited' = 0
      /\ age' = [s \in Slot |-> 0]
  BY DEF EmptyCache
<1>2. Contents(dk, key', data', {}) /\ WriteBack(dk, key', data', Slot) = dk
  BY <1>1, EmptyContents
<1>3. CountIsExact'
  BY <1>1, FS_EmptySet DEF CountIsExact
<1> QED
  BY <1>1, <1>2, <1>3, BoundsAssumption DEF DeadlineCoversAll

(* What each operation of the cache does to the contents. *)
LEMMA FlushAllStep ==
    ASSUME IInv, FlushAll
    PROVE  /\ After(Current) /\ CountIsExact' /\ DeadlineCoversAll'
           /\ waited' \in 0..Interval /\ age' \in [Slot -> 0..Interval]
<1> DEFINE W == Flushable(key, dirty)
           X == {}
<1>1. W \in SUBSET dirty /\ X \in SUBSET Slot /\ X \cap (dirty \ W) = {}
  BY DEF Flushable
<1>2. key' = [s \in Slot |-> IF s \in X THEN NoKey ELSE key[s]]
  BY DEF FlushAll, IInv, TypeOK
<1>3. /\ data' = data /\ dirty' = dirty \ W /\ dirtyCount' = CountAfterClean(dirtyCount, W)
      /\ disk' = WriteBack(disk, key, data, W) /\ age' = Aged(age, dirty') /\ waited' = waited
  BY DEF FlushAll
<1> HIDE DEF W, X
<1> QED
  BY <1>1, <1>2, <1>3, CleanStep

(* bcache_flush_dev() keeps the invariant and what reads return. *)
LEMMA FlushDevStep ==
    ASSUME IInv, NEW d \in Dev, FlushDev(d)
    PROVE  /\ After(Current) /\ CountIsExact' /\ DeadlineCoversAll'
           /\ waited' \in 0..Interval /\ age' \in [Slot -> 0..Interval]
<1> DEFINE mine == {s \in Slot : key[s] # NoKey /\ key[s][1] = d}
           kept == mine \cap dirty \cap {s \in Slot : key[s] \in bad}
           W == (mine \cap dirty) \ kept
           X == mine \ kept
<1>1. W \in SUBSET dirty /\ X \in SUBSET Slot /\ X \cap (dirty \ W) = {}
  OBVIOUS
<1>2. /\ key' = [s \in Slot |-> IF s \in X THEN NoKey ELSE key[s]]
      /\ data' = data /\ dirty' = dirty \ W /\ dirtyCount' = CountAfterClean(dirtyCount, W)
      /\ disk' = WriteBack(disk, key, data, W) /\ age' = Aged(age, dirty') /\ waited' = waited
  BY DEF FlushDev
<1> HIDE DEF W, X
<1> QED
  BY <1>1, <1>2, CleanStep

(* A change of disk either empties a fully flushed cache or is a flush. *)
LEMMA ChangeDiskStep ==
    ASSUME IInv, ChangeDisk, Flushable(key, dirty) = dirty
    PROVE  /\ After(Current) /\ disk' = Current /\ CountIsExact' /\ DeadlineCoversAll'
           /\ last' \in [Slot -> 0..(TickMod - 1)] /\ ticks' \in 0..(TickMod - 1)
           /\ dirtyCount' \in Nat /\ waited' \in 0..Interval /\ age' \in [Slot -> 0..Interval]
<1>1. disk' = WriteBack(disk, key, data, dirty) /\ EmptyCache
  BY DEF ChangeDisk
<1>2. disk' = Current /\ Current \in [Key -> Data]
  BY <1>1, IInvContents, FullFlush, CurrentType DEF Current
<1>3. \A j \in Key : disk'[j] \in {disk[j], Current[j]}
  BY <1>2
<1> QED
  BY <1>1, <1>2, <1>3, EmptyStep DEF After, Store!CatchUp

(* A power loss leaves an empty, consistent cache over what got written. *)
LEMMA PowerLossStep ==
    ASSUME IInv, PowerLoss
    PROVE  /\ Contents(disk', key', data', dirty')
           /\ WriteBack(disk', key', data', Slot) = disk'
           /\ Store!CatchUp(Current)
           /\ CountIsExact' /\ DeadlineCoversAll'
           /\ last' \in [Slot -> 0..(TickMod - 1)] /\ ticks' \in 0..(TickMod - 1)
           /\ dirtyCount' \in Nat /\ waited' \in 0..Interval /\ age' \in [Slot -> 0..Interval]
<1>1. PICK n \in 0..NumSlots :
        disk' = WriteBack(disk, key, data, {s \in Flushable(key, dirty) : s < n})
  BY DEF PowerLoss
<1> DEFINE W == {s \in Flushable(key, dirty) : s < n}
<1>2. Contents(disk, key, data, dirty) /\ W \in SUBSET Slot
  BY IInvContents DEF Flushable, IInv, TypeOK
<1>3. disk' = WriteBack(disk, key, data, W)
  BY <1>1
<1> HIDE DEF W
<1>4. disk' \in [Key -> Data]
  BY <1>2, <1>3, WriteBackType DEF Contents
<1>5. \A j \in Key : disk'[j] \in {disk[j], Current[j]}
  BY <1>2, <1>3, WriteBackCatchesUp DEF Current
<1>6. EmptyCache
  BY DEF PowerLoss
<1> QED
  BY <1>4, <1>5, <1>6, EmptyStep DEF Store!CatchUp

(* The same in the middle of the write-behind of a write. *)
LEMMA PowerLossInWriteStep ==
    ASSUME IInv, NEW k \in Key, NEW v \in Data, PowerLossInWrite(k, v)
    PROVE  /\ Contents(disk', key', data', dirty')
           /\ WriteBack(disk', key', data', Slot) = disk'
           /\ Store!CatchUp([Current EXCEPT ![k] = v])
           /\ CountIsExact' /\ DeadlineCoversAll'
           /\ last' \in [Slot -> 0..(TickMod - 1)] /\ ticks' \in 0..(TickMod - 1)
           /\ dirtyCount' \in Nat /\ waited' \in 0..Interval /\ age' \in [Slot -> 0..Interval]
<1>1. PICK s \in Slot, n \in 0..NumSlots :
        /\ SlotFor(s, k)
        /\ disk' = WriteBack(Put(s, k, v).disk, Put(s, k, v).key, Put(s, k, v).data,
                             {t \in WriteBehind(Put(s, k, v)) : t < n})
  BY Zenon DEF PowerLossInWrite
<1> DEFINE p == Put(s, k, v)
           W == {t \in WriteBehind(p) : t < n}
           target == [Current EXCEPT ![k] = v]
<1>2. /\ Contents(p.disk, p.key, p.data, p.dirty)
      /\ \A j \in Key : WriteBack(p.disk, p.key, p.data, Slot)[j] =
                          IF j = k THEN v ELSE Current[j]
      /\ \A j \in Key : p.disk[j] \in {disk[j], Current[j]}
      /\ p.disk[k] = disk[k]
  <2>1. PutOK(p, k, v)
    BY <1>1, PutKeeps
  <2> QED
    BY <2>1 DEF PutOK
<1>3. W \in SUBSET Slot
  BY <1>2 DEF WriteBehind, Flushable, Contents
<1>4. disk' = WriteBack(p.disk, p.key, p.data, W)
  BY <1>1
<1>5. Current \in [Key -> Data]
  BY CurrentType
<1> HIDE DEF p, W
<1>6. disk' \in [Key -> Data]
  BY <1>2, <1>3, <1>4, WriteBackType DEF Contents
<1>7. \A j \in Key : disk'[j] \in {p.disk[j], WriteBack(p.disk, p.key, p.data, Slot)[j]}
  BY <1>2, <1>3, <1>4, WriteBackCatchesUp
<1>8. \A j \in Key : disk'[j] \in {disk[j], target[j]}
  BY <1>2, <1>5, <1>7
<1>9. EmptyCache
  BY DEF PowerLossInWrite
<1> QED
  BY <1>6, <1>8, <1>9, EmptyStep DEF Store!CatchUp

---------------------------------------------------------------------------
(* Every step keeps the inductive invariant. *)
LEMMA InitIInv == Init => IInv
<1> SUFFICES ASSUME Init PROVE IInv
  OBVIOUS
<1>1. Contents(disk, key, data, dirty)
  BY EmptyContents DEF Init
<1>2. Cardinality({}) = 0
  BY FS_EmptySet
<1> QED
  BY <1>1, <1>2, ContentsIInv, BoundsAssumption
  DEF Init, IInv, TypeOK, CountIsExact, DeadlineCoversAll, None

(* Every step of the cache keeps the inductive invariant. *)
LEMMA NextIInv == IInv /\ [Next]_vars => IInv'
<1> SUFFICES ASSUME IInv, [Next]_vars
             PROVE  IInv'
  OBVIOUS
<1>0. TypeOK /\ CountIsExact /\ DeadlineCoversAll /\ Contents(disk, key, data, dirty)
  BY IInvContents DEF IInv
<1>t. (ticks + 1) % TickMod \in 0..(TickMod - 1)
  BY <1>0, TickType, BoundsAssumption DEF TypeOK
<1>c. ASSUME CountIsExact', dirty' \in SUBSET Slot
      PROVE  dirtyCount' \in Nat
  BY <1>c, SlotsFinite DEF CountIsExact
<1>1. CASE UNCHANGED vars
  BY <1>1, <1>0 DEF vars, IInv, TypeOK, OneSlotPerSector, CleanIsOnDisk, CountIsExact,
                    DeadlineCoversAll
<1>2. ASSUME NEW k \in Key, ReadHit(k)
      PROVE  IInv'
  <2>1. PICK s \in Slot : /\ ticks' = (ticks + 1) % TickMod
                          /\ last' = [last EXCEPT ![s] = ticks']
                          /\ reply' = [op |-> "read", key |-> k, data |-> data[s]]
    BY Zenon, <1>2 DEF ReadHit, Hits
  <2>2. UNCHANGED <<key, data, dirty, dirtyCount, waited, disk, bad, age>>
    BY <1>2 DEF ReadHit
  <2>3. TypeOK'
    BY <1>0, <1>t, <2>1, <2>2 DEF TypeOK
  <2> QED
    BY <2>2, <2>3 DEF IInv, OneSlotPerSector, CleanIsOnDisk, CountIsExact, DeadlineCoversAll
<1>3. ASSUME NEW k \in Key, ReadMiss(k) \/ ReadFails(k)
      PROVE  IInv'
  <2>1. PICK s \in Slot, k2 \in {k, NoKey} :
          /\ Missed(s, k, k2)
          /\ ticks' = (ticks + 1) % TickMod
          /\ last' \in {last, [last EXCEPT ![s] = ticks']}
          /\ dirtyCount' = CountAfterClean(dirtyCount, {s} \cap dirty)
          /\ age' = Aged(age, dirty')
          /\ reply' \in {None, [op |-> "read", key |-> k, data |-> disk'[k]]}
          /\ waited' = waited /\ bad' = bad
    <3>1. CASE ReadMiss(k)
      BY Zenon, <3>1 DEF ReadMiss, Missed
    <3>2. CASE ReadFails(k)
      BY Zenon, <3>2, NoKeyAssumption DEF ReadFails, Missed
    <3> QED
      BY Zenon, <1>3, <3>1, <3>2
  <2>2. Contents(disk', key', data', dirty')
    BY <2>1, MissStep DEF After
  <2>3. CountIsExact'
    BY Zenon, <1>0, <2>1, EvictCount DEF CountIsExact, Missed, TypeOK
  <2>4. /\ age' \in [Slot -> 0..Interval]
        /\ \A t \in Slot : t \in dirty' => age'[t] = age[t]
    <3>1. age \in [Slot -> 0..Interval]
      BY <1>0 DEF TypeOK
    <3>2. age' = Aged(age, dirty')
      BY <2>1
    <3> QED
      BY <3>1, <3>2, AgedType
  <2>5. DeadlineCoversAll'
    BY Zenon, <1>0, <2>1, <2>4 DEF DeadlineCoversAll, Missed, TypeOK
  <2>6. last' \in [Slot -> 0..(TickMod - 1)] /\ ticks' \in 0..(TickMod - 1)
    BY <1>0, <1>t, <2>1 DEF TypeOK
  <2>7. dirtyCount' \in Nat /\ disk' \in [Key -> Data]
    BY <1>c, <2>2, <2>3, ContentsIInvPrime
  <2>8. /\ waited' \in 0..Interval /\ bad' \subseteq Key
        /\ reply' \in {None} \cup [op : {"read"}, key : Key, data : Data]
    <3>1. waited' = waited /\ bad' = bad
      BY <2>1
    <3>2. reply' = None \/ reply' = [op |-> "read", key |-> k, data |-> disk'[k]]
      BY <2>1
    <3>3. disk'[k] \in Data
      BY <2>7
    <3>4. reply' \in {None} \cup [op : {"read"}, key : Key, data : Data]
      BY <3>2, <3>3
    <3> QED
      BY <1>0, <3>1, <3>4 DEF TypeOK
  <2>9. TypeOK'
    BY <2>2, <2>4, <2>6, <2>7, <2>8, ContentsIInvPrime DEF TypeOK
  <2> QED
    BY <2>2, <2>3, <2>5, <2>9, ContentsIInvPrime DEF IInv
<1>4. ASSUME NEW k \in Key, NoSlotFor(k) \/ WriteRefused(k)
      PROVE  IInv'
  <2>1. /\ UNCHANGED <<key, data, dirty, last, dirtyCount, waited, disk, bad, age>>
        /\ ticks' \in 0..(TickMod - 1)
        /\ reply' = None
    BY <1>0, <1>4, <1>t DEF NoSlotFor, WriteRefused, cacheVars, TypeOK
  <2> QED
    BY <1>0, <2>1 DEF IInv, TypeOK, OneSlotPerSector, CleanIsOnDisk, CountIsExact, DeadlineCoversAll
<1>5. ASSUME NEW k \in Key, NEW v \in Data, Write(k, v)
      PROVE  IInv'
  <2>1. PICK s \in Slot : ticks' = (ticks + 1) % TickMod /\ last' = [last EXCEPT ![s] = ticks']
    BY Zenon, <1>5 DEF Write
  <2>2. bad' = bad /\ reply' = [op |-> "write"]
    BY <1>5 DEF Write
  <2>3. /\ Contents(disk', key', data', dirty') /\ CountIsExact' /\ DeadlineCoversAll'
        /\ waited' \in 0..Interval /\ age' \in [Slot -> 0..Interval]
    BY Zenon, <1>5, WriteStep DEF After
  <2>4. last' \in [Slot -> 0..(TickMod - 1)] /\ ticks' \in 0..(TickMod - 1)
    BY <1>0, <1>t, <2>1 DEF TypeOK
  <2>5. TypeOK'
    BY <1>0, <1>c, <2>2, <2>3, <2>4, ContentsIInvPrime DEF TypeOK
  <2> QED
    BY <2>3, <2>5, ContentsIInvPrime DEF IInv
<1>6. ASSUME FlushAll \/ (\E d \in Dev : FlushDev(d)),
             reply' \in {None, [op |-> "sync"]}
      PROVE  IInv'
  <2>1. /\ Contents(disk', key', data', dirty') /\ CountIsExact' /\ DeadlineCoversAll'
        /\ waited' \in 0..Interval /\ age' \in [Slot -> 0..Interval]
    BY <1>6, FlushAllStep, FlushDevStep DEF After
  <2>2. UNCHANGED <<last, ticks, bad>>
    BY Zenon, <1>6 DEF FlushAll, FlushDev
  <2>3. TypeOK'
    BY <1>0, <1>6, <1>c, <2>1, <2>2, ContentsIInvPrime DEF TypeOK
  <2> QED
    BY <2>1, <2>3, ContentsIInvPrime DEF IInv
<1>7. CASE ChangeDisk
  <2>1. CASE Flushable(key, dirty) = dirty
    <3>1. bad' = bad /\ reply' = [op |-> "sync"]
      BY <1>7, <2>1 DEF ChangeDisk
    <3>2. /\ Contents(disk', key', data', dirty') /\ CountIsExact' /\ DeadlineCoversAll'
          /\ last' \in [Slot -> 0..(TickMod - 1)] /\ ticks' \in 0..(TickMod - 1)
          /\ dirtyCount' \in Nat /\ waited' \in 0..Interval /\ age' \in [Slot -> 0..Interval]
      BY <1>7, <2>1, ChangeDiskStep DEF After
    <3>3. TypeOK'
      BY <1>0, <3>1, <3>2, ContentsIInvPrime DEF TypeOK
    <3> QED
      BY <3>2, <3>3, ContentsIInvPrime DEF IInv
  <2>2. CASE Flushable(key, dirty) # dirty
    BY <1>6, <1>7, <2>2 DEF ChangeDisk
  <2> QED
    BY <2>1, <2>2
<1>8. CASE TimerTick
  <2>1. /\ waited' = Older(waited)
        /\ age' = [s \in Slot |-> IF s \in dirty THEN Older(age[s]) ELSE 0]
        /\ reply' = None
        /\ UNCHANGED <<key, data, dirty, last, ticks, dirtyCount, disk, bad>>
    BY <1>8 DEF TimerTick
  <2>2. /\ waited \in 0..Interval /\ age \in [Slot -> 0..Interval] /\ 0 \in 0..Interval
        /\ dirty \subseteq Slot /\ \A s \in dirty : age[s] <= waited
    BY <1>0, BoundsAssumption DEF TypeOK, DeadlineCoversAll
  <2>3. waited' \in 0..Interval /\ age' \in [Slot -> 0..Interval]
    BY <2>1, <2>2, OlderMonotonic
  <2>4. DeadlineCoversAll'
    BY <2>1, <2>2, OlderMonotonic DEF DeadlineCoversAll
  <2>5. TypeOK'
    BY <1>0, <2>1, <2>3 DEF TypeOK
  <2> QED
    BY <2>1, <2>4, <2>5 DEF IInv, OneSlotPerSector, CleanIsOnDisk, CountIsExact
<1>9. CASE DeviceChanges
  <2>1. bad' \subseteq Key /\ reply' = None /\ UNCHANGED <<cacheVars, disk>>
    BY <1>9 DEF DeviceChanges
  <2> QED
    BY <1>0, <2>1 DEF cacheVars, IInv, TypeOK, OneSlotPerSector, CleanIsOnDisk, CountIsExact,
                      DeadlineCoversAll
<1>10. ASSUME PowerLoss \/ (\E k \in Key, v \in Data : PowerLossInWrite(k, v))
       PROVE  IInv'
  <2>1. /\ Contents(disk', key', data', dirty') /\ CountIsExact' /\ DeadlineCoversAll'
        /\ last' \in [Slot -> 0..(TickMod - 1)] /\ ticks' \in 0..(TickMod - 1)
        /\ dirtyCount' \in Nat /\ waited' \in 0..Interval /\ age' \in [Slot -> 0..Interval]
    BY Zenon, <1>10, PowerLossStep, PowerLossInWriteStep
  <2>2. reply' = None /\ bad' = {}
    BY Zenon, <1>10 DEF PowerLoss, PowerLossInWrite
  <2>3. TypeOK'
    BY <2>1, <2>2, ContentsIInvPrime DEF TypeOK
  <2> QED
    BY <2>1, <2>3, ContentsIInvPrime DEF IInv
<1>11. CASE Flush \/ FlushIfDue \/ (\E d \in Dev : FlushDev(d))
  BY <1>6, <1>11 DEF Flush, FlushIfDue, FlushDev
<1> QED
  BY <1>1, <1>2, <1>3, <1>4, <1>5, <1>7, <1>8, <1>9, <1>10, <1>11 DEF Next

(* The inductive invariant holds throughout every behaviour. *)
LEMMA Invariance == Spec => []IInv
  BY InitIInv, NextIInv, PTL DEF Spec

(* Every variable of the cache keeps its type: no operation leaves a slot, *)
(* a counter or a reply half set up.                                       *)
THEOREM TypeCorrect == Spec => []TypeOK
<1>1. IInv => TypeOK
  BY DEF IInv
<1> QED
  BY <1>1, Invariance, PTL

(* Whatever the workload, the failures and the power do, no sector is ever *)
(* in two slots.                                                           *)
THEOREM NoDuplicates == Spec => []OneSlotPerSector
<1>1. IInv => OneSlotPerSector
  BY DEF IInv
<1> QED
  BY <1>1, Invariance, PTL

(* A clean slot always equals its disk sector, so the LRU scan may reuse   *)
(* it without a write.                                                     *)
THEOREM CleanSlotsAreDisposable == Spec => []CleanIsOnDisk
<1>1. IInv => CleanIsOnDisk
  BY DEF IInv
<1> QED
  BY <1>1, Invariance, PTL

(* dirty_count never drifts from the number of dirty slots. *)
THEOREM CounterNeverDrifts == Spec => []CountIsExact
<1>1. IInv => CountIsExact
  BY DEF IInv
<1> QED
  BY <1>1, Invariance, PTL

(* No dirty sector outlives the flush interval unnoticed. *)
THEOREM DeadlineIsConservative == Spec => []DeadlineCoversAll
<1>1. IInv => DeadlineCoversAll
  BY DEF IInv
<1> QED
  BY <1>1, Invariance, PTL

(* Everything the cache's operations rely on holds throughout.             *)
THEOREM CacheStaysSound == Spec => []CacheIsSound
<1>1. /\ TypeOK /\ OneSlotPerSector /\ CleanIsOnDisk /\ CountIsExact /\ DeadlineCoversAll
      => CacheIsSound
  BY DEF CacheIsSound
<1> QED
  BY <1>1, TypeCorrect, NoDuplicates, CleanSlotsAreDisposable, CounterNeverDrifts,
     DeadlineIsConservative, PTL

(* An accepted write that leaves the cache at or above the high-water mark *)
(* leaves nothing dirty that its device would have taken.                  *)
THEOREM WriteBehindIsComplete == Spec => VolumeIsBounded
<1> DEFINE Bounded == reply'.op = "write" /\ dirtyCount' >= HighWater
                        => \A s \in dirty' : key'[s] \in bad
<1>1. ASSUME IInv, [Next]_vars
      PROVE  [Bounded]_vars
  <2>1. ASSUME NEW k \in Key, NEW v \in Data, Write(k, v)
        PROVE  Bounded
    <3>1. PICK s \in Slot :
            /\ SlotFor(s, k)
            /\ key' = Put(s, k, v).key
            /\ dirty' = Put(s, k, v).dirty \ WriteBehind(Put(s, k, v))
            /\ dirtyCount' = CountAfterClean(Put(s, k, v).count, WriteBehind(Put(s, k, v)))
      BY <2>1 DEF Write
    <3> DEFINE p == Put(s, k, v)
               W == WriteBehind(p)
    <3>2. p.count = Cardinality(p.dirty) /\ p.dirty \in SUBSET Slot
      <4>1. PutOK(p, k, v)
        BY <1>1, <3>1, PutKeeps
      <4> QED
        BY <4>1 DEF PutOK, Contents
    <3>3. W \in SUBSET p.dirty
      BY DEF WriteBehind, Flushable
    <3> HIDE DEF p, W
    <3>4. Cardinality(W) \in Nat /\ p.count \in Nat
      BY <3>2, <3>3, SlotsFinite
    <3>5. dirtyCount' = CountAfterClean(p.count, W)
      BY <3>1 DEF p, W
    <3>6. ASSUME dirtyCount' >= HighWater
          PROVE  W = Flushable(p.key, p.dirty)
      <4>1. p.count >= HighWater
        BY <3>4, <3>5, <3>6, BoundsAssumption DEF CountAfterClean
      <4> QED
        BY <4>1 DEF W, WriteBehind
    <3> QED
      BY <3>1, <3>6 DEF Flushable, p, W
  <2>2. ASSUME reply' \in {None, [op |-> "sync"]}
                            \cup [op : {"read"}, key : Key, data : Data]
        PROVE  Bounded
    BY <2>2 DEF None
  <2>3. ASSUME NEW k \in Key,
               ReadHit(k) \/ ReadMiss(k) \/ ReadFails(k) \/ NoSlotFor(k) \/ WriteRefused(k)
        PROVE  Bounded
    <3>1. reply' = None \/ \E x : reply' = [op |-> "read", key |-> k, data |-> x]
      <4>1. CASE ReadHit(k)
        BY Zenon, <4>1 DEF ReadHit
      <4>2. CASE ReadMiss(k)
        BY Zenon, <4>2 DEF ReadMiss
      <4>3. CASE ReadFails(k) \/ NoSlotFor(k) \/ WriteRefused(k)
        BY Zenon, <4>3 DEF ReadFails, NoSlotFor, WriteRefused
      <4> QED
        BY <2>3, <4>1, <4>2, <4>3
    <3>2. CASE reply' = None
      BY <2>2, <3>2
    <3>3. ASSUME NEW x, reply' = [op |-> "read", key |-> k, data |-> x]
          PROVE  Bounded
      BY <3>3
    <3> QED
      BY <3>1, <3>2, <3>3
  <2>4. CASE Flush \/ FlushIfDue \/ (\E d \in Dev : FlushDev(d)) \/ ChangeDisk \/ TimerTick
               \/ DeviceChanges \/ PowerLoss \/ (\E k \in Key, v \in Data : PowerLossInWrite(k, v))
    <3>1. reply' \in {None, [op |-> "sync"]}
      BY Zenon, <2>4 DEF Flush, FlushIfDue, FlushDev, ChangeDisk, TimerTick, DeviceChanges, PowerLoss,
                  PowerLossInWrite
    <3> QED
      BY <2>2, <3>1
  <2> QED
    BY <1>1, <2>1, <2>3, <2>4 DEF Next
<1> QED
  BY <1>1, Invariance, PTL DEF Spec, VolumeIsBounded

---------------------------------------------------------------------------
(* The initial states of the cache are initial states of the plain store. *)
LEMMA InitImplements == Init => Store!Init
  BY EmptyContents DEF Init, Store!Init, None, Store!None

(* Every step of the cache is a step of the plain store, or changes        *)
(* nothing the store's user can see.                                       *)
LEMMA NextImplements == IInv /\ [Next]_vars => [Store!Next]_(Store!vars)
<1> SUFFICES ASSUME IInv, [Next]_vars
             PROVE  Store!Next \/ UNCHANGED Store!vars
  OBVIOUS
<1>o. ASSUME After(Current), reply' = None
      PROVE  Store!Next
  BY <1>o DEF After, Current, Store!Next, Store!Other, None, Store!None
<1>0. Current \in [Key -> Data] /\ disk \in [Key -> Data] /\ Contents(disk, key, data, dirty)
  BY CurrentType, IInvContents
<1>1. CASE UNCHANGED vars
  BY <1>1 DEF vars, Store!vars
<1>2. ASSUME NEW k \in Key, ReadHit(k)
      PROVE  Store!Next
  <2>1. PICK s \in Slot : key[s] = k /\ reply' = [op |-> "read", key |-> k, data |-> data[s]]
    BY <1>2 DEF ReadHit, Hits
  <2>2. UNCHANGED <<key, data, disk>>
    BY <1>2 DEF ReadHit
  <2>3. Current[k] = data[s]
    BY <1>0, <2>1, WriteBackLookup DEF Current, Contents
  <2>4. Store!Read(k)
    BY <1>0, <2>1, <2>2, <2>3 DEF Store!Read, Store!CatchUp, Current
  <2> QED
    BY <2>4 DEF Store!Next
<1>3. ASSUME NEW k \in Key, ReadMiss(k)
      PROVE  Store!Next
  <2>1. PICK s \in Slot : Missed(s, k, k) /\ reply' = [op |-> "read", key |-> k, data |-> disk'[k]]
    BY Zenon, <1>3 DEF ReadMiss, Missed
  <2>2. After(Current) /\ disk'[k] = Current[k]
    BY <2>1, MissStep
  <2>3. Store!Read(k)
    BY <2>1, <2>2 DEF Store!Read, After, Current
  <2> QED
    BY <2>3 DEF Store!Next
<1>4. ASSUME NEW k \in Key, ReadFails(k)
      PROVE  Store!Next
  <2>1. PICK s \in Slot : Missed(s, k, NoKey)
    BY Zenon, <1>4, NoKeyAssumption DEF ReadFails, Missed
  <2>2. After(Current)
    BY <2>1, MissStep
  <2> QED
    BY <1>4, <1>o, <2>2 DEF ReadFails
<1>5. ASSUME UNCHANGED <<key, data, disk>>, reply' = None
      PROVE  Store!Next
  BY <1>0, <1>5 DEF Current, Store!Next, Store!Other, Store!CatchUp, None, Store!None
<1>6. CASE (\E k \in Key : NoSlotFor(k) \/ WriteRefused(k)) \/ TimerTick \/ DeviceChanges
  BY <1>5, <1>6 DEF NoSlotFor, WriteRefused, TimerTick, DeviceChanges, cacheVars
<1>7. ASSUME NEW k \in Key, NEW v \in Data, Write(k, v)
      PROVE  Store!Next
  <2>1. After([Current EXCEPT ![k] = v])
    BY <1>7, WriteStep
  <2>2. Store!Write(k, v)
    BY <1>7, <2>1 DEF After, Current, Store!Write, Write
  <2> QED
    BY <2>2 DEF Store!Next
<1>8. ASSUME FlushAll, reply' = None
      PROVE  Store!Next
  BY <1>8, <1>o, FlushAllStep
<1>9. CASE Flush
  <2>1. CASE Flushable(key, dirty) = dirty
    <3>1. After(Current) /\ reply' = [op |-> "sync"]
      BY <1>9, <2>1, FlushAllStep DEF Flush
    <3>2. disk' = Current
      BY <1>0, <1>9, <2>1, FullFlush DEF Flush, FlushAll, Current
    <3> QED
      BY <3>1, <3>2 DEF After, Current, Store!Next, Store!Sync
  <2>2. CASE Flushable(key, dirty) # dirty
    BY <1>8, <1>9, <2>2 DEF Flush
  <2> QED
    BY <2>1, <2>2
<1>10. CASE FlushIfDue
  BY <1>8, <1>10 DEF FlushIfDue
<1>11. ASSUME NEW d \in Dev, FlushDev(d)
       PROVE  Store!Next
  BY <1>11, <1>o, FlushDevStep DEF FlushDev
<1>12. CASE ChangeDisk
  <2>1. CASE Flushable(key, dirty) = dirty
    <3>1. After(Current) /\ disk' = Current /\ reply' = [op |-> "sync"]
      BY <1>12, <2>1, ChangeDiskStep DEF ChangeDisk
    <3> QED
      BY <3>1 DEF After, Current, Store!Next, Store!Sync
  <2>2. CASE Flushable(key, dirty) # dirty
    BY <1>8, <1>12, <2>2 DEF ChangeDisk
  <2> QED
    BY <2>1, <2>2
<1>13. CASE PowerLoss
  <2>1. /\ WriteBack(disk', key', data', Slot) = disk' /\ Store!CatchUp(Current)
        /\ reply' = None
    BY Zenon, <1>13, PowerLossStep DEF PowerLoss
  <2> QED
    BY <2>1 DEF Current, Store!Next, Store!PowerLoss, None, Store!None
<1>14. ASSUME NEW k \in Key, NEW v \in Data, PowerLossInWrite(k, v)
       PROVE  Store!Next
  <2>1. /\ WriteBack(disk', key', data', Slot) = disk'
        /\ Store!CatchUp([Current EXCEPT ![k] = v])
        /\ reply' = None
    BY Zenon, <1>14, PowerLossInWriteStep DEF PowerLossInWrite
  <2>2. Store!PowerLossInWrite(k, v)
    BY <2>1 DEF Current, Store!PowerLossInWrite, None, Store!None
  <2> QED
    BY <2>2 DEF Store!Next
<1> QED
  BY <1>1, <1>2, <1>3, <1>4, <1>6, <1>7, <1>9, <1>10, <1>11, <1>12, <1>13, <1>14 DEF Next

(* The write-back cache implements a plain sector store: reads return the  *)
(* last accepted write, only a power loss can take one away, and E_OK from *)
(* bcache_flush() means the disk has everything.                           *)
THEOREM Refinement == Spec => ImplementsStore
  BY InitImplements, NextImplements, Invariance, PTL DEF Spec, ImplementsStore, Store!Spec
=============================================================================
