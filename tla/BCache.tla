------------------------------ MODULE BCache ------------------------------
(***************************************************************************)
(* The write-back block cache, fs/bcache.c, over the block devices of      *)
(* drivers/blockdev.c.                                                     *)
(*                                                                         *)
(* The cache runs in ordinary kernel context and the kernel is not         *)
(* preemptible, so every entry point is one atomic step, with one          *)
(* exception: the power can go between two device writes of a flush, and   *)
(* the PowerLoss actions take that into account.  A device may start or    *)
(* stop refusing writes to any of its sectors at any time, and any read    *)
(* from a device may fail.                                                 *)
(***************************************************************************)
EXTENDS Integers, FiniteSets

CONSTANTS NumSlots,      \* BCACHE_SIZE
          Dev,           \* the registered block devices
          ReadOnly,      \* those without a write handler
          SectorCount,   \* blockdev_t.sector_count
          Data,          \* sector contents
          Zero,          \* the content ft_memset(.., 0, 512) leaves
          HighWater,     \* BCACHE_DIRTY_HIGH_WATER
          Interval,      \* BCACHE_FLUSH_INTERVAL_TICKS
          TickMod,       \* bcache_ticks is an unsigned counter modulo this
          NoKey          \* the key of a slot whose is_valid is 0

ASSUME NumSlotsAssumption == NumSlots \in Nat \ {0}
ASSUME DevAssumption == ReadOnly \subseteq Dev
ASSUME SectorCountAssumption == SectorCount \in [Dev -> Nat]
ASSUME DataAssumption == Zero \in Data
ASSUME BoundsAssumption == /\ HighWater \in Nat \ {0}
                           /\ Interval \in Nat \ {0}
                           /\ TickMod \in Nat \ {0}

Slot == 0..(NumSlots - 1)
Key == UNION {{d} \X (0..(SectorCount[d] - 1)) : d \in Dev}

ASSUME NoKeyAssumption == NoKey \notin Key

VARIABLES key,          \* is_valid, dev and sector of each slot
          data,         \* data of each slot
          dirty,        \* the slots with is_dirty set
          last,         \* last_access of each slot
          ticks,        \* bcache_ticks
          dirtyCount,   \* dirty_count
          waited,       \* timer_get_ticks() - oldest_dirty_tick, up to Interval
          disk,         \* what the devices hold
          bad,          \* the sectors whose device refuses writes now
          reply,        \* what the last call, if it succeeded, told its caller
          age           \* history: ticks since each dirty slot became dirty

cacheVars == <<key, data, dirty, last, ticks, dirtyCount, waited, age>>
vars == <<key, data, dirty, last, ticks, dirtyCount, waited, disk, bad, reply, age>>

---------------------------------------------------------------------------
None == [op |-> "none"]

Hits(k) == {s \in Slot : key[s] = k}

(* age in bcache_get_lru_slot(), with bcache_ticks already incremented. *)
Idle(s) == (ticks + 1 - last[s]) % TickMod

(* The slot a scan for the greatest age settles on: ties go to the lowest. *)
Oldest(s, S) == /\ s \in S
                /\ \A t \in S : Idle(s) > Idle(t) \/ (Idle(s) = Idle(t) /\ s <= t)

(* bcache_get_lru_slot() returns s: an empty slot, else the oldest clean   *)
(* one, else the oldest dirty one whose device takes its data.             *)
IsVictim(s) ==
    LET empty == Hits(NoKey)
        clean == Slot \ dirty
    IN  \/ s \in empty /\ \A t \in empty : s <= t
        \/ empty = {} /\ Oldest(s, clean)
        \/ empty = {} /\ clean = {} /\ Oldest(s, {t \in Slot : key[t] \notin bad})

NoVictim == /\ Hits(NoKey) = {}
            /\ dirty = Slot
            /\ \A s \in Slot : key[s] \in bad

(* The devices after the slots of W, holding keys ks and data ds, reached  *)
(* a disk that held dk.                                                    *)
WriteBack(dk, ks, ds, W) ==
    [k \in Key |-> IF \E s \in W : ks[s] = k THEN ds[CHOOSE s \in W : ks[s] = k]
                                             ELSE dk[k]]

(* Mutant: a dirty victim is dropped. *)
MutantEvictWithoutWriting(s) == disk

(* The disk once a victim has been written back, if it was dirty. *)
DiskAfterEvict(s) == WriteBack(disk, key, data, {s} \cap dirty)

(* dirty_count after mark_clean() on each slot of W. *)
CountAfterClean(n, W) == IF Cardinality(W) <= n THEN n - Cardinality(W) ELSE 0

(* The dirty slots of D, holding keys ks, that a flush gets rid of. *)
Flushable(ks, D) == {s \in D : ks[s] \notin bad}

Aged(a, D) == [s \in Slot |-> IF s \in D THEN a[s] ELSE 0]

---------------------------------------------------------------------------
EmptyCache == /\ key' = [s \in Slot |-> NoKey]
              /\ data' = [s \in Slot |-> Zero]
              /\ dirty' = {}
              /\ last' = [s \in Slot |-> 0]
              /\ ticks' = 0
              /\ dirtyCount' = 0
              /\ waited' = 0
              /\ age' = [s \in Slot |-> 0]

Init == /\ key = [s \in Slot |-> NoKey]
        /\ data = [s \in Slot |-> Zero]
        /\ dirty = {}
        /\ last = [s \in Slot |-> 0]
        /\ ticks = 0
        /\ dirtyCount = 0
        /\ waited = 0
        /\ disk \in [Key -> Data]
        /\ bad = {}
        /\ reply = None
        /\ age = [s \in Slot |-> 0]

(* bcache_read_sector(), the sector is cached. *)
ReadHit(k) ==
    \E s \in Hits(k) :
      /\ ticks' = (ticks + 1) % TickMod
      /\ last' = [last EXCEPT ![s] = ticks']
      /\ reply' = [op |-> "read", key |-> k, data |-> data[s]]
      /\ UNCHANGED <<key, data, dirty, dirtyCount, waited, disk, bad, age>>

(* bcache_read_sector(), the sector is not cached: a slot is found for it, *)
(* which may write a dirty one back, and the device answers.               *)
ReadMiss(k) ==
    /\ Hits(k) = {}
    /\ \E s \in Slot :
         /\ IsVictim(s)
         /\ ticks' = (ticks + 1) % TickMod
         /\ last' = [last EXCEPT ![s] = ticks']
         /\ disk' = DiskAfterEvict(s)
         /\ key' = [key EXCEPT ![s] = k]
         /\ data' = [data EXCEPT ![s] = disk'[k]]
         /\ dirty' = dirty \ {s}
         /\ dirtyCount' = CountAfterClean(dirtyCount, {s} \cap dirty)
         /\ age' = Aged(age, dirty')
         /\ reply' = [op |-> "read", key |-> k, data |-> disk'[k]]
         /\ UNCHANGED <<waited, bad>>

(* bcache_read_sector(), the device fails the read: the slot is left empty.*)
ReadFails(k) ==
    /\ Hits(k) = {}
    /\ \E s \in Slot :
         /\ IsVictim(s)
         /\ ticks' = (ticks + 1) % TickMod
         /\ disk' = DiskAfterEvict(s)
         /\ key' = [key EXCEPT ![s] = NoKey]
         /\ data' = [data EXCEPT ![s] = Zero]
         /\ dirty' = dirty \ {s}
         /\ dirtyCount' = CountAfterClean(dirtyCount, {s} \cap dirty)
         /\ age' = Aged(age, dirty')
         /\ reply' = None
         /\ UNCHANGED <<last, waited, bad>>

(* Either call, not cached, and every slot holds data no device will take. *)
NoSlotFor(k) ==
    /\ Hits(k) = {}
    /\ NoVictim
    /\ ticks' = (ticks + 1) % TickMod
    /\ reply' = None
    /\ UNCHANGED <<key, data, dirty, last, dirtyCount, waited, disk, bad, age>>

(* blockdev_check_write() turns the request down before the cache sees it. *)
WriteRefused(k) ==
    /\ k[1] \in ReadOnly
    /\ reply' = None
    /\ UNCHANGED <<cacheVars, disk, bad>>

(* mark_dirty(): dirty_count, which was n. *)
CountAfterMark(wasDirty, n) == IF wasDirty THEN n ELSE n + 1

(* Mutant: every write of a dirty sector restarts the deadline. *)
MutantMarkRestarts(wasDirty, n) == 0

(* mark_dirty(): the deadline starts if nothing was dirty. *)
WaitedAfterMark(wasDirty, n) == IF ~wasDirty /\ n = 0 THEN 0 ELSE waited

(* The cache once bcache_write_sector(k, v) has put its sector in slot s:  *)
(* a hit keeps the slot's dirty flag, a miss has written it back first.    *)
Put(s, k, v) ==
    LET miss   == key[s] # k
        dirty0 == IF miss THEN dirty \ {s} ELSE dirty
        count0 == CountAfterClean(dirtyCount, dirty \ dirty0)
    IN  [key    |-> [key EXCEPT ![s] = k],
         data   |-> [data EXCEPT ![s] = v],
         dirty  |-> dirty0 \cup {s},
         count  |-> CountAfterMark(s \in dirty0, count0),
         waited |-> WaitedAfterMark(s \in dirty0, count0),
         disk   |-> IF miss THEN DiskAfterEvict(s) ELSE disk,
         age    |-> IF s \in dirty0 THEN age ELSE [age EXCEPT ![s] = 0]]

(* Mutant: a write takes the victim without looking the sector up. *)
MutantSlotWithoutLookup(s, k) == IsVictim(s)

(* The slot bcache_write_sector() chooses for k. *)
SlotFor(s, k) == key[s] = k \/ (Hits(k) = {} /\ IsVictim(s))

(* What the write-behind at the high-water mark gets rid of. *)
WriteBehind(p) == IF p.count >= HighWater THEN Flushable(p.key, p.dirty) ELSE {}

(* bcache_write_sector(): E_OK. *)
Write(k, v) ==
    /\ k[1] \notin ReadOnly
    /\ \E s \in Slot :
         /\ SlotFor(s, k)
         /\ LET p == Put(s, k, v)
                W == WriteBehind(p)
            IN  /\ key' = p.key
                /\ data' = p.data
                /\ dirty' = p.dirty \ W
                /\ dirtyCount' = CountAfterClean(p.count, W)
                /\ waited' = p.waited
                /\ disk' = WriteBack(p.disk, p.key, p.data, W)
                /\ age' = Aged(p.age, dirty')
         /\ ticks' = (ticks + 1) % TickMod
         /\ last' = [last EXCEPT ![s] = ticks']
    /\ reply' = [op |-> "write"]
    /\ UNCHANGED bad

(* bcache_flush_reporting(): every dirty slot is written once; what its    *)
(* device refuses stays dirty.                                             *)
FlushAll == LET W == Flushable(key, dirty)
            IN  /\ dirty' = dirty \ W
                /\ dirtyCount' = CountAfterClean(dirtyCount, W)
                /\ disk' = WriteBack(disk, key, data, W)
                /\ age' = Aged(age, dirty')
                /\ UNCHANGED <<key, data, last, ticks, waited, bad>>

(* bcache_flush(), as sync, reboot and halt call it. *)
Flush == /\ FlushAll
         /\ reply' = IF Flushable(key, dirty) = dirty THEN [op |-> "sync"] ELSE None

(* bcache_flush_is_due(). *)
FlushIsDue == dirtyCount > 0 /\ waited >= Interval

(* bcache_flush_if_due(), on every yield. *)
FlushIfDue == /\ FlushIsDue
              /\ FlushAll
              /\ reply' = None

(* bcache_flush_dev(): the slots of d are written and dropped. *)
FlushDev(d) ==
    LET mine == {s \in Slot : key[s] # NoKey /\ key[s][1] = d}
        kept == mine \cap dirty \cap {s \in Slot : key[s] \in bad}
        W    == (mine \cap dirty) \ kept
    IN  /\ key' = [s \in Slot |-> IF s \in mine \ kept THEN NoKey ELSE key[s]]
        /\ dirty' = dirty \ W
        /\ dirtyCount' = CountAfterClean(dirtyCount, W)
        /\ disk' = WriteBack(disk, key, data, W)
        /\ age' = Aged(age, dirty')
        /\ reply' = None
        /\ UNCHANGED <<data, last, ticks, waited, bad>>

(* sys_mount() and sys_umount(): everything is flushed and, only if that   *)
(* worked, init_fs() starts over with an empty cache.                      *)
ChangeDisk ==
    IF Flushable(key, dirty) = dirty
    THEN /\ disk' = WriteBack(disk, key, data, dirty)
         /\ EmptyCache
         /\ reply' = [op |-> "sync"]
         /\ UNCHANGED bad
    ELSE FlushAll /\ reply' = None

(* timer_get_ticks() advances. *)
Older(n) == IF n < Interval THEN n + 1 ELSE Interval

TimerTick == /\ waited' = Older(waited)
             /\ age' = [s \in Slot |-> IF s \in dirty THEN Older(age[s]) ELSE 0]
             /\ reply' = None
             /\ UNCHANGED <<key, data, dirty, last, ticks, dirtyCount, disk, bad>>

(* A device changes its mind about which sectors it takes. *)
DeviceChanges == /\ bad' \in SUBSET {k \in Key : k[1] \notin ReadOnly}
                 /\ reply' = None
                 /\ UNCHANGED <<cacheVars, disk>>

(* The power goes, after the first n slots of a flush under way. *)
PowerLoss ==
    \E n \in 0..NumSlots :
      /\ disk' = WriteBack(disk, key, data, {s \in Flushable(key, dirty) : s < n})
      /\ EmptyCache
      /\ reply' = None
      /\ bad' = {}

(* The same, during the write-behind of a bcache_write_sector(). *)
PowerLossInWrite(k, v) ==
    /\ k[1] \notin ReadOnly
    /\ \E s \in Slot, n \in 0..NumSlots :
         /\ SlotFor(s, k)
         /\ LET p == Put(s, k, v)
            IN  disk' = WriteBack(p.disk, p.key, p.data, {t \in WriteBehind(p) : t < n})
    /\ EmptyCache
    /\ reply' = None
    /\ bad' = {}

Next == \/ \E k \in Key : \/ ReadHit(k)
                          \/ ReadMiss(k)
                          \/ ReadFails(k)
                          \/ NoSlotFor(k)
                          \/ WriteRefused(k)
        \/ \E k \in Key, v \in Data : Write(k, v) \/ PowerLossInWrite(k, v)
        \/ Flush
        \/ FlushIfDue
        \/ \E d \in Dev : FlushDev(d)
        \/ ChangeDisk
        \/ TimerTick
        \/ DeviceChanges
        \/ PowerLoss

Spec == Init /\ [][Next]_vars

(* The timer interrupt keeps coming and, with it, the scheduler, whose     *)
(* aging lets the idle task run at last, which does nothing but yield: a   *)
(* flush that stays due is eventually taken.                               *)
FairSpec == Spec /\ WF_vars(TimerTick) /\ WF_vars(FlushIfDue)

---------------------------------------------------------------------------
(* Every variable stays in its type; an operation never leaves a slot      *)
(* half set up.                                                            *)
TypeOK == /\ key \in [Slot -> Key \cup {NoKey}]
          /\ data \in [Slot -> Data]
          /\ dirty \subseteq Slot
          /\ last \in [Slot -> 0..(TickMod - 1)]
          /\ ticks \in 0..(TickMod - 1)
          /\ dirtyCount \in Nat
          /\ waited \in 0..Interval
          /\ disk \in [Key -> Data]
          /\ bad \subseteq Key
          /\ reply \in {None, [op |-> "write"], [op |-> "sync"]}
                         \cup [op : {"read"}, key : Key, data : Data]
          /\ age \in [Slot -> 0..Interval]

(* No sector is ever cached twice, whatever was evicted, refused or        *)
(* dropped on the way: a second copy would serve stale reads and its       *)
(* write-back would undo a newer one.                                      *)
OneSlotPerSector ==
    \A s, t \in Slot : key[s] = key[t] /\ key[s] # NoKey => s = t

(* A clean slot can be dropped at any moment because the device already    *)
(* holds its bytes; only a slot with a sector in it is ever dirty.         *)
CleanIsOnDisk ==
    \A s \in Slot : IF s \in dirty THEN key[s] # NoKey
                                   ELSE key[s] # NoKey => data[s] = disk[key[s]]

(* dirty_count, which decides both the deadline and the high-water flush,  *)
(* is exactly the number of dirty slots: mark_dirty() and mark_clean()     *)
(* never let it drift.                                                     *)
CountIsExact == dirtyCount = Cardinality(dirty)

(* oldest_dirty_tick is never later than the moment any dirty slot became  *)
(* dirty, so no dirty sector is older than the deadline without            *)
(* bcache_flush_is_due() saying so.                                        *)
DeadlineCoversAll == \A s \in dirty : age[s] <= waited

(* What every operation of the cache relies on finding and leaves behind,  *)
(* evictions, refusals, disk changes and power losses included.            *)
CacheIsSound ==
    TypeOK /\ OneSlotPerSector /\ CleanIsOnDisk /\ CountIsExact /\ DeadlineCoversAll

(* An accepted write leaves the cache at or above the high-water mark only *)
(* with sectors their device has just refused: what can be written has     *)
(* been.                                                                   *)
VolumeIsBounded ==
    [][reply'.op = "write" /\ dirtyCount' >= HighWater
         => \A s \in dirty' : key'[s] \in bad]_vars

(* If the devices stop refusing, the write-back policy alone gets          *)
(* everything to disk, again and again, without a sync() and whatever the  *)
(* writers do meanwhile.                                                   *)
EventuallyClean == <>[](bad = {}) => []<>(dirty = {})

(* The write-back policy bounds what a crash can take, in volume by the    *)
(* high-water flush of bcache_write() and in time by the timed flush.      *)
WriteBackIsTimely == VolumeIsBounded /\ EventuallyClean

---------------------------------------------------------------------------
(* What reads return: the cached copy of a sector, else the device's; in    *)
(* other words what the devices would hold had every slot reached them.    *)
Store == INSTANCE SectorStore WITH current <- WriteBack(disk, key, data, Slot),
                                   durable <- disk

(* The cache implements the plain store of SectorStore: a read returns the *)
(* last accepted write, no accepted write is lost except to a power loss,  *)
(* a device never receives anything but the newest value of a sector, and  *)
(* E_OK from bcache_flush() means the disk has everything.                 *)
ImplementsStore == Store!Spec
===========================================================================
