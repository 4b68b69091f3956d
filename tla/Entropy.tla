------------------------------ MODULE Entropy ------------------------------
(***************************************************************************)
(* The entropy pool (kernel/security/entropy.c), the seed it carries from  *)
(* one boot to the next in a file, and the generator behind /dev/random    *)
(* and /dev/urandom (fs/devfs.c). Interrupts put samples in a ring, which  *)
(* an extraction drains; every source is credited up to a budget; the      *)
(* machine may lose power at any time, when what was written may still be  *)
(* in the sector cache (BCache).                                           *)
(*                                                                         *)
(* pool.stage     off; early, once entropy_init() has run; up, once         *)
(*                entropy_load_seed() has                                  *)
(* pool.ring, pool.head, pool.count   the samples that are not drained     *)
(* pool.credit    credited_by_source; their sum is credited_bits           *)
(* pool.rdrand    whether the processor has RDRAND                         *)
(* poolRecent     not in the code: the samples since the last drain        *)
(* drbg           the generator: keyed, the quality its key was drawn      *)
(*                with, the bytes served under it and the ticks since      *)
(* seed.file      the seed as the file system shows it, and seed.disk as   *)
(*                the disk has it: 0 for none, or a number told from those *)
(*                of the other seeds there are                             *)
(* seed.mixed     not in the code: those of the two that were mixed in     *)
(* seed.since     not in the code: what became of writes of the seed since *)
(*                the last was mixed in: some were refused, or lost with   *)
(*                the cache                                                *)
(* seed.again     not in the code: the last seed mixed in had been before, *)
(*                and what seed.since was then                             *)
(***************************************************************************)
EXTENDS Integers, Sequences

CONSTANTS
    RingSize,      \* ENTROPY_RING_SIZE
    Samples,       \* what a sample may be
    Threshold,     \* ENTROPY_OK_THRESHOLD
    Cap,           \* the most one event of each source is credited
    Budget,        \* the most all the events of a source are credited
    RekeyBytes,    \* DRBG_REKEY_BYTES
    RekeyTicks,    \* DRBG_REKEY_TICKS
    ReadSizes      \* the sizes of reads of the random devices

ASSUME EntropyAssumption ==
    /\ RingSize \in Nat \ {0}
    /\ RekeyBytes \in Nat \ {0} /\ RekeyTicks \in Nat \ {0} /\ ReadSizes \subseteq Nat

VARIABLES pool, poolRecent, drbg, seed

entropyVars == <<pool, poolRecent, drbg, seed>>

EmptyPool(rdrand) ==
    [stage |-> "off", ring |-> [i \in 0..(RingSize - 1) |-> 0], head |-> 0, count |-> 0,
     credit |-> [kbd |-> 0, ata |-> 0, timer |-> 0], rdrand |-> rdrand]

NoKey == [keyed |-> FALSE, quality |-> "weak", served |-> 0, age |-> 0]

NotAgain == {"no"}

EntropyInit ==
    /\ pool \in {EmptyPool(rdrand) : rdrand \in BOOLEAN}
    /\ poolRecent = <<>>
    /\ drbg = NoKey
    /\ seed = [file |-> 0, disk |-> 0, mixed |-> {}, since |-> {}, again |-> NotAgain]

Least(a, b) == IF a < b THEN a ELSE b

CreditedBits == pool.credit.kbd + pool.credit.ata + pool.credit.timer

entropy_quality == IF pool.rdrand \/ CreditedBits >= Threshold THEN "ok" ELSE "weak"

------------------------------------------------------------------------------
(* entropy_add_event(), in the interrupt: the sample goes into the ring, over the
   oldest when it is full, and the source is credited what the bits of the
   timing differences say, up to its cap and what is left of its budget. *)
entropy_add_event(source, sample, bits) ==
    LET left == Budget[source] - pool.credit[source]
    IN /\ pool.stage # "off"
       /\ pool' = [pool EXCEPT !.ring[pool.head] = sample,
                               !.head = (@ + 1) % RingSize,
                               !.count = Least(@ + 1, RingSize),
                               !.credit[source] = @ + Least(Least(bits, Cap[source]), left)]
       /\ poolRecent' = LET all == Append(poolRecent, sample)
                        IN SubSeq(all, Len(all) - Least(Len(all), RingSize) + 1, Len(all))
       /\ UNCHANGED <<drbg, seed>>

(* pool_drain_ring(), with interrupts masked. *)
pool_drain_ring(p) == [p EXCEPT !.count = 0, !.head = 0]

(* The outcomes of generate_random_bytes(): every word from RDRAND; or, without it
   or when it fails, the ring is drained into the pool and the pool extracted
   from. The samples that are drained are those of ring[0 .. count - 1]. *)
Generated ==
    {[pool |-> p, quality |-> "ok", recent |-> poolRecent] : p \in {q \in {pool} : q.rdrand}}
      \cup {[pool |-> pool_drain_ring(pool), recent |-> <<>>,
             quality |-> IF CreditedBits >= Threshold THEN "ok" ELSE "weak"]}

(* A key, an initialisation vector or a salt is drawn. *)
Generate ==
    /\ pool.stage # "off"
    /\ \E g \in Generated : pool' = g.pool /\ poolRecent' = g.recent
    /\ UNCHANGED <<drbg, seed>>

------------------------------------------------------------------------------
(* Mutant: a stream keyed on too little is kept when more arrives. *)
NeverBetters == ~drbg.keyed \/ drbg.served >= RekeyBytes \/ drbg.age >= RekeyTicks

drbg_needs_rekey ==
    \/ ~drbg.keyed
    \/ drbg.served >= RekeyBytes
    \/ drbg.age >= RekeyTicks
    \/ drbg.quality # "ok" /\ entropy_quality = "ok"

(* random_device_read(): a new key when one is due, then the bytes. *)
RandomRead(n) ==
    /\ pool.stage = "up"
    /\ IF drbg_needs_rekey
       THEN \E g \in Generated :
              /\ pool' = g.pool /\ poolRecent' = g.recent
              /\ drbg' = [keyed |-> TRUE, quality |-> g.quality, served |-> n, age |-> 0]
       ELSE /\ drbg' = [drbg EXCEPT !.served = @ + n]
            /\ UNCHANGED <<pool, poolRecent>>
    /\ UNCHANGED seed

(* The tick counter, as far as drbg_needs_rekey() tells ages apart. *)
DrbgTick ==
    /\ drbg.keyed /\ drbg.age < RekeyTicks
    /\ drbg' = [drbg EXCEPT !.age = @ + 1]
    /\ UNCHANGED <<pool, poolRecent, seed>>

------------------------------------------------------------------------------
(* The seeds there still are; one that is neither in the file nor on the disk
   cannot come back, and its number is free. *)
Kept(s) == [s EXCEPT !.mixed = @ \cap {s.file, s.disk}]

FreshSeed(s) == CHOOSE n \in 1..3 : n \notin {s.file, s.disk}

(* The outcomes of entropy_persist_seed() for the file: a new seed is in it, in the
   cache; or the write was refused, by the security level or for an error. *)
Persisted(s) ==
    {Kept([s EXCEPT !.file = FreshSeed(s)]), [s EXCEPT !.since = @ \cup {"refused"}]}

(* entropy_persist_seed() draws the seed it writes from the pool. *)
entropy_persist_seed ==
    \E g \in Generated : pool' = g.pool /\ poolRecent' = g.recent

(* entropy_load_seed() mixes in the seed that is there, if it can be read, *)
Mixed(s) ==
    IF s.file = 0 THEN s
    ELSE [s EXCEPT !.again = IF s.file \in s.mixed THEN s.since ELSE NotAgain,
                   !.mixed = @ \cup {s.file},
                   !.since = {}]

(* Mutant: the seed on the disk stays until the next sync. *)
ReplacesAtTheNextSync == {Mixed(seed)}

(* and replaces it. *)
SeedsLoaded == Persisted(Mixed(seed))

(* entropy_init(), early in the start of the machine. *)
entropy_init ==
    /\ pool.stage = "off"
    /\ pool' = [EmptyPool(pool.rdrand) EXCEPT !.stage = "early"]
    /\ UNCHANGED <<poolRecent, drbg, seed>>

(* The disk is mounted and the seed loaded; it is credited nothing. *)
entropy_load_seed ==
    /\ pool.stage = "early"
    /\ \E g \in Generated :
         pool' = [g.pool EXCEPT !.stage = "up"] /\ poolRecent' = g.recent
    /\ seed' \in SeedsLoaded
    /\ UNCHANGED drbg

MachineStops ==
    pool' = EmptyPool(pool.rdrand) /\ poolRecent' = <<>> /\ drbg' = NoKey

(* sync(): a new seed, then bcache_flush(). *)
SyncSeed ==
    /\ pool.stage = "up"
    /\ entropy_persist_seed
    /\ \E s \in Persisted(seed) : seed' = Kept([s EXCEPT !.disk = s.file])
    /\ UNCHANGED drbg

(* halt() and reboot(): the same, and the machine stops. *)
OrderlyStop ==
    /\ pool.stage = "up"
    /\ \E s \in Persisted(seed) : seed' = Kept([s EXCEPT !.disk = s.file])
    /\ MachineStops

(* The cache writes back what has been dirty for long enough. *)
SeedWriteBehind ==
    /\ pool.stage = "up" /\ seed.disk # seed.file
    /\ seed' = Kept([seed EXCEPT !.disk = seed.file])
    /\ UNCHANGED <<pool, poolRecent, drbg>>

(* The power goes, and the cache with it: of a seed that was only in the cache
   there is nothing on the disk, or so little that the file cannot be read. *)
SeedPowerLoss ==
    /\ pool.stage # "off"
    /\ \E left \in IF seed.disk = seed.file THEN {seed.disk} ELSE {seed.disk, 0} :
         seed' = Kept([seed EXCEPT !.file = left, !.disk = left,
                                   !.since = IF seed.disk = seed.file THEN @
                                             ELSE @ \cup {"lost"}])
    /\ MachineStops

EntropyNext ==
    \/ \E source \in DOMAIN Cap, sample \in Samples, bits \in 0..2 :
         entropy_add_event(source, sample, bits)
    \/ Generate
    \/ \E n \in ReadSizes : RandomRead(n)
    \/ DrbgTick
    \/ entropy_init
    \/ entropy_load_seed
    \/ SyncSeed
    \/ OrderlyStop
    \/ SeedWriteBehind
    \/ SeedPowerLoss

EntropySpec == EntropyInit /\ [][EntropyNext]_entropyVars

------------------------------------------------------------------------------
(* What the next drain takes, ring[0 .. count - 1], is what the interrupts left
   since the last one, the latest RingSize of them: draining and wrapping lose
   no sample that is not overwritten and take none twice. *)
RingHoldsTheLatest ==
    /\ pool.count = Len(poolRecent)
    /\ \A x \in Samples :
         (\E i \in 0..(pool.count - 1) : pool.ring[i] = x)
            <=> (\E i \in DOMAIN poolRecent : poolRecent[i] = x)

(* /dev/random and /dev/urandom never serve from a key that is past its bytes or
   its time, nor, once the pool has gathered enough without RDRAND, from a key
   that was drawn before it had. *)
KeysAreRenewed ==
    [][\A n \in ReadSizes : RandomRead(n) =>
         /\ drbg'.served - n < RekeyBytes /\ drbg'.age < RekeyTicks
         /\ (CreditedBits >= Threshold) => drbg'.quality = "ok"]_entropyVars

(* No seed is mixed in by two boots, unless in between a write of a new one was
   refused or was lost with the sector cache: entropy_load_seed() replaces what
   it has mixed in before anything else happens. *)
SeedsAreSpent == seed.again # {}

(* Nothing that was gathered is lost or used twice: samples between interrupts and
   drains, seeds between boots (entropy_add_event, entropy_load_seed). *)
EntropyIsKept == RingHoldsTheLatest /\ SeedsAreSpent
=============================================================================
