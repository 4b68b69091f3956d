-------------------------------- MODULE KLog --------------------------------
(***************************************************************************)
(* The kernel log (kernel/core/klog.c) and the processes that follow it    *)
(* through /dev/kmsg (fs/devfs.c). Records are numbered for ever and live  *)
(* in a ring; clearing moves a floor; every process has a cursor. A system *)
(* call runs with interrupts on and masks none while it stores a record,   *)
(* and an interrupt (Ctrl-Z stopping a process, say) may log in between.   *)
(* A record is represented by its number; its words are left out.          *)
(*                                                                         *)
(* klogRing       klog_ring: the number each slot's record carries         *)
(* klogNext       klog_seq_next                                            *)
(* klogFloor      klog_floor_seq                                           *)
(* kmsgSeq        the cursor of each process, kmsg_seq                     *)
(* klogStoring    the number that a klog_store() under way took, or 0      *)
(* klogRead       the read of /dev/kmsg that was just made: its cursor and *)
(*                the number it was given, 0 for the answer 0              *)
(* klogLevel      current_log_level                                        *)
(* klogInWindow   klog_user_in_window                                      *)
(***************************************************************************)
EXTENDS Integers

CONSTANTS
    LogRecords, \* KLOG_RECORDS
    Readers,    \* the processes that read /dev/kmsg
    LogLevels,  \* the thresholds that are set, of LOG_LEVEL_DEBUG .. LOG_LEVEL_CRITICAL
    UserBurst,  \* KLOG_USER_BURST
    MaxSeq      \* the records of a behaviour

ASSUME KLogAssumption == LogRecords \in Nat \ {0}

VARIABLES klogRing, klogNext, klogFloor, kmsgSeq, klogStoring, klogRead, klogLevel,
          klogInWindow

klogVars == <<klogRing, klogNext, klogFloor, kmsgSeq, klogStoring, klogRead, klogLevel,
              klogInWindow>>

LOG_LEVEL_INFO == 1

NoRead == [cursor |-> 0, seq |-> -1]

KLogInit ==
    /\ klogRing = [i \in 0..(LogRecords - 1) |-> 0]
    /\ klogNext = 1 /\ klogFloor = 1
    /\ kmsgSeq = [r \in Readers |-> 0]
    /\ klogStoring = 0
    /\ klogRead = NoRead
    /\ klogLevel = LOG_LEVEL_INFO
    /\ klogInWindow = 0

klog_slot_for(seq) == (seq - 1) % LogRecords

(* The oldest number a reader may still see, whichever limit binds first. *)
klog_visible_floor ==
    LET wrapped == IF klogNext > LogRecords THEN klogNext - LogRecords ELSE 1
    IN IF klogFloor > wrapped THEN klogFloor ELSE wrapped

klog_oldest_seq == IF klogNext = klog_visible_floor THEN 0 ELSE klog_visible_floor

------------------------------------------------------------------------------
(* klog_store() in a system call: the slot of the next number is taken and its
   record filled ... *)
StoreBegins ==
    /\ klogNext < MaxSeq
    /\ klogRing' = [klogRing EXCEPT ![klog_slot_for(klogNext)] = klogNext]
    /\ klogStoring' = klogNext

(* ... and the number is used up. The counter is not volatile and nothing that
   could change it is called after the slot was taken: the build may read it
   before or after an interrupt that logs. *)
StoreEnds ==
    /\ klogStoring # 0
    /\ klogNext' \in {klogNext + 1, klogStoring + 1}
    /\ klogStoring' = 0
    /\ UNCHANGED <<klogRing, klogFloor, kmsgSeq, klogRead, klogLevel, klogInWindow>>

(* klog(): a record below the threshold is not stored. *)
klog(level) ==
    IF level < klogLevel THEN UNCHANGED <<klogRing, klogStoring>> ELSE StoreBegins

(* A record of the kernel's own, in a system call *)
KernelLogs ==
    /\ klogStoring = 0
    /\ \E level \in LogLevels : klog(level)
    /\ klogRead' = NoRead
    /\ UNCHANGED <<klogNext, klogFloor, kmsgSeq, klogLevel, klogInWindow>>

(* and in an interrupt handler, which nothing interrupts. *)
InterruptStores ==
    /\ klogNext < MaxSeq
    /\ klogRing' = [klogRing EXCEPT ![klog_slot_for(klogNext)] = klogNext]
    /\ klogNext' = klogNext + 1
    /\ klogRead' = NoRead
    /\ UNCHANGED <<klogFloor, kmsgSeq, klogStoring, klogLevel, klogInWindow>>

(* klog_user_record(): a record of a process's, whatever the threshold, unless the
   window has had its burst. The time is left out: the window may be over. *)
klog_user_record ==
    \E over \in BOOLEAN :
      LET used == IF over THEN 0 ELSE klogInWindow
      IN IF used >= UserBurst THEN UNCHANGED <<klogRing, klogStoring, klogInWindow>>
         ELSE StoreBegins /\ klogInWindow' = used + 1

dev_kmsg_write ==
    /\ klogStoring = 0
    /\ klog_user_record
    /\ klogRead' = NoRead
    /\ UNCHANGED <<klogNext, klogFloor, kmsgSeq, klogLevel>>

klog_clear == klogFloor' = klogNext

(* sys_klog_ctl(): the log is cleared, and that is recorded; *)
ControlClear ==
    /\ klogStoring = 0
    /\ klog_clear
    /\ klog(LOG_LEVEL_INFO)
    /\ klogRead' = NoRead
    /\ UNCHANGED <<klogNext, kmsgSeq, klogLevel, klogInWindow>>

(* the threshold is set, and that is recorded above any threshold. *)
ControlLevel ==
    /\ klogStoring = 0
    /\ klogLevel' \in LogLevels
    /\ StoreBegins
    /\ klogRead' = NoRead
    /\ UNCHANGED <<klogNext, klogFloor, kmsgSeq, klogInWindow>>

(* Mutant: the record in the place is taken for the one asked for. *)
ByPlace(seq) ==
    IF seq = 0 \/ seq >= klogNext \/ seq < klog_visible_floor THEN 0
    ELSE klogRing[klog_slot_for(seq)]

(* The record of that number, or 0 when it is not held. *)
klog_by_seq(seq) ==
    IF seq = 0 \/ seq >= klogNext \/ seq < klog_visible_floor
         \/ klogRing[klog_slot_for(seq)] # seq
    THEN 0 ELSE klogRing[klog_slot_for(seq)]

(* A cursor that fell behind moves to the oldest record that is held; then one
   record is read, or none and the answer is 0. *)
dev_kmsg_read(r) ==
    LET oldest == klog_oldest_seq
        cursor == IF kmsgSeq[r] < oldest THEN oldest ELSE kmsgSeq[r]
        rec    == IF oldest = 0 THEN 0 ELSE klog_by_seq(cursor)
    IN /\ klogStoring = 0
       /\ kmsgSeq' = [kmsgSeq EXCEPT ![r] = IF rec = 0 THEN cursor ELSE cursor + 1]
       /\ klogRead' = [cursor |-> kmsgSeq[r], seq |-> rec]
       /\ UNCHANGED <<klogRing, klogNext, klogFloor, klogStoring, klogLevel, klogInWindow>>

(* fork(): the child goes on from where the parent has read to. *)
KmsgFork(r, child) ==
    /\ klogStoring = 0
    /\ kmsgSeq' = [kmsgSeq EXCEPT ![child] = kmsgSeq[r]]
    /\ klogRead' = NoRead
    /\ UNCHANGED <<klogRing, klogNext, klogFloor, klogStoring, klogLevel, klogInWindow>>

KLogStep ==
    \/ KernelLogs
    \/ StoreEnds
    \/ InterruptStores
    \/ dev_kmsg_write
    \/ ControlClear
    \/ ControlLevel
    \/ \E r \in Readers : dev_kmsg_read(r)
    \/ \E r, child \in Readers : KmsgFork(r, child)

KLogSpec == KLogInit /\ [][KLogStep]_klogVars

------------------------------------------------------------------------------
(* Whatever is logged, cleared and overwritten between two reads, and even when
   an interrupt logs in the middle of a record: dev_kmsg_read() gives records of
   ever higher numbers, and skips only numbers that were cleared or overwritten
   before the reader came to them. *)
KmsgIsInOrder ==
    klogRead.seq > 0 =>
      /\ klogRead.seq >= klogRead.cursor
      /\ \A seq \in klogRead.cursor..(klogRead.seq - 1) : klog_by_seq(seq) = 0
=============================================================================
