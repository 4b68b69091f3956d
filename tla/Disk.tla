-------------------------------- MODULE Disk --------------------------------
(***************************************************************************)
(* The two drivers of internal disks, IDE (drivers/ata.c) and AHCI         *)
(* (drivers/ahci.c), each with its drive, and the choice between them at   *)
(* boot (drivers/blockdev.c). A driver gives a drive a sector command and  *)
(* waits, with a deadline at every wait; the drive may answer after the    *)
(* deadline, when the driver is idle or has started on the next sector.    *)
(*                                                                         *)
(* diskDrivers  the drivers still to be asked at boot                      *)
(* disk         the driver: its state (at), the call it serves (op, lba,   *)
(*              data), whether nothing of an earlier call was in the way   *)
(*              (clean, not in the code), and the interrupt flag of IDE    *)
(*              (fired)                                                    *)
(* drive        what the drive is doing (op, lba), BSY, DRQ, ERR, what is  *)
(*              in its buffer or in the frame it shares with the driver    *)
(*              (data), and of AHCI the command-issued bit (ci), the task  *)
(*              file error bit (tfes) and whether an error has stopped it  *)
(* sectors      what the drive holds                                       *)
(* diskReply    the answer of the last call                                *)
(***************************************************************************)
EXTENDS Integers

CONSTANTS
    Sectors,     \* the sectors of the disk
    SectorData   \* what a sector may hold

ASSUME DiskAssumption == "none" \notin SectorData

VARIABLES diskDrivers, disk, drive, sectors, diskReply

diskVars == <<diskDrivers, disk, drive, sectors, diskReply>>

NoDriver == [kind |-> "none", at |-> "idle", op |-> "none", lba |-> 0, data |-> "none",
             clean |-> TRUE, fired |-> FALSE]

RestingDrive == [op |-> "none", lba |-> 0, busy |-> FALSE, drq |-> FALSE, err |-> FALSE,
                 data |-> "none", ci |-> FALSE, tfes |-> FALSE, stopped |-> FALSE]

NoReply == [op |-> "none", lba |-> 0, data |-> "none", ok |-> FALSE, clean |-> TRUE]

DiskInit ==
    /\ diskDrivers = "ata"
    /\ disk = NoDriver
    /\ drive = RestingDrive
    /\ sectors \in [Sectors -> SectorData]
    /\ diskReply = NoReply

------------------------------------------------------------------------------
(* ata_identify() at boot: the drive is there and answers, and is registered; or
   there is no controller, no drive or none that can be used, and AHCI is next. *)
ata_identify ==
    /\ diskDrivers = "ata"
    /\ \/ disk' = [disk EXCEPT !.kind = "ata"] /\ diskDrivers' = "done"
       \/ diskDrivers' = "ahci" /\ UNCHANGED disk
    /\ UNCHANGED <<drive, sectors, diskReply>>

(* ahci_init(): a controller, a port with a disk that is awake, a frame for the
   commands, a port that stops and starts, and a capacity; or no disk at all. *)
ahci_init ==
    /\ diskDrivers = "ahci"
    /\ diskDrivers' = "done"
    /\ \/ disk' = [disk EXCEPT !.kind = "ahci"]
       \/ UNCHANGED disk
    /\ UNCHANGED <<drive, sectors, diskReply>>

------------------------------------------------------------------------------
(* A call returns. *)
DiskAnswer(ok, data, fired) ==
    /\ disk' = [NoDriver EXCEPT !.kind = disk.kind, !.fired = fired]
    /\ diskReply' = [op |-> disk.op, lba |-> disk.lba, data |-> data, ok |-> ok,
                     clean |-> disk.clean]

(* A wait that went over its deadline. *)
DiskTimeout ==
    /\ disk.at \in {"wait ready", "wait bsy", "wait drq", "wait irq", "wait done"}
    /\ DiskAnswer(FALSE, "none", disk.fired)
    /\ UNCHANGED <<diskDrivers, drive, sectors>>

(* A read that AHCI gave up on and the drive did not: it will end in the frame. *)
LateRead == disk.kind = "ahci" /\ drive.busy /\ drive.op = "read"

(* blockdev_read() and blockdev_write() of a sector that is there. Of AHCI a write
   copies the sector into the shared frame at once, and every command first
   clears what the last left in the error bits. *)
DiskCall(op, lba, data) ==
    /\ disk.kind # "none" /\ disk.at = "idle"
    /\ disk' = [disk EXCEPT !.at = "wait ready", !.op = op, !.lba = lba, !.data = data,
                            !.clean = ~(op = "write" /\ LateRead)]
    /\ drive' = IF disk.kind = "ata" THEN drive
                ELSE [drive EXCEPT !.tfes = FALSE, !.data = IF op = "write" THEN data ELSE @]
    /\ diskReply' = NoReply
    /\ UNCHANGED <<diskDrivers, sectors>>

------------------------------------------------------------------------------
(* A drive that still wants to transfer data when it is given a command gives the
   transfer up for the command, or takes no notice of the command. *)
Given(op, lba) ==
    {[RestingDrive EXCEPT !.op = op, !.lba = lba, !.busy = TRUE]} \cup {d \in {drive} : d.drq}

(* Mutant: the flag of an earlier command is not cleared. *)
LeavesFlag(fired) == fired

(* The flag is cleared, with interrupts masked, before the command is given. *)
FlagBeforeCommand(fired) == FALSE

(* ata_read_sector(): BSY is clear, the command is given, *)
AtaGiveRead ==
    /\ disk.kind = "ata" /\ disk.at = "wait ready" /\ disk.op = "read" /\ ~drive.busy
    /\ disk' = [disk EXCEPT !.at = "wait irq", !.fired = FlagBeforeCommand(@),
                            !.clean = ~drive.drq]
    /\ drive' \in Given("read", disk.lba)
    /\ UNCHANGED <<diskDrivers, sectors, diskReply>>

(* and after the interrupt the sector is taken from the buffer, or it failed. *)
AtaTakeSector ==
    /\ disk.kind = "ata" /\ disk.at = "wait irq" /\ disk.op = "read" /\ disk.fired
    /\ IF drive.err
       THEN DiskAnswer(FALSE, "none", FALSE) /\ UNCHANGED drive
       ELSE DiskAnswer(TRUE, drive.data, FALSE) /\ drive' = [drive EXCEPT !.drq = FALSE]
    /\ UNCHANGED <<diskDrivers, sectors>>

(* ata_write_sector(): BSY is clear and the command is given, *)
AtaGiveWrite ==
    /\ disk.kind = "ata" /\ disk.at = "wait ready" /\ disk.op = "write" /\ ~drive.busy
    /\ disk' = [disk EXCEPT !.at = "wait bsy", !.clean = ~drive.drq]
    /\ drive' \in Given("write", disk.lba)
    /\ UNCHANGED <<diskDrivers, sectors, diskReply>>

(* BSY is clear again, *)
AtaWriteNotBusy ==
    /\ disk.at = "wait bsy" /\ ~drive.busy
    /\ disk' = [disk EXCEPT !.at = "wait drq"]
    /\ UNCHANGED <<diskDrivers, drive, sectors, diskReply>>

(* the drive wants the sector and gets it, *)
AtaSendSector ==
    /\ disk.at = "wait drq" /\ drive.drq
    /\ disk' = [disk EXCEPT !.at = "wait irq", !.fired = FlagBeforeCommand(@)]
    /\ drive' = IF drive.op # "write" THEN drive
                ELSE [drive EXCEPT !.data = disk.data, !.busy = TRUE, !.drq = FALSE]
    /\ UNCHANGED <<diskDrivers, sectors, diskReply>>

(* the drive has it and is told to flush, or it failed. *)
AtaFlush ==
    /\ disk.kind = "ata" /\ disk.at = "wait irq" /\ disk.op = "write" /\ disk.fired
    /\ IF drive.err
       THEN DiskAnswer(FALSE, "none", FALSE) /\ UNCHANGED drive
       ELSE /\ disk' = [disk EXCEPT !.at = "wait flush", !.fired = FALSE]
            /\ drive' \in Given("flush", 0)
            /\ UNCHANGED diskReply
    /\ UNCHANGED <<diskDrivers, sectors>>

(* The flush is over, or the wait for it; either way the sector is written. *)
AtaFlushed ==
    /\ disk.at = "wait flush"
    /\ DiskAnswer(TRUE, disk.data, FALSE)
    /\ UNCHANGED <<diskDrivers, drive, sectors>>

(* The IDE drive goes on with the command it has: it raises its interrupt, which
   is taken before the driver looks again, when a read is done, when a written
   sector is in, when a flush is done, and when any of them failed. *)
AtaDrive ==
    /\ disk.kind = "ata" /\ drive.busy
    /\ \/ /\ drive' = [drive EXCEPT !.busy = FALSE, !.err = TRUE, !.op = "none"]
          /\ disk' = [disk EXCEPT !.fired = TRUE]
          /\ UNCHANGED sectors
       \/ /\ drive.op = "read"
          /\ drive' = [drive EXCEPT !.busy = FALSE, !.drq = TRUE, !.data = sectors[drive.lba]]
          /\ disk' = [disk EXCEPT !.fired = TRUE]
          /\ UNCHANGED sectors
       \/ /\ drive.op = "write" /\ drive.data = "none"
          /\ drive' = [drive EXCEPT !.busy = FALSE, !.drq = TRUE]
          /\ UNCHANGED <<disk, sectors>>
       \/ /\ drive.op = "write" /\ drive.data # "none"
          /\ sectors' = [sectors EXCEPT ![drive.lba] = drive.data]
          /\ drive' = RestingDrive
          /\ disk' = [disk EXCEPT !.fired = TRUE]
       \/ /\ drive.op = "flush"
          /\ drive' = RestingDrive
          /\ disk' = [disk EXCEPT !.fired = TRUE]
          /\ UNCHANGED sectors
    /\ UNCHANGED <<diskDrivers, diskReply>>

------------------------------------------------------------------------------
(* ahci_run_command(): the drive is idle and the command is issued. A controller
   that an error has stopped leaves it where it is. *)
AhciIssue ==
    /\ disk.kind = "ahci" /\ disk.at = "wait ready" /\ ~drive.busy /\ ~drive.drq
    /\ disk' = [disk EXCEPT !.at = "wait done"]
    /\ drive' = IF drive.stopped THEN [drive EXCEPT !.ci = TRUE]
                ELSE [drive EXCEPT !.ci = TRUE, !.busy = TRUE, !.err = FALSE,
                                   !.op = disk.op, !.lba = disk.lba]
    /\ UNCHANGED <<diskDrivers, sectors, diskReply>>

Succeeded == ~drive.ci /\ ~drive.err

(* It is finished, well or badly; a sector that was read is in the frame. *)
AhciDone ==
    /\ disk.kind = "ahci" /\ disk.at = "wait done" /\ (~drive.ci \/ drive.tfes)
    /\ DiskAnswer(Succeeded, IF ~Succeeded THEN "none"
                             ELSE IF disk.op = "write" THEN disk.data ELSE drive.data, FALSE)
    /\ UNCHANGED <<diskDrivers, drive, sectors>>

(* The AHCI drive, by way of the shared frame. A failure stops the controller with
   the command still issued, or ends the command with the error bit. *)
AhciDrive ==
    /\ disk.kind = "ahci" /\ drive.busy
    /\ \/ /\ drive' = [drive EXCEPT !.busy = FALSE, !.err = TRUE, !.tfes = TRUE,
                                    !.stopped = TRUE]
          /\ UNCHANGED sectors
       \/ /\ drive' = [drive EXCEPT !.busy = FALSE, !.ci = FALSE, !.err = TRUE]
          /\ UNCHANGED sectors
       \/ /\ drive.op = "read"
          /\ drive' = [drive EXCEPT !.busy = FALSE, !.ci = FALSE, !.data = sectors[drive.lba]]
          /\ UNCHANGED sectors
       \/ /\ drive.op = "write"
          /\ drive' = [drive EXCEPT !.busy = FALSE, !.ci = FALSE]
          /\ sectors' = [sectors EXCEPT ![drive.lba] = drive.data]
    /\ UNCHANGED <<diskDrivers, disk, diskReply>>

(* A machine without a disk. *)
NoDisk == disk.kind = "none" /\ diskDrivers = "done" /\ UNCHANGED diskVars

DiskNext ==
    \/ ata_identify \/ ahci_init
    \/ \E lba \in Sectors : DiskCall("read", lba, "none")
    \/ \E lba \in Sectors, data \in SectorData : DiskCall("write", lba, data)
    \/ DiskTimeout
    \/ AtaGiveRead \/ AtaTakeSector
    \/ AtaGiveWrite \/ AtaWriteNotBusy \/ AtaSendSector \/ AtaFlush \/ AtaFlushed
    \/ AtaDrive
    \/ AhciIssue \/ AhciDone \/ AhciDrive
    \/ NoDisk

DiskSpec == DiskInit /\ [][DiskNext]_diskVars

------------------------------------------------------------------------------
(* When either driver answers E_OK, the sector it read is what the drive holds
   there, and the sector it wrote is there, however late the drive answered to
   this call or to those before. Two things left over from a call that gave up
   are excepted: a command that the IDE driver gave to a drive that still wanted
   data, because what the drive makes of it is not defined; and a write that the
   AHCI driver began over a late read. It fills the frame before it waits for the
   drive to be idle, so that the read may end in the frame in between, and what
   the drive then writes, with E_OK, is the sector it read. *)
DiskSuccessIsReal ==
    [][diskReply'.ok /\ diskReply'.clean /\ ~diskReply.ok
         => diskReply'.data = sectors'[diskReply'.lba]]_diskVars
=============================================================================
