------------------------------ MODULE UsbDisk ------------------------------
(***************************************************************************)
(* drivers/usbmsc.c over the bulk transfers of drivers/xhci.c: one stick,  *)
(* its Bulk-Only commands, and a completion that may come after the wait   *)
(* for it has given up.                                                    *)
(*                                                                         *)
(* The transport frame of a stick has three parts: the command wrapper,    *)
(* the status wrapper and one sector.  A transfer names one of them, and   *)
(* the controller reads or fills it when the device gets to it, whatever   *)
(* the driver has put there since.                                         *)
(***************************************************************************)
EXTENDS Integers, SequencesExt

CONSTANTS Lbas, Values,   \* sectors of the stick and what they may hold
          MaxCommands,    \* bound on commands, the tag of the last one
          MaxSlow,        \* bound on transfers that outlive XHCI_TIMEOUT_TICKS
          MaxRefused      \* bound on commands the device refuses

VARIABLES media,          \* the stick's sectors
          frame,          \* the transport frame: cbw, csw and data
          tag,            \* d->tag
          cmd,            \* the command msc_command carries out
          stage,          \* where it is: "idle", "cbw", "data", "csw", or returned
          outq, inq,      \* transfers on the two bulk rings the device has not taken
          device,         \* what the device is doing
          posted,         \* event ring: completion codes of bulk transfers
          passed,         \* records the dequeue pointer passed before they were written
          polling,        \* poll_busy, with the record the interrupted poll has read
          done, code,     \* bulk_done, bulk_code
          slow, refused

usbVars == <<media, frame, tag, cmd, stage, outq, inq, device, posted, passed, polling,
             done, code, slow, refused>>

NoCode == "none"
NoTag == 0
Junk == "junk"                                   \* bytes that are no sector
NoCsw == [tag |-> NoTag, status |-> "zero"]      \* what ft_memset leaves: no signature
Idle == [tag |-> NoTag, op |-> "none", lba |-> 0, status |-> "passed", phase |-> "idle"]
NotPolling == [busy |-> FALSE, code |-> NoCode]

Good(c) == c \in {"ok", "short"}                 \* success, or completion code 13

----------------------------------------------------------------------------
(* The transfer                                                             *)

\* xhci_bulk_transfer up to its wait.
xhci_bulk_transfer(in, part, next) ==
    /\ done' = FALSE /\ code' = NoCode
    /\ inq' = IF in THEN Append(inq, part) ELSE inq
    /\ outq' = IF in THEN outq ELSE Append(outq, part)
    /\ stage' = next

\* The controller writes a record; one the pointer has passed is never read.
Post(c) ==
    IF passed > 0 THEN passed' = passed - 1 /\ UNCHANGED posted
    ELSE posted' = Append(posted, c) /\ UNCHANGED passed

\* xhci_poll from the timer tick: it leaves the ring alone while an interrupted poll holds
\* it, and otherwise takes every record; the last one stands.
Busy == polling.busy
MayPoll == ~Busy

TickPolls ==
    /\ MayPoll /\ posted # << >>
    /\ done' = TRUE /\ code' = Last(posted)
    /\ posted' = << >>
    /\ UNCHANGED <<media, frame, tag, cmd, stage, outq, inq, device, passed, polling, slow,
                   refused>>

\* The same function called by the transfer's own wait, with interrupts on between
\* reading a record and consuming it.
Waiting == stage \in {"cbw", "data", "csw"} /\ ~done

PollReads ==
    /\ Waiting /\ ~Busy /\ posted # << >>
    /\ polling' = [busy |-> TRUE, code |-> Head(posted)]
    /\ UNCHANGED <<media, frame, tag, cmd, stage, outq, inq, device, posted, passed, done,
                   code, slow, refused>>

PollConsumes ==
    /\ Busy
    /\ posted' = IF posted = << >> THEN posted ELSE Tail(posted)
    /\ passed' = IF posted = << >> THEN passed + 1 ELSE passed
    /\ done' = TRUE /\ code' = polling.code
    /\ polling' = NotPolling
    /\ UNCHANGED <<media, frame, tag, cmd, stage, outq, inq, device, slow, refused>>

----------------------------------------------------------------------------
(* msc_command                                                              *)

\* The wrapper is written over the last one and sent.  usbmsc_bd_write has put its sector
\* into the frame before; usbmsc_bd_read, TEST UNIT READY and the rest put nothing there.
msc_command(op, lba, val) ==
    /\ stage \in {"idle", "passed", "failed"}
    /\ tag < MaxCommands
    /\ tag' = tag + 1
    /\ cmd' = [op |-> op, lba |-> lba, val |-> val, clean |-> "data" \notin Range(inq)]
    /\ frame' = [frame EXCEPT !.cbw = [tag |-> tag + 1, op |-> op, lba |-> lba],
                              !.data = IF op = "write" THEN val ELSE @]
    /\ xhci_bulk_transfer(FALSE, "cbw", "cbw")
    /\ UNCHANGED <<media, device, posted, passed, polling, slow, refused>>

usbmsc_bd_read == \E l \in Lbas : msc_command("read", l, Junk)
usbmsc_bd_write == \E l \in Lbas, v \in Values : msc_command("write", l, v)
msc_test_unit_ready == msc_command("test", 0, Junk)

\* Ask for the status wrapper, over a frame cleared of the last one.
AskForStatus ==
    /\ frame' = [frame EXCEPT !.csw = NoCsw]
    /\ xhci_bulk_transfer(TRUE, "csw", "csw")

Returns(result) ==
    /\ stage' = result
    /\ done' = FALSE /\ code' = NoCode
    /\ UNCHANGED <<frame, inq, outq>>

\* Mutant: signature and tag are not compared.
AnyStatusPassed == frame.csw.status = "passed"

\* The three checks on the status wrapper: signature, tag, status.
StatusPassed == frame.csw.status = "passed" /\ frame.csw.tag = tag

\* What msc_command does when its transfer has ended, well or not: a lost wrapper ends it,
\* a failed data stage does not.
AfterTransfer(ok) ==
    \/ /\ stage = "cbw" /\ ok /\ cmd.op # "test"
       /\ xhci_bulk_transfer(cmd.op = "read", "data", "data")
       /\ UNCHANGED frame
    \/ stage = "cbw" /\ ok /\ cmd.op = "test" /\ AskForStatus
    \/ stage = "data" /\ AskForStatus
    \/ stage \in {"cbw", "csw"} /\ ~ok /\ Returns("failed")
    \/ stage = "csw" /\ ok /\ Returns(IF StatusPassed THEN "passed" ELSE "failed")

TransferEnds ==
    /\ stage \in {"cbw", "data", "csw"} /\ done /\ ~Busy
    /\ AfterTransfer(Good(code))
    /\ UNCHANGED <<media, tag, cmd, device, posted, passed, polling, slow, refused>>

TransferTimesOut ==
    /\ Waiting /\ ~Busy
    /\ slow < MaxSlow
    /\ slow' = slow + 1
    /\ AfterTransfer(FALSE)
    /\ UNCHANGED <<media, tag, cmd, device, posted, passed, polling, refused>>

----------------------------------------------------------------------------
(* The stick (external): one command at a time, in the order its pipes give *)

Took == <<tag, cmd, stage, polling, done, code, slow>>

TakesWrapper ==
    /\ device.phase = "idle" /\ outq # << >>
    /\ outq' = Tail(outq)
    /\ IF Head(outq) = "cbw"
       THEN /\ device' = [tag |-> frame.cbw.tag, op |-> frame.cbw.op, lba |-> frame.cbw.lba,
                          status |-> "passed",
                          phase |-> IF frame.cbw.op = "test" THEN "status" ELSE "data"]
            /\ Post("ok")
       ELSE /\ device' = [Idle EXCEPT !.phase = "halted"]
            /\ Post("stall")
    /\ UNCHANGED <<Took, media, frame, inq, refused>>

SendsSector ==
    /\ device.phase = "data" /\ device.op = "read" /\ inq # << >>
    /\ inq' = Tail(inq)
    /\ IF Head(inq) = "data"
       THEN /\ frame' = [frame EXCEPT !.data = media[device.lba]]
            /\ device' = [device EXCEPT !.phase = "status"]
            /\ Post("ok")
       ELSE /\ frame' = [frame EXCEPT !.csw = [tag |-> NoTag, status |-> Junk]]
            /\ device' = [Idle EXCEPT !.phase = "halted"]
            /\ Post("stall")
    /\ UNCHANGED <<Took, media, outq, refused>>

TakesSector ==
    /\ device.phase = "data" /\ device.op = "write" /\ outq # << >>
    /\ outq' = Tail(outq)
    /\ IF Head(outq) = "data"
       THEN /\ media' = [media EXCEPT ![device.lba] = frame.data]
            /\ device' = [device EXCEPT !.phase = "status"]
       ELSE /\ device' = [device EXCEPT !.phase = "status", !.status = "failed"]
            /\ UNCHANGED media
    /\ Post("ok")
    /\ UNCHANGED <<Took, frame, inq, refused>>

\* A refused command ends its data stage short.
Refuses ==
    /\ device.phase = "data" /\ refused < MaxRefused
    /\ refused' = refused + 1
    /\ device' = [device EXCEPT !.phase = "status", !.status = "failed"]
    /\ IF device.op = "read"
       THEN /\ inq # << >> /\ Head(inq) = "data"
            /\ inq' = Tail(inq) /\ UNCHANGED outq
       ELSE /\ outq # << >> /\ Head(outq) = "data"
            /\ outq' = Tail(outq) /\ UNCHANGED inq
    /\ Post("short")
    /\ UNCHANGED <<Took, media, frame>>

SendsStatus ==
    /\ device.phase = "status" /\ inq # << >>
    /\ inq' = Tail(inq)
    /\ device' = Idle
    /\ IF Head(inq) = "csw"
       THEN /\ frame' = [frame EXCEPT !.csw = [tag |-> device.tag, status |-> device.status]]
            /\ Post("ok")
       ELSE /\ frame' = [frame EXCEPT !.data = Junk]
            /\ Post("short")
    /\ UNCHANGED <<Took, media, outq, refused>>

----------------------------------------------------------------------------
UsbInit ==
    /\ media \in [Lbas -> Values]
    /\ frame = [cbw |-> [tag |-> NoTag, op |-> "none", lba |-> 0], csw |-> NoCsw, data |-> Junk]
    /\ tag = 0 /\ cmd = [op |-> "none", lba |-> 0, val |-> Junk, clean |-> TRUE]
    /\ stage = "idle"
    /\ outq = << >> /\ inq = << >> /\ device = Idle
    /\ posted = << >> /\ passed = 0 /\ polling = NotPolling
    /\ done = FALSE /\ code = NoCode
    /\ slow = 0 /\ refused = 0

UsbNext ==
    \/ usbmsc_bd_read \/ usbmsc_bd_write \/ msc_test_unit_ready
    \/ TickPolls \/ PollReads \/ PollConsumes \/ TransferEnds \/ TransferTimesOut
    \/ TakesWrapper \/ SendsSector \/ TakesSector \/ Refuses \/ SendsStatus

UsbSpec == UsbInit /\ [][UsbNext]_usbVars

----------------------------------------------------------------------------
\* A command that reports success did what it was asked: a read returns what the sector
\* holds, a write is on the stick, however late the completions of earlier transfers are
\* (msc_command: the cleared status wrapper and its tag).
SuccessIsReal ==
    [][stage' = "passed" /\ stage # "passed" =>
         /\ cmd.op = "read" => frame.data = media[cmd.lba]
         /\ cmd.op = "write" /\ cmd.clean => media[cmd.lba] = cmd.val]_usbVars

\* The tick and the transfer's own poll never step the dequeue pointer past a record the
\* controller has not written (poll_busy).
NoRecordIsPassed == passed = 0

\* Both, through slow transfers, refused commands and ticks at any moment of a command
\* (usbmsc_bd_read, usbmsc_bd_write, xhci_poll).
TransfersAreSound == SuccessIsReal /\ []NoRecordIsPassed
=============================================================================
