-------------------------------- MODULE Xhci --------------------------------
(***************************************************************************)
(* drivers/xhci.c, and the start of drivers/usbmsc.c: choosing a USB       *)
(* controller, enumerating what is plugged into it, opening the keyboard   *)
(* and the sticks, and sharing one event ring between the code that waits  *)
(* for an answer and the timer tick that reads the keyboard.               *)
(*                                                                         *)
(* A request is what one doorbell announces: a command, or a control       *)
(* transfer with its stages.  The controller finishes the requests of one  *)
(* ring in order, of different rings in any order, when it likes.  A ring  *)
(* is the queue its cycle bits implement (module TrbRing).                 *)
(***************************************************************************)
EXTENDS Integers, SequencesExt

CONSTANTS NCtl,        \* xHCI controllers on the PCI bus
          Ports,       \* root ports of a controller, 1..n
          Buses,       \* what is plugged where: functions controller -> port -> configuration
          Wanted,      \* numbers the command line may give as xhci=
          MaxDevices,  \* XHCI_MAX_DEVICES
          PollMax,     \* XHCI_POLL_MAX_EVENTS
          MaxLate,     \* bound on answers slower than XHCI_TIMEOUT_TICKS
          MaxFaults,   \* bound on requests the hardware refuses
          MaxKeys      \* bound on reports the keyboard sends

VARIABLES bus,         \* what is plugged in
          scan,        \* xhci_init: the candidate, whether it is the last, the best so far
          ranks,       \* history: the rank the scan gave each controller
          running,     \* controllers whose run bit is set
          ready,       \* xhci_ready
          armed,       \* xhci_poll_armed
          devices,     \* devices, up to device_count
          cur,         \* the device being enumerated, its port and slot
          attached,    \* the device usbkbd_attach was called for, 0 when none
          stick,       \* usbmsc_init: the device it is opening, the sticks that came up
          pc, step,    \* where the kernel's own thread is; the request it is in
          work,        \* requests the controller holds
          events,      \* records of the event ring not yet consumed
          copy,        \* xhci_wait_event's copy of a record
          skipped,     \* records the dequeue pointer has passed before they were written
          slots,       \* slots the controller has enabled
          buf,         \* per slot, the transfer whose bytes the descriptor buffer holds
          late, faults, keysSent,   \* the three bounds' counters
          lost,        \* history: a wait whose answer somebody else had consumed
          eaten        \* history: a wait consumed a keyboard report, or a record it had not read

xhciVars == <<bus, scan, ranks, running, ready, armed, devices, cur, attached, stick, pc, step, work,
              events, copy, skipped, slots, buf, late, faults, keysSent, lost, eaten>>

Ctls == 1..NCtl
NoDevice == << >>                       \* an empty port
Commands == {"noop", "enable", "address", "refine", "openint", "openin", "openout"}
Opening == {"setcfgS", "openin", "openout"}
NoEvent == [type |-> "none", slot |-> 0, dci |-> 0, op |-> "none", ok |-> FALSE]
NoPort == [port |-> 0, slot |-> 0]

RANK_UNUSABLE == -1

----------------------------------------------------------------------------
(* What a configuration descriptor says                                     *)

NoConfig == [inKbd |-> FALSE, inStorage |-> FALSE, kbdIface |-> FALSE, mscIface |-> FALSE,
             kbd |-> 0, mscIn |-> 0, mscOut |-> 0]

\* The first boot keyboard's first interrupt IN endpoint, and the first bulk endpoint of
\* each direction of the first Bulk-Only interface.  Interfaces and endpoints are told
\* apart by position: an endpoint belongs to the interface before it.
xhci_parse_config(descriptors) ==
    LET Walk(acc, d) ==
          IF d.type = "interface"
          THEN [acc EXCEPT !.inKbd = d.class = "keyboard" /\ ~acc.kbdIface,
                           !.kbdIface = @ \/ d.class = "keyboard",
                           !.inStorage = d.class = "storage" /\ ~acc.mscIface,
                           !.mscIface = @ \/ d.class = "storage"]
          ELSE LET bulkEp == acc.inStorage /\ d.xfer = "bulk"
                   First(taken, found) == IF taken = 0 /\ found THEN d.addr ELSE taken
               IN [acc EXCEPT !.kbd = First(@, acc.inKbd /\ d.in /\ d.xfer = "interrupt"),
                              !.mscIn = First(@, bulkEp /\ d.in),
                              !.mscOut = First(@, bulkEp /\ ~d.in)]
    IN FoldLeft(Walk, NoConfig, descriptors)

IsStorage(d) == d.config.mscIn # 0 /\ d.config.mscOut # 0
KbdDci(d) == 2 * d.config.kbd + 1

xhci_rank(came_up, count, keyboard, storage) ==
    CASE ~came_up -> RANK_UNUSABLE
      [] storage -> 3
      [] keyboard -> 2
      [] count > 0 -> 1
      [] OTHER -> 0

xhci_storage_device_next(after) ==
    LET found == {i \in DOMAIN devices : i > after /\ IsStorage(devices[i])}
    IN IF found = {} THEN 0 ELSE Min(found)

device_for_slot(s) ==
    LET found == {i \in DOMAIN devices : devices[i].slot = s}
    IN IF found = {} THEN 0 ELSE Min(found)

----------------------------------------------------------------------------
(* Requests                                                                 *)

Cmd(op, slot) == [op |-> op, slot |-> slot, dci |-> 0]
Control(op, slot) == [op |-> op, slot |-> slot, dci |-> 1]
Report(i) == [op |-> "report", slot |-> devices[i].slot, dci |-> KbdDci(devices[i])]

\* Two requests of one ring: the command ring, or one endpoint of one slot.
SameRing(a, b) == a.dci = b.dci /\ (a.dci = 0 \/ a.slot = b.slot)

WantedType(op) == IF op \in Commands THEN "cmd" ELSE "xfer"

\* Push the request and ring the doorbell; the wait starts here.
Issue(request) ==
    /\ work' = Append(work, request)
    /\ step' = request.op
    /\ pc' = "wait"

xhci_command(op, slot) == Issue(Cmd(op, slot))
xhci_control(op, slot) == Issue(Control(op, slot))
Return(where) == pc' = where /\ step' = "none" /\ UNCHANGED work

\* The controller finishes the oldest request of a ring and writes an event, into a
\* place the driver's pointer has already passed when it ran ahead.  A device
\* descriptor's bytes land in the buffer of its slot.
Complete ==
    \E i \in DOMAIN work, ok \in BOOLEAN :
        LET w == work[i]
            slot == IF w.op = "enable" THEN (IF ok THEN slots + 1 ELSE 0) ELSE w.slot
            event == [type |-> IF w.dci = 0 THEN "cmd" ELSE "xfer", slot |-> slot,
                      dci |-> w.dci, op |-> w.op, ok |-> ok]
        IN /\ \A j \in 1..(i - 1) : ~SameRing(work[j], w)
           /\ ok \/ faults < MaxFaults
           /\ w.op = "report" => keysSent < MaxKeys
           /\ faults' = IF ok THEN faults ELSE faults + 1
           /\ keysSent' = IF w.op = "report" THEN keysSent + 1 ELSE keysSent
           /\ slots' = IF w.op = "enable" /\ ok THEN slots + 1 ELSE slots
           /\ buf' = IF w.dci = 1 /\ ok THEN [buf EXCEPT ![w.slot] = w.op] ELSE buf
           /\ work' = RemoveAt(work, i)
           /\ IF skipped > 0 THEN skipped' = skipped - 1 /\ UNCHANGED events
              ELSE events' = Append(events, event) /\ UNCHANGED skipped
    /\ UNCHANGED <<bus, scan, ranks, running, ready, armed, devices, cur, attached, stick, pc, step,
                   copy, late, lost, eaten>>


----------------------------------------------------------------------------
(* xhci_init and xhci_bring_up                                              *)

\* xhci_forget: nothing of the last candidate is left.
xhci_forget ==
    /\ ready' = FALSE /\ armed' = FALSE
    /\ devices' = << >> /\ cur' = NoPort /\ attached' = 0
    /\ work' = << >> /\ events' = << >> /\ skipped' = 0 /\ slots' = 0
    /\ buf' = [s \in DOMAIN buf |-> "none"]

\* A stage of xhci_bring_up ends, or one of its checks or register waits fails and
\* xhci_give_up leaves nothing up (it has nothing to undo before the No Op).
Stage(here, next) ==
    /\ pc = here
    /\ \/ pc' = next /\ UNCHANGED faults
       \/ pc' = "tried" /\ faults < MaxFaults /\ faults' = faults + 1

\* The registers: where they are decoded, who owns the controller, where the blocks lie.
MapRegisters ==
    /\ Stage("try", "reset")
    /\ xhci_forget
    /\ UNCHANGED <<bus, scan, ranks, running, stick, step, copy, late, keysSent, lost, eaten>>

\* Stop it and reset it; it is halted from here on.
ResetController ==
    /\ Stage("reset", "rings")
    /\ running' = running \ {scan.ctl}
    /\ UNCHANGED <<bus, scan, ranks, ready, armed, devices, cur, attached, stick, step, work,
                   events, copy, skipped, slots, buf, late, keysSent, lost, eaten>>

\* The rings, the scratchpad and the run bit.
InstallRings ==
    /\ Stage("rings", "power")
    /\ running' = IF pc' = "power" THEN running \cup {scan.ctl} ELSE running
    /\ UNCHANGED <<bus, scan, ranks, ready, armed, devices, cur, attached, stick, step, work,
                   events, copy, skipped, slots, buf, late, keysSent, lost, eaten>>

\* The ports are powered and read until one shows a device or the time is up (the model's
\* ports show what is plugged in), and a No Op proves the rings.
xhci_bring_up_ports ==
    /\ pc = "power"
    /\ xhci_command("noop", 0)
    /\ UNCHANGED <<bus, scan, ranks, running, ready, armed, devices, cur, attached, stick,
                   events, copy, skipped, slots, buf, late, faults, keysSent, lost, eaten>>

\* Resetting a port leaves a Port Status Change on the event ring, whether or not the
\* port comes out of it enabled.
xhci_port_reset == events' = Append(events, [NoEvent EXCEPT !.type = "port"])

\* The loop of xhci_enumerate: the next port with a device on it is reset, and a slot is
\* asked for; a port whose reset fails is skipped.  After the last one the tick may poll.
xhci_enumerate ==
    /\ pc = "ports"
    /\ LET left == {p \in Ports : p > cur.port /\ bus[scan.ctl][p] # NoDevice}
       IN IF left = {} \/ Len(devices) >= MaxDevices
          THEN /\ armed' = TRUE
               /\ Return("tried")
               /\ UNCHANGED <<cur, events, faults>>
          ELSE /\ cur' = [port |-> Min(left), slot |-> 0]
               /\ xhci_port_reset
               /\ \/ xhci_command("enable", 0) /\ UNCHANGED faults
                  \/ /\ faults < MaxFaults
                     /\ faults' = faults + 1
                     /\ Return("ports")
               /\ UNCHANGED armed
    /\ UNCHANGED <<bus, scan, ranks, running, ready, devices, attached, stick, copy, skipped, slots,
                   buf, late, keysSent, lost, eaten>>

\* A later controller has to be better, so the first of equals is kept.
Better(rank) == rank > scan.rank

\* xhci_stand_down: a controller that is passed over is halted.
xhci_stand_down ==
    /\ armed' = FALSE /\ ready' = FALSE
    /\ running' = running \ {scan.ctl}

\* One candidate has been brought up or has refused: keep it if it was the only one,
\* the one asked for or the best; otherwise rank it and stand it down.
xhci_init ==
    /\ pc = "tried"
    /\ IF scan.last THEN Return("usbmsc") /\ UNCHANGED <<scan, ranks, running, armed, ready>>
       ELSE LET rank == xhci_rank(ready, Len(devices), attached # 0,
                                  xhci_storage_device_next(0) # 0)
                best == IF Better(rank) THEN scan.ctl ELSE scan.best
            IN /\ ranks' = [ranks EXCEPT ![scan.ctl] = rank]
               /\ xhci_stand_down
               /\ scan' = [ctl |-> IF scan.ctl < NCtl THEN scan.ctl + 1
                                   ELSE IF best # 0 THEN best ELSE scan.ctl,
                           last |-> scan.ctl = NCtl,
                           best |-> best, rank |-> IF Better(rank) THEN rank ELSE scan.rank]
               /\ Return(IF scan.ctl = NCtl /\ best = 0 THEN "usbmsc" ELSE "try")
    /\ UNCHANGED <<bus, devices, cur, attached, stick, events, copy, skipped, slots, buf,
                   late, faults, keysSent, lost, eaten>>

\* usbmsc_init: open each storage device in turn, at most two; the transport's own
\* commands (module UsbDisk) then bring the stick up or not.
usbmsc_init ==
    /\ pc = "usbmsc"
    /\ LET next == xhci_storage_device_next(stick.device)
       IN IF next = 0 \/ stick.count = 2 THEN Return("done") /\ UNCHANGED stick
          ELSE /\ xhci_control("setcfgS", devices[next].slot)
               /\ stick' = [stick EXCEPT !.device = next]
    /\ UNCHANGED <<bus, scan, ranks, running, ready, armed, devices, cur, attached, events, copy,
                   skipped, slots, buf, late, faults, keysSent, lost, eaten>>

----------------------------------------------------------------------------
(* What follows the answer to a request                                     *)

\* xhci_enumerate_port for the device of cur: a failure before its table entry skips the
\* port; afterwards the device stays in the table, with no configuration if its
\* descriptor did not arrive.  The last step opens the first keyboard.
NewDevice ==
    [port |-> cur.port, slot |-> cur.slot,
     config |-> IF step = "cfg" /\ buf[cur.slot] = "cfg"
                THEN xhci_parse_config(bus[scan.ctl][cur.port]) ELSE NoConfig]

\* A full-speed device may report another packet size for endpoint zero.
xhci_refine_ep0 ==
    \/ xhci_control("desc", cur.slot)
    \/ buf[cur.slot] = "desc8" /\ xhci_command("refine", cur.slot)

xhci_address_device(slot) == xhci_command("address", slot)
xhci_open_endpoint(op, slot) == xhci_command(op, slot)

Tabled == devices' = Append(devices, NewDevice)

xhci_enumerate_port(ok, slot) ==
    \/ /\ step = "enable" /\ ok
       /\ xhci_address_device(slot)
       /\ cur' = [cur EXCEPT !.slot = slot]
       /\ UNCHANGED devices
    \/ /\ step = "address" /\ ok
       /\ xhci_control("desc8", cur.slot)
       /\ UNCHANGED <<cur, devices>>
    \/ /\ step = "desc8" /\ ok
       /\ xhci_refine_ep0
       /\ UNCHANGED <<cur, devices>>
    \/ /\ step = "refine" /\ ok
       /\ xhci_control("desc", cur.slot)
       /\ UNCHANGED <<cur, devices>>
    \/ /\ step = "desc" /\ ok
       /\ xhci_control("cfg9", cur.slot)
       /\ UNCHANGED <<cur, devices>>
    \/ /\ step = "cfg9" /\ ok
       /\ xhci_control("cfg", cur.slot)
       /\ UNCHANGED <<cur, devices>>
    \/ /\ step \in {"enable", "address", "desc8", "refine", "desc"} /\ ~ok
       /\ Return("ports")
       /\ UNCHANGED <<cur, devices>>
    \/ /\ (step = "cfg9" /\ ~ok) \/ step = "cfg"
       /\ Tabled
       /\ IF NewDevice.config.kbd # 0 /\ attached = 0
          THEN xhci_control("setcfg", cur.slot) ELSE Return("ports")
       /\ UNCHANGED cur

\* xhci_open_keyboard for the last device of the table.
xhci_open_keyboard(ok) ==
    \/ step = "setcfg" /\ ok /\ xhci_open_endpoint("openint", cur.slot) /\ UNCHANGED attached
    \/ step = "openint" /\ ok /\ xhci_control("proto", cur.slot) /\ UNCHANGED attached
    \/ /\ step = "proto" /\ ok
       /\ attached' = Len(devices)
       /\ work' = Append(work, Report(Len(devices)))
       /\ pc' = "ports" /\ step' = "none"
    \/ /\ step \in {"setcfg", "openint", "proto"} /\ ~ok
       /\ Return("ports")
       /\ UNCHANGED attached

\* The stick answers the transport's first commands, or is given up.
usbmsc_bring_up == stick' \in {stick, [stick EXCEPT !.count = @ + 1]}

\* xhci_open_storage for the device usbmsc_init is at.
xhci_open_storage(ok) ==
    LET slot == devices[stick.device].slot
    IN \/ step = "setcfgS" /\ ok /\ xhci_open_endpoint("openin", slot) /\ UNCHANGED stick
       \/ step = "openin" /\ ok /\ xhci_open_endpoint("openout", slot) /\ UNCHANGED stick
       \/ /\ step = "openout" /\ ok
          /\ Return("usbmsc")
          /\ usbmsc_bring_up
       \/ step \in Opening /\ ~ok /\ Return("usbmsc") /\ UNCHANGED stick

\* The No Op of xhci_bring_up: an answer makes the controller ready, and none gives it up.
xhci_noop_command(ok) ==
    /\ step = "noop"
    /\ IF ok THEN Return("ports") /\ ready' = TRUE
       ELSE Return("tried") /\ UNCHANGED ready

Answer(ok, slot) ==
    /\ \/ xhci_noop_command(ok) /\ UNCHANGED <<cur, devices, attached, stick>>
       \/ xhci_enumerate_port(ok, slot) /\ UNCHANGED <<ready, attached, stick>>
       \/ xhci_open_keyboard(ok) /\ UNCHANGED <<ready, cur, devices, stick>>
       \/ xhci_open_storage(ok) /\ UNCHANGED <<ready, cur, devices, attached>>

----------------------------------------------------------------------------
(* Readers of the event ring                                                *)

\* xhci_consume_event: the dequeue pointer moves on, whatever it points at.
xhci_consume_event ==
    /\ events' = IF events = << >> THEN events ELSE Tail(events)
    /\ skipped' = IF events = << >> THEN skipped + 1 ELSE skipped

\* The loop of xhci_wait_event: copy a record, consume it, stop at the wanted type.
CopyEvent ==
    /\ pc = "wait" /\ events # << >>
    /\ copy' = Head(events)
    /\ pc' = "copied"
    /\ UNCHANGED <<bus, scan, ranks, running, ready, armed, devices, cur, attached, stick, step, work,
                   events, skipped, slots, buf, late, faults, keysSent, lost, eaten>>

Matches(event) == event.type = WantedType(step)

xhci_wait_event ==
    /\ pc = "copied"
    /\ xhci_consume_event
    /\ copy' = NoEvent
    /\ eaten' = (eaten \/ copy.op = "report" \/ events = << >> \/ Head(events) # copy)
    /\ IF Matches(copy)
       THEN Answer(copy.ok, copy.slot)
       ELSE /\ pc' = "wait"
            /\ UNCHANGED <<ready, devices, cur, attached, stick, step, work>>
    /\ UNCHANGED <<bus, scan, ranks, running, armed, slots, buf, late, faults, keysSent, lost>>

\* The deadline passes with the ring empty: the answer is late, or it was consumed.
Pending == \E w \in Range(work) : w.op = step /\ w.op # "report"

TimeOut ==
    /\ pc = "wait" /\ events = << >>
    /\ IF Pending
       THEN late < MaxLate /\ late' = late + 1 /\ UNCHANGED lost
       ELSE lost' = lost \cup {step} /\ UNCHANGED late
    /\ Answer(FALSE, 0)
    /\ UNCHANGED <<bus, scan, ranks, running, armed, events, copy, skipped, slots, buf, faults,
                   keysSent, eaten>>

\* Mutant: the tick reads the ring whether or not it is armed.
PollAlways == TRUE

\* Only an armed poll touches the ring, and any completion of the keyboard's endpoint,
\* a failed one too, asks for the next report.
PollAllowed == armed
KeyboardAnswered(e) ==
    /\ e.type = "xfer" /\ attached # 0
    /\ device_for_slot(e.slot) = attached /\ e.dci = KbdDci(devices[attached])

\* The timer tick: at most PollMax records are taken, a finished keyboard report is
\* handed on, and in every case the next one is asked for; anything else is dropped.
xhci_poll ==
    /\ PollAllowed /\ events # << >>
    /\ LET n == Min({PollMax, Len(events)})
           reports == {k \in 1..n : KeyboardAnswered(events[k])}
       IN /\ events' = SubSeq(events, n + 1, Len(events))
          /\ work' = IF reports = {} THEN work ELSE Append(work, Report(attached))
    /\ UNCHANGED <<bus, scan, ranks, running, ready, armed, devices, cur, attached, stick, pc, step,
                   copy, skipped, slots, buf, late, faults, keysSent, lost, eaten>>

----------------------------------------------------------------------------
\* xhci_init before its first candidate: the command line may name one, a lone controller
\* is simply taken, and several are scanned from the first.
FirstCandidate(wanted) ==
    IF wanted \in Ctls THEN [ctl |-> wanted, last |-> TRUE, best |-> 0, rank |-> RANK_UNUSABLE]
    ELSE [ctl |-> 1, last |-> NCtl = 1, best |-> 0, rank |-> RANK_UNUSABLE]

XhciInit ==
    /\ bus \in Buses
    /\ scan \in {FirstCandidate(w) : w \in Wanted}
    /\ ranks = [c \in Ctls |-> RANK_UNUSABLE]
    /\ running = {} /\ ready = FALSE /\ armed = FALSE
    /\ devices = << >> /\ cur = NoPort /\ attached = 0
    /\ stick = [device |-> 0, count |-> 0]
    /\ pc = IF NCtl = 0 THEN "usbmsc" ELSE "try"
    /\ step = "none"
    /\ work = << >> /\ events = << >> /\ copy = NoEvent /\ skipped = 0 /\ slots = 0
    /\ buf = [s \in Ports |-> "none"]
    /\ late = 0 /\ faults = 0 /\ keysSent = 0
    /\ lost = {} /\ eaten = FALSE

XhciNext ==
    \/ MapRegisters \/ ResetController \/ InstallRings \/ xhci_bring_up_ports
    \/ xhci_enumerate \/ xhci_init \/ usbmsc_init
    \/ Complete \/ CopyEvent \/ xhci_wait_event \/ TimeOut \/ xhci_poll

XhciSpec == XhciInit /\ [][XhciNext]_xhciVars

----------------------------------------------------------------------------
\* The scan ends on the controller the boot needs most: the first of those with the
\* highest rank it saw, and none that would not come up; no other is left running
\* (xhci_init, xhci_rank, xhci_stand_down).
BestControllerIsDriven ==
    pc \in {"usbmsc", "done"} /\ scan.best # 0 =>
        /\ scan.ctl = scan.best
        /\ running \subseteq {scan.ctl}
        /\ \A c \in Ctls : \/ ranks[c] < ranks[scan.ctl]
                           \/ ranks[c] = ranks[scan.ctl] /\ c >= scan.ctl

\* While a controller is brought up no answer is taken from under the wait for it: only
\* the hardware being slow makes a bring-up request time out (xhci_poll_armed is the
\* hand-over).  Opening a stick is not covered: it waits
\* on the event ring after the hand-over, and the tick may take its answer.
BringUpIsAnswered == lost \subseteq Opening

\* An attached keyboard always has exactly one report asked for: the controller holds the
\* transfer, or its completion waits to be read (xhci_queue_report, xhci_poll), unless a
\* wait for something else has consumed it or taken a late answer for its own.
Reports == {i \in DOMAIN work : work[i].op = "report"}
ReportEvents == {i \in DOMAIN events : events[i].op = "report"}
OneReportOutstanding ==
    /\ attached = 0 => Reports = {} \/ pc = "try"
    /\ attached # 0 /\ ~eaten /\ pc # "try" /\ late = 0 =>
          Cardinality(Reports) + Cardinality(ReportEvents) = 1

\* The three together: the boot drives the best controller, gets its answers, and leaves a
\* keyboard that reports (xhci_init, xhci_poll).
BringUpIsSound == BestControllerIsDriven /\ BringUpIsAnswered /\ OneReportOutstanding
=============================================================================
