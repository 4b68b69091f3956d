------------------------------ MODULE MCDevices -----------------------------
(***************************************************************************)
(* The device drivers and the boot path, each checked on its own: "part"   *)
(* picks the one a behaviour runs and the others stay at an initial state. *)
(***************************************************************************)
EXTENDS Xhci, UsbDisk, TrbRing, Disk, Rtc, Keyboard, Boot, TLC

VARIABLE part

\* Passphrases are only ever compared with each other.
Symmetry == Permutations(Passes)

\* Devices by their descriptors, and what is plugged into the two controllers.
Interface(class) ==
    [type |-> "interface", class |-> class, xfer |-> "none", in |-> FALSE, addr |-> 0]
Endpoint(xfer, in, addr) ==
    [type |-> "endpoint", class |-> "none", xfer |-> xfer, in |-> in, addr |-> addr]
AKeyboard == <<Interface("keyboard"), Endpoint("interrupt", TRUE, 1)>>
AStick == <<Interface("storage"), Endpoint("bulk", TRUE, 1), Endpoint("bulk", FALSE, 2)>>
OneStick == <<<<NoDevice, AStick>>, <<NoDevice, NoDevice>>>>
MCBuses ==
    {<<a, b>> : a \in {<<NoDevice, AStick>>, <<AKeyboard, NoDevice>>},
                b \in {<<NoDevice, NoDevice>>, <<AKeyboard, AStick>>, <<AStick, AStick>>}}

(* A part that is not picked stays at one of its initial states. *)
Init ==
    /\ part \in {"xhci", "usb", "ring", "disk", "rtc", "keyboard", "boot"}
    /\ RingInit
    /\ XhciInit /\ (part # "xhci" => bus = OneStick /\ scan = FirstCandidate(0))
    /\ UsbInit /\ (part # "usb" => media = [lba \in Lbas |-> "x"])
    /\ DiskInit /\ (part # "disk" => sectors = [s \in Sectors |-> "x"])
    /\ RtcInit /\ (part # "rtc" => cmos.second = 0 /\ cmos.minute = 0)
    /\ KbdInit /\ (part # "keyboard" => source = "ps2" /\ layout = 0)
    /\ BootInit /\ (part # "boot" => disks = [d \in Devs |-> Blank])

Step(p, Action, vars) == IF part = p THEN Action ELSE UNCHANGED vars

Next ==
    /\ UNCHANGED part
    /\ Step("xhci", XhciNext, xhciVars)
    /\ Step("usb", UsbNext, usbVars)
    /\ Step("ring", RingNext, ringVars)
    /\ Step("disk", DiskNext, diskVars)
    /\ Step("rtc", RtcNext, rtcVars)
    /\ Step("keyboard", KbdNext, kbdVars)
    /\ Step("boot", BootNext, bootVars)

Spec ==
    Init /\ [][Next]_<<part, xhciVars, usbVars, ringVars, diskVars, rtcVars, kbdVars, bootVars>>
=============================================================================
