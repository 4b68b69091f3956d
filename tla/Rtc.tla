-------------------------------- MODULE Rtc --------------------------------
(***************************************************************************)
(* The clock chip and its driver (drivers/rtc.c). A register is reached in *)
(* two steps, its number to one port and then the value through another;   *)
(* the chip advances the time by itself; and the timer interrupt, which    *)
(* redraws the clock on the screen, reads the same chip through the same   *)
(* two ports while a system call is reading it or setting it.              *)
(*                                                                         *)
(* Of the six registers of the time two are kept, the seconds, which every *)
(* update changes, and one that a full count of seconds carries into.      *)
(* Register B is Plain, which is 24 hours in BCD, or Halted, the same with *)
(* the SET bit, or a value that was meant for another register.            *)
(*                                                                         *)
(* cmos         the registers, and whether an update is in progress        *)
(* cmosIndex    the register that the data port leads to                   *)
(* rtc          the call that is under way: its accesses to registers and  *)
(*              which half of which comes next (at), what this reading has *)
(*              got and what the one before it got, the time to be set;    *)
(*              and not in the code: what B was before the call, the       *)
(*              interrupts and the updates that came during it, and the    *)
(*              times the chip held                                        *)
(* rtcAnswer    what the last call answered                                *)
(* rtcSecond    last_second of the interrupt handler                       *)
(***************************************************************************)
EXTENDS Integers, Sequences

CONSTANTS
    Seconds,      \* the seconds that make a minute
    MaxInterrupts \* the timer interrupts in one call: a call takes less than
                  \* the time between two of them

Plain  == 2
Halted == 130

VARIABLES cmos, cmosIndex, rtc, rtcAnswer, rtcSecond

rtcVars == <<cmos, cmosIndex, rtc, rtcAnswer, rtcSecond>>

TimeOf(regs) == <<regs.second, regs.minute>>

NoneRead == [second |-> -1, minute |-> -1, b |-> -1]

NoCall == [op |-> "none", at |-> 1, got |-> NoneRead, before |-> NoneRead, want |-> <<0, 0>>,
           mode |-> Plain, interrupts |-> 0, updates |-> 0, held |-> {}]

NoAnswer == [op |-> "none"]

RtcInit ==
    /\ cmos \in [second : 0..(Seconds - 1), minute : 0..1, b : {Plain}, uip : {FALSE}]
    /\ cmosIndex = "b"
    /\ rtc = NoCall
    /\ rtcAnswer = NoAnswer
    /\ rtcSecond = -1

------------------------------------------------------------------------------
In(reg) == [reg |-> reg, out |-> FALSE]
Out(reg) == [reg |-> reg, out |-> TRUE]

(* rtc_read_raw(): wait out an update, then the registers in order. *)
rtc_read_raw == <<In("a"), In("second"), In("minute"), In("b")>>

(* Mutant: the clock runs on while it is set. *)
NeverHalts == <<In("a"), In("b"), Out("second"), Out("minute"), Out("b")>>

(* rtc_set_utc(): the updates are halted while the registers are written. The
   first access to B that writes it sets the SET bit, the last one clears it. *)
rtc_set_utc == <<In("a"), In("b"), Out("b"), Out("second"), Out("minute"), Out("b")>>

Accesses == IF rtc.op = "read" THEN rtc_read_raw ELSE rtc_set_utc

ThisAccess == Accesses[(rtc.at + 1) \div 2]

LastHalf == rtc.at = 2 * Len(Accesses)

ToWrite ==
    IF ThisAccess.reg = "second" THEN rtc.want[1]
    ELSE IF ThisAccess.reg = "minute" THEN rtc.want[2]
    ELSE IF LastHalf THEN rtc.got.b ELSE Halted

StartClockCall(op, want) ==
    /\ rtc.op = "none"
    /\ rtc' = [NoCall EXCEPT !.op = op, !.want = want, !.mode = cmos.b,
                          !.held = {TimeOf(cmos)}]
    /\ rtcAnswer' = NoAnswer
    /\ UNCHANGED <<cmos, cmosIndex, rtcSecond>>

(* sys_time(), and sys_settime() with a time that rtc_set_utc() accepts. *)
sys_time == StartClockCall("read", <<0, 0>>)

sys_settime ==
    \E second \in 0..(Seconds - 1), minute \in 0..1 :
      StartClockCall("set", <<second, minute>>)

(* The first half of an access. *)
SelectRegister ==
    /\ rtc.op # "none" /\ rtc.at % 2 = 1
    /\ cmosIndex' = ThisAccess.reg
    /\ rtc' = [rtc EXCEPT !.at = @ + 1]
    /\ UNCHANGED <<cmos, rtcAnswer, rtcSecond>>

(* rtc_read_utc() accepts a reading that is equal to the one before it. *)
rtc_raw_equal(got) == got = rtc.before

UpdateFlag == 128

(* The second half of a read: whatever register the index names by then. The flag
   of an update in progress is the highest bit of register A. *)
DataIn ==
    LET value == IF cmosIndex # "a" THEN cmos[cmosIndex]
                 ELSE IF cmos.uip THEN UpdateFlag ELSE 0
        got   == IF ThisAccess.reg = "a" THEN rtc.got
                 ELSE [rtc.got EXCEPT ![ThisAccess.reg] = value]
        wait  == ThisAccess.reg = "a" /\ value >= UpdateFlag
        done  == LastHalf /\ rtc_raw_equal(got)
    IN /\ rtc.op # "none" /\ rtc.at % 2 = 0 /\ ~ThisAccess.out
       /\ rtc' = IF done THEN NoCall
                 ELSE IF LastHalf THEN [rtc EXCEPT !.at = 1, !.before = got, !.got = NoneRead]
                 ELSE [rtc EXCEPT !.at = IF wait THEN @ - 1 ELSE @ + 1, !.got = got]
       /\ rtcAnswer' = IF done THEN [op |-> "read", time |-> TimeOf(got), held |-> rtc.held,
                                       disturbed |-> rtc.interrupts + rtc.updates]
                       ELSE NoAnswer
       /\ UNCHANGED <<cmos, cmosIndex, rtcSecond>>

(* The second half of a write. An update that was in progress is given up when B
   gets its SET bit; the register that shows it cannot be written. *)
DataOut ==
    LET written == IF cmosIndex = "a" THEN cmos
                   ELSE [cmos EXCEPT ![cmosIndex] = ToWrite]
        after   == [written EXCEPT !.uip = @ /\ written.b # Halted]
    IN /\ rtc.op = "set" /\ rtc.at % 2 = 0 /\ ThisAccess.out
       /\ cmos' = after
       /\ rtc' = IF LastHalf THEN NoCall ELSE [rtc EXCEPT !.at = @ + 1]
       /\ rtcAnswer' = IF ~LastHalf THEN NoAnswer
                       ELSE [op |-> "set", interrupts |-> rtc.interrupts,
                             kept |-> TimeOf(after) = rtc.want /\ after.b = rtc.mode]
       /\ UNCHANGED <<cmosIndex, rtcSecond>>

------------------------------------------------------------------------------
(* rtc_timer_callback(), in the timer interrupt: the second is read, and when it is
   a new one the whole time. The register that was read last stays selected. *)
rtc_timer_callback ==
    /\ ~cmos.uip
    /\ rtc.op = "none" \/ rtc.interrupts < MaxInterrupts
    /\ cmosIndex' = IF cmos.second # rtcSecond THEN "b" ELSE "second"
    /\ rtcSecond' = cmos.second
    /\ rtc' = IF rtc.op = "none" THEN rtc ELSE [rtc EXCEPT !.interrupts = @ + 1]
    /\ rtcAnswer' = NoAnswer
    /\ UNCHANGED cmos

(* The chip starts on an update, once a second, *)
UpdateBegins ==
    /\ ~cmos.uip /\ cmos.b # Halted /\ rtc.updates = 0
    /\ cmos' = [cmos EXCEPT !.uip = TRUE]
    /\ rtc' = IF rtc.op = "none" THEN rtc ELSE [rtc EXCEPT !.updates = 1]
    /\ UNCHANGED <<cmosIndex, rtcAnswer, rtcSecond>>

(* and ends it. *)
UpdateEnds ==
    LET full == cmos.second >= Seconds - 1
        next == [cmos EXCEPT !.uip = FALSE,
                             !.second = IF full THEN 0 ELSE @ + 1,
                             !.minute = IF full THEN (@ + 1) % 2 ELSE @]
    IN /\ cmos.uip
       /\ cmos' = next
       /\ rtc' = IF rtc.op = "none" THEN rtc ELSE [rtc EXCEPT !.held = @ \cup {TimeOf(next)}]
       /\ rtcAnswer' = NoAnswer
       /\ UNCHANGED <<cmosIndex, rtcSecond>>

RtcNext ==
    \/ sys_time
    \/ sys_settime
    \/ SelectRegister
    \/ DataIn
    \/ DataOut
    \/ rtc_timer_callback
    \/ UpdateBegins
    \/ UpdateEnds

RtcSpec == RtcInit /\ [][RtcNext]_rtcVars

------------------------------------------------------------------------------
(* "Reads the current UTC time from the chip, race-free": what rtc_read_utc()
   answers is a time that the chip held during the call, although the chip may
   update in the middle of a reading or a timer interrupt may leave another
   register selected. (When both come in one call, two readings can agree on a time
   that never was: the seconds read for the minutes the first time, and the minutes
   after the update the second time.) *)
ReadIsAMoment ==
    (rtcAnswer.op = "read" /\ rtcAnswer.disturbed <= 1) => rtcAnswer.time \in rtcAnswer.held

(* A time that rtc_set_utc() has set is what the chip holds when it returns, and
   register B is as it was, if no timer interrupt came during the call. *)
QuietSetIsKept == (rtcAnswer.op = "set" /\ rtcAnswer.interrupts = 0) => rtcAnswer.kept

(* Both: reads and sets of the clock by sys_time() and sys_settime(), with the ticks
   and updates that they are proof against. *)
ClockCallsAreRight == ReadIsAMoment /\ QuietSetIsKept

(* "set the clock to a known time, read it back, compare": a time that
   rtc_set_utc() has set is what the chip holds when it returns, and the chip runs
   on as before. *)
SetIsKept == rtcAnswer.op = "set" => rtcAnswer.kept
=============================================================================
