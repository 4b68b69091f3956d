------------------------------ MODULE Calendar ------------------------------
(***************************************************************************)
(* The arithmetic of dates: the carries of the clock driver                *)
(* (drivers/rtc.c), which knows how long the months are, and the           *)
(* conversions to and from seconds since 1970 (include/esdtime.h), which   *)
(* do without a table. The behaviour walks the days from 1970 on, one by   *)
(* one; a count of seconds is the pair of its days and the seconds of the  *)
(* day, and stands for days * 86400 + secs, below 2^32.                    *)
(*                                                                         *)
(* calDate     a date, reached by counting the days of every month         *)
(* calDays     how many days that is after 1970-01-01                      *)
(***************************************************************************)
EXTENDS Integers

CONSTANTS
    FirstDate,   \* the date the walk begins at, and
    FirstDays,   \* how many days after 1970-01-01 that is
    LastDays,    \* where it ends; 49709 is the last day that 2^32 seconds reach
    Offsets      \* the offsets of time zones, in hours

VARIABLES calDate, calDays

calVars == <<calDate, calDays>>

rtc_is_leap(year) == (year % 4 = 0 /\ year % 100 # 0) \/ year % 400 = 0

rtc_days_in_month(month, year) ==
    IF month = 2 THEN (IF rtc_is_leap(year) THEN 29 ELSE 28)
    ELSE IF month \in {4, 6, 9, 11} THEN 30 ELSE 31

------------------------------------------------------------------------------
(* A day forward, and a day back, as rtc_apply_timezone() carries them. *)
NextDay(date) ==
    IF date.day < rtc_days_in_month(date.month, date.year)
    THEN [date EXCEPT !.day = @ + 1]
    ELSE IF date.month < 12 THEN [date EXCEPT !.day = 1, !.month = @ + 1]
    ELSE [year |-> date.year + 1, month |-> 1, day |-> 1]

PreviousDay(date) ==
    IF date.day > 1 THEN [date EXCEPT !.day = @ - 1]
    ELSE IF date.month > 1
         THEN [date EXCEPT !.month = @ - 1,
                           !.day = rtc_days_in_month(date.month - 1, date.year)]
         ELSE [year |-> date.year - 1, month |-> 12, day |-> 31]

(* An offset is less than a day, so that one carry or one borrow is enough. *)
rtc_apply_timezone(date, hour, offset) ==
    LET shifted == hour + offset
    IN IF shifted >= 24 THEN [date |-> NextDay(date), hour |-> shifted - 24]
       ELSE IF shifted < 0 THEN [date |-> PreviousDay(date), hour |-> shifted + 24]
       ELSE [date |-> date, hour |-> shifted]

------------------------------------------------------------------------------
(* Years from March on, in eras of 400 years; no date is before 1970. *)
esd_days_from_civil(date) ==
    LET y   == IF date.month <= 2 THEN date.year - 1 ELSE date.year
        era == y \div 400
        yoe == y - era * 400
        m   == IF date.month > 2 THEN date.month - 3 ELSE date.month + 9
        doy == (153 * m + 2) \div 5 + date.day - 1
        doe == yoe * 365 + yoe \div 4 - yoe \div 100 + doy
    IN era * 146097 + doe - 719468

esd_civil_from_days(days) ==
    LET z   == days + 719468
        era == z \div 146097
        doe == z - era * 146097
        yoe == (doe - doe \div 1460 + doe \div 36524 - doe \div 146096) \div 365
        doy == doe - (365 * yoe + yoe \div 4 - yoe \div 100)
        mp  == (5 * doy + 2) \div 153
        m   == IF mp < 10 THEN mp + 3 ELSE mp - 9
    IN [year |-> yoe + era * 400 + (IF m <= 2 THEN 1 ELSE 0), month |-> m,
        day |-> doy - (153 * mp + 2) \div 5 + 1]

(* Mutant: a time that falls before midnight does not borrow the day. *)
NeverBorrows(date, hour, offset) ==
    LET hours == hour - offset
        days  == esd_days_from_civil(date) + (IF hours >= 24 THEN 1 ELSE 0)
    IN IF date.year < 1970 \/ days < 0 THEN [days |-> 0, hours |-> 0]
       ELSE [days |-> days, hours |-> hours % 24]

(* The minutes and seconds of the day are left out: they take no part in a carry. *)
esd_time_to_epoch(date, hour, offset) ==
    LET hours == hour - offset
        days  == esd_days_from_civil(date) + hours \div 24
    IN IF date.year < 1970 \/ days < 0 THEN [days |-> 0, hours |-> 0]
       ELSE [days |-> days, hours |-> hours % 24]

esd_time_from_epoch(epoch) ==
    [date |-> esd_civil_from_days(epoch.days), hour |-> epoch.hours]

------------------------------------------------------------------------------
CalInit == calDate = FirstDate /\ calDays = FirstDays

CalNext ==
    IF calDays < LastDays
    THEN calDate' = NextDay(calDate) /\ calDays' = calDays + 1
    ELSE calDate' = FirstDate /\ calDays' = FirstDays

CalSpec == CalInit /\ [][CalNext]_calVars

------------------------------------------------------------------------------
(* The table of months of the clock driver and the formulas of the file system
   agree on every day there is, in both directions: timestamps on files are the
   time the clock showed. *)
CalendarsAgree ==
    /\ esd_days_from_civil(calDate) = calDays
    /\ esd_civil_from_days(calDays) = calDate

(* A time as sys_time() shows it in any zone, given back to sys_settime() with its
   offset, is the time that was read: across the ends of months and years and
   the leap days the offset is put in and taken out by the same amount. The hour
   that is tried goes round the day. *)
ZonesRoundTrip ==
    \A offset \in Offsets :
      LET hour  == (5 * calDays) % 24
          local == rtc_apply_timezone(calDate, hour, offset)
      IN esd_time_from_epoch(esd_time_to_epoch(local.date, local.hour, offset))
           = [date |-> calDate, hour |-> hour]

(* The clock, the file system and the calls that set and show the time have one
   calendar (rtc.c, esdtime.h). *)
DatesAreRight == CalendarsAgree /\ ZonesRoundTrip
=============================================================================
