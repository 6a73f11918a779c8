------------------------------ MODULE Calendar ------------------------------
(***************************************************************************)
(* src/calendar.c: the arithmetic on dates and times, and what             *)
(* decode_time.c and setclock.c make of dates with it.                     *)
(*                                                                         *)
(* A time is a struct tm in the format of DCF77: months and days from 1,   *)
(* Sunday is 7, the year counts fully.  It advances by add_minute(), while *)
(* the other functions look at each time it passes.  As a reference, dates *)
(* have their Julian day number, and a history variable counts minutes of  *)
(* UTC, which knows neither calendar nor time offset.                      *)
(***************************************************************************)
EXTENDS Integers

CONSTANTS
  FirstYear,     \* years, days of the month and hours in whose last minute
  LastYear,      \*   the time can start
  StartDays,
  StartHours,
  MaxMinutes     \* bound on the number of minutes that pass

base_year == 1900

ASSUME CalendarAssumption ==
  /\ {FirstYear, LastYear} \subseteq base_year .. base_year + 399
  /\ StartDays \subseteq 1 .. 31
  /\ StartHours \subseteq 0 .. 23
  /\ MaxMinutes \in Nat

VARIABLES
  time,      \* mainloop()'s curtime
  passed,    \* number of minutes that passed
  utc        \* history: minutes of UTC since base_year, in one cycle

vars == <<time, passed, utc>>

-----------------------------------------------------------------------------
(***************************************************************************)
(* Reference: Julian day numbers.  The Gregorian calendar and the weekdays *)
(* repeat after 400 years.                                                 *)
(***************************************************************************)
DayNumber(year, mon, mday) ==
  LET a == (14 - mon) \div 12
      y == year + 4800 - a
      m == mon + 12 * a - 3
  IN  mday + (153 * m + 2) \div 5 + 365 * y
        + y \div 4 - y \div 100 + y \div 400 - 32045

Day(t) == DayNumber(t.tm_year, t.tm_mon, t.tm_mday)

\* 1 is a Monday.
Weekday(year, mon, mday) == (DayNumber(year, mon, mday) % 7) + 1

MinutesPerDay == 24 * 60
MinutesPerCycle == 146097 * MinutesPerDay

Minutes(t) ==
  (Day(t) - DayNumber(base_year, 1, 1)) * MinutesPerDay
    + 60 * t.tm_hour + t.tm_min

\* The UTC of a German legal time.
Utc(t) == (Minutes(t) - 60 * (1 + t.tm_isdst)) % MinutesPerCycle

-----------------------------------------------------------------------------
(***************************************************************************)
(* calendar.c                                                              *)
(***************************************************************************)
dayinleapyear == <<0, 31, 60, 91, 121, 152, 182, 213, 244, 274, 305, 335>>

\* Mutant of isleapyear: every fourth year.
isleapyear_Julian(year) == year % 4 = 0

isleapyear(year) == (year % 4 = 0 /\ year % 100 # 0) \/ year % 400 = 0

lastday(t) ==
  CASE t.tm_mon = 2             -> IF isleapyear(t.tm_year) THEN 29 ELSE 28
    [] t.tm_mon \in {4, 6, 9, 11} -> 30
    [] OTHER                    -> 31

\* The remainder of C's %, which has the sign of the dividend.
CMod(x, n) == IF x >= 0 THEN x % n ELSE -((-x) % n)

(***************************************************************************)
(* century_offset(): from a date with a year of two digits, the century in *)
(* which it has its weekday; -1 if there is none.  It goes in weeks to the *)
(* end of February, which in the first year of the century is a Monday in  *)
(* a leap year only.                                                       *)
(***************************************************************************)
century_offset(t) ==
  LET common == t.tm_year % 4 > 0
      w      == CMod(t.tm_wday - t.tm_year - t.tm_year \div 4
                       - (IF common THEN 1 ELSE 0), 7)
      wd     == IF w < 1 THEN w + 7 ELSE w
      d      == dayinleapyear[t.tm_mon] + t.tm_mday
      after  == IF common THEN d - 1 ELSE d
      tmp    == IF d < 60
                  THEN d + 7 * ((59 - d) \div 7) + (IF wd = 1 THEN 0 ELSE 8 - wd)
                  ELSE after - 7 * ((after - 59) \div 7) - (wd - 1)
  IN  CASE tmp = 59                -> 1
        [] tmp \in {53, 54, 60, 61} -> 2
        [] tmp \in {55, 56, 62, 63} -> 3
        [] tmp \in {57, 58, 64, 65} -> 0
        [] OTHER                   -> -1

NextDay(t) ==
  LET wday == IF t.tm_wday = 7 THEN 1 ELSE t.tm_wday + 1
      d    == [t EXCEPT !.tm_wday = wday, !.tm_hour = 0]
  IN  CASE t.tm_mday < lastday(t) -> [d EXCEPT !.tm_mday = @ + 1]
        [] t.tm_mday >= lastday(t) /\ t.tm_mon < 12 ->
             [d EXCEPT !.tm_mday = 1, !.tm_mon = @ + 1]
        [] OTHER ->
             [d EXCEPT !.tm_mday = 1, !.tm_mon = 1,
                       !.tm_year = IF @ = base_year + 399 THEN base_year
                                                          ELSE @ + 1]

\* The shift of the hour in the minute in which the offset changes.
Shift(t, dst_changes) ==
  CASE dst_changes /\ t.tm_isdst = 1 -> -1
    [] dst_changes /\ t.tm_isdst = 0 -> 1
    [] OTHER                         -> 0

\* Mutant of add_minute: the change to summer time is forgotten.
add_minute_Winter(t, dst_changes) ==
  LET hour == t.tm_hour + 1 + (IF t.tm_isdst = 1 THEN Shift(t, dst_changes)
                                                 ELSE 0)
      h    == [t EXCEPT !.tm_min = 0, !.tm_hour = hour]
  IN  IF t.tm_min < 59 THEN [t EXCEPT !.tm_min = @ + 1]
      ELSE IF hour = 24 THEN NextDay(h) ELSE h

add_minute(t, dst_changes) ==
  LET hour == t.tm_hour + 1 + Shift(t, dst_changes)
      h    == [t EXCEPT !.tm_min = 0, !.tm_hour = hour]
  IN  IF t.tm_min < 59 THEN [t EXCEPT !.tm_min = @ + 1]
      ELSE IF hour = 24 THEN NextDay(h) ELSE h

PreviousDay(t) ==
  LET wday == IF t.tm_wday = 1 THEN 7 ELSE t.tm_wday - 1
      d    == [t EXCEPT !.tm_wday = wday, !.tm_hour = 23]
      last == CASE t.tm_mday > 1 -> [d EXCEPT !.tm_mday = @ - 1]
                [] t.tm_mday = 1 /\ t.tm_mon > 1 -> [d EXCEPT !.tm_mon = @ - 1]
                [] OTHER ->
                     [d EXCEPT !.tm_mon = 12,
                               !.tm_year = IF @ = base_year THEN base_year + 399
                                                            ELSE @ - 1]
  IN  IF t.tm_mday = 1 THEN [last EXCEPT !.tm_mday = lastday(last)] ELSE last

\* The hour goes to the previous day when it is exactly 0.
substract_hour(t) ==
  IF t.tm_hour = 0 THEN PreviousDay(t) ELSE [t EXCEPT !.tm_hour = @ - 1]

\* Mutant of substract_minute: the offset changes as it does forwards.
substract_minute_Forward(t, dst_changes) ==
  IF t.tm_min > 0 THEN [t EXCEPT !.tm_min = @ - 1]
  ELSE substract_hour([t EXCEPT !.tm_min = 59,
                                !.tm_hour = @ + Shift(t, dst_changes)])

substract_minute(t, dst_changes) ==
  IF t.tm_min > 0 THEN [t EXCEPT !.tm_min = @ - 1]
  ELSE substract_hour([t EXCEPT !.tm_min = 59,
                                !.tm_hour = @ - Shift(t, dst_changes)])

\* A tm_isdst of -2 indicates UTC.
get_utctime(t) ==
  CASE t.tm_isdst = 0 -> [substract_hour(t) EXCEPT !.tm_isdst = -2]
    [] t.tm_isdst = 1 ->
         [substract_hour(substract_hour(t)) EXCEPT !.tm_isdst = -2]
    [] OTHER -> t

\* The day of the year, from 1.
DayOfYear(year, mon, mday) ==
  dayinleapyear[mon] + mday - (IF mon > 2 /\ ~isleapyear(year) THEN 1 ELSE 0)

get_dcftime(t) ==
  [t EXCEPT !.tm_mon = @ + 1, !.tm_year = @ + 1900,
            !.tm_wday = IF @ = 0 THEN 7 ELSE @,
            !.tm_yday = DayOfYear(t.tm_year + 1900, t.tm_mon + 1, t.tm_mday)]

\* Mutant of get_isotime: Sunday stays 7.
get_isotime_Sunday(t) ==
  [t EXCEPT !.tm_mon = @ - 1, !.tm_year = @ - 1900,
            !.tm_yday = DayOfYear(t.tm_year, t.tm_mon, t.tm_mday) - 1]

get_isotime(t) ==
  [t EXCEPT !.tm_mon = @ - 1, !.tm_year = @ - 1900,
            !.tm_wday = IF @ = 7 THEN 0 ELSE @,
            !.tm_yday = DayOfYear(t.tm_year, t.tm_mon, t.tm_mday) - 1]

-----------------------------------------------------------------------------
(***************************************************************************)
(* The date part of calculate_date_time() for a group of good parity: the  *)
(* date that is stamped, or none.                                          *)
(***************************************************************************)
NoDate == [tm_mday |-> 0, tm_mon |-> 0, tm_year |-> 0, tm_wday |-> 0]

\* Mutant of calculate_date: the length of the month is not checked.
calculate_date_AnyDay(mday, wday, mon, year) ==
  LET new  == [tm_mday |-> mday, tm_mon |-> mon, tm_year |-> year,
               tm_wday |-> wday]
      date == [new EXCEPT !.tm_year = base_year + 100 * century_offset(new) + year]
  IN  IF mday \notin 1 .. 31 \/ wday = 0 \/ mon \notin 1 .. 12 \/ year > 99
        THEN NoDate
      ELSE IF century_offset(new) = -1 THEN NoDate ELSE date

calculate_date(mday, wday, mon, year) ==
  LET new  == [tm_mday |-> mday, tm_mon |-> mon, tm_year |-> year,
               tm_wday |-> wday]
      date == [new EXCEPT !.tm_year = base_year + 100 * century_offset(new) + year]
  IN  IF mday \notin 1 .. 31 \/ wday = 0 \/ mon \notin 1 .. 12 \/ year > 99
        THEN NoDate
      ELSE IF century_offset(new) = -1 \/ mday > lastday(date)
        THEN NoDate ELSE date

-----------------------------------------------------------------------------
Init ==
  /\ time \in [tm_min : {59}, tm_hour : StartHours, tm_mday : StartDays,
               tm_mon : 1 .. 12, tm_year : FirstYear .. LastYear, tm_wday : 1 .. 7,
               tm_isdst : {0, 1}, tm_yday : {0}]
  /\ time.tm_mday <= lastday(time)
  /\ time.tm_wday = Weekday(time.tm_year, time.tm_mon, time.tm_mday)
  /\ passed = 0
  /\ utc = Utc(time)

(***************************************************************************)
(* The hours at whose end the offset can change and leave a valid hour.    *)
(* handle_dst() accepts an announcement at every hour; what add_minute()   *)
(* does with the one that is left out here, to summer time at 23:59, is in *)
(* MinuteReversible.                                                       *)
(***************************************************************************)
MayChange(t) == t.tm_min = 59 /\ (t.tm_isdst = 0 => t.tm_hour < 23)

(***************************************************************************)
(* increase_old_time() and then handle_dst(): a minute passes, and when an *)
(* announced change of the offset is due, the hour is shifted by one and   *)
(* tm_isdst changes by the other.                                          *)
(***************************************************************************)
Pass ==
  /\ passed < MaxMinutes
  /\ passed' = passed + 1
  /\ utc' = (utc + 1) % MinutesPerCycle
  /\ \E dst_changes \in IF MayChange(time) THEN BOOLEAN ELSE {FALSE} :
       time' = [add_minute(time, dst_changes)
                  EXCEPT !.tm_isdst = IF dst_changes THEN 1 - @ ELSE @]

Next == Pass

Spec == Init /\ [][Next]_vars
-----------------------------------------------------------------------------
(***************************************************************************)
(* Properties                                                              *)
(***************************************************************************)

ValidTime(t) ==
  /\ t.tm_min \in 0 .. 59 /\ t.tm_hour \in 0 .. 23
  /\ t.tm_mon \in 1 .. 12 /\ t.tm_mday \in 1 .. lastday(t)
  /\ t.tm_year \in base_year .. base_year + 399
  /\ t.tm_wday = Weekday(t.tm_year, t.tm_mon, t.tm_mday)

(***************************************************************************)
(* The time stays a legal time with the right weekday, over month, year    *)
(* and century, over the jump back after 400 years, and over every change  *)
(* of the offset that MayChange lets happen.                               *)
(***************************************************************************)
TypeOK ==
  /\ ValidTime(time)
  /\ time.tm_isdst \in {0, 1} /\ time.tm_yday = 0
  /\ passed \in 0 .. MaxMinutes
  /\ utc \in 0 .. MinutesPerCycle - 1

(***************************************************************************)
(* UTC goes on evenly over every change of the offset that MayChange lets  *)
(* happen: the shift that add_minute() makes and the change of tm_isdst in *)
(* handle_dst() cancel out, and get_utctime() shows the time that UTC is.  *)
(***************************************************************************)
UtcGoesOn ==
  /\ Utc(time) = utc
  /\ ValidTime(get_utctime(time))
  /\ Minutes(get_utctime(time)) = utc

(***************************************************************************)
(* substract_minute() takes back add_minute() over the ends of days,       *)
(* months and years and over changes of the offset.  The exception is a    *)
(* change to summer time in the last two hours of a day, which a false     *)
(* announcement can make the decoder believe: the functions notice a new   *)
(* day when the hour is exactly 24 or -1, and here the hour is 25 after    *)
(* add_minute() or -2 after substract_minute(), which is no time at all.   *)
(***************************************************************************)
MinuteReversible ==
  \A dst_changes \in BOOLEAN :
    LET new   == add_minute(time, dst_changes)
        hour  == IF dst_changes /\ time.tm_isdst = 0 /\ time.tm_min = 59
                   THEN time.tm_hour ELSE 0
    IN  /\ ValidTime(new) <=> hour # 23
        /\ (substract_minute(new, dst_changes) = time) <=> hour # 22

(***************************************************************************)
(* A received date of two digits and a weekday becomes the date of the     *)
(* century in which it falls on that weekday; no two centuries claim the   *)
(* same one.  A weekday that the date has in no century is not noticed:    *)
(* the date gets some century, since century_offset() never returns -1,    *)
(* and only a 29 February can still be refused, which that century may     *)
(* lack.  What is accepted is a day of its month.                          *)
(***************************************************************************)
DateRecovered ==
  \A wday \in 1 .. 7 :
    LET yy    == time.tm_year % 100
        date  == calculate_date(time.tm_mday, wday, time.tm_mon, yy)
        Falls(year) ==
          /\ time.tm_mday <= lastday([time EXCEPT !.tm_year = year])
          /\ Weekday(year, time.tm_mon, time.tm_mday) = wday
        years == {year \in {base_year + 100 * c + yy : c \in 0 .. 3} : Falls(year)}
    IN  /\ years # {} => {date.tm_year} = years
        /\ IF date = NoDate THEN yy = 0 /\ time.tm_mon = 2 /\ time.tm_mday = 29
                            ELSE time.tm_mday <= lastday(date)

(***************************************************************************)
(* What setclock() passes to mktime() has the ranges of ISO C, with the    *)
(* right day of the year, and get_dcftime() converts it back.              *)
(***************************************************************************)
IsoReversible ==
  LET iso  == get_isotime(time)
      yday == Day(time) - DayNumber(time.tm_year, 1, 1)
  IN  /\ iso.tm_mon \in 0 .. 11 /\ iso.tm_wday \in 0 .. 6
      /\ iso.tm_yday = yday
      /\ get_dcftime(iso) = [time EXCEPT !.tm_yday = yday + 1]
=============================================================================
