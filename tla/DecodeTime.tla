----------------------------- MODULE DecodeTime -----------------------------
(***************************************************************************)
(* decode_time() of src/decode_time.c: from the bits of a minute to the    *)
(* current time.                                                           *)
(*                                                                         *)
(* The time is first moved on by the minutes that passed, then replaced by *)
(* the received one if that passes all checks.  Announcements of a change  *)
(* of the time offset and of a leap second are counted over the hour.      *)
(*                                                                         *)
(* The bits are abstracted to what the function makes of them: each of the *)
(* parity groups has a value and the verdict of getpar() and getbcd() on   *)
(* it; the bits without parity are kept.  The date group (day, weekday,    *)
(* month and year) is one number, the day, and 0 stands for the all-zero   *)
(* date of a cleared struct tm.  A date_ok of "impossible" passes parity   *)
(* and BCD but not century_offset() or lastday().  bit 15 is left out.     *)
(*                                                                         *)
(* The flags of errflags are named, in the order of the bits 0 to 5,       *)
(* "minute", "hour", "date", "sanity", "leap" and "dst".                   *)
(***************************************************************************)
EXTENDS Integers

CONSTANTS
  MinutesPerHour,  \* 60 in the code
  HoursPerDay      \* 24 in the code

ASSUME ClockAssumption ==
  /\ MinutesPerHour \in Nat \ {0}
  /\ HoursPerDay \in Nat \ {0}

VARIABLES
  minute_count,        \* valid minutes, wraps at the length of an hour
  leap_count,          \* leap second announcements in this hour
  dst_count,           \* announcements of a DST change in this hour
  acc_minlen_partial,  \* milliseconds of split minutes, still to be combined
  olderr,              \* the previous minute had an error
  dt_res,              \* struct DT_result
  time,                \* mainloop()'s curtime
  fresh                \* history: time was stamped from the last minute

counters == <<minute_count, leap_count, dst_count>>
decoderVars == <<counters, acc_minlen_partial, olderr, dt_res, time, fresh>>

Verdicts  == {"eval_ok", "eval_parity", "eval_bcd"}
TVals     == Verdicts \cup {"eval_jump"}
DT_result == [minute_length : {"emin_ok", "emin_short", "emin_long"},
              bit0_ok : BOOLEAN, bit20_ok : BOOLEAN,
              minute_status : TVals, hour_status : TVals, date_status : TVals,
              dst_status : {"eDST_ok", "eDST_error", "eDST_jump", "eDST_done"},
              leapsecond_status : {"els_none", "els_one", "els_done"},
              dst_announce : BOOLEAN, leap_announce : BOOLEAN]
Time == [tm_min : 0 .. MinutesPerHour - 1, tm_hour : Int, day : Nat,
         tm_isdst : {-1, 0, 1}]
ZeroTime == [tm_min |-> 0, tm_hour |-> 0, day |-> 0, tm_isdst |-> 0]

DecodeTimeTypeOK ==
  /\ minute_count \in 0 .. MinutesPerHour - 1
  /\ leap_count \in Nat /\ dst_count \in Nat
  /\ acc_minlen_partial \in Nat /\ acc_minlen_partial < 60000
  /\ olderr \in BOOLEAN
  /\ dt_res \in DT_result
  /\ time \in Time
  /\ fresh \in BOOLEAN

DecodeTimeInit ==
  /\ minute_count = 0 /\ leap_count = 0 /\ dst_count = 0
  /\ acc_minlen_partial = 0
  /\ olderr = FALSE
  /\ dt_res = [minute_length |-> "emin_ok",
               bit0_ok |-> FALSE, bit20_ok |-> FALSE,
               minute_status |-> "eval_ok", hour_status |-> "eval_ok",
               date_status |-> "eval_ok", dst_status |-> "eDST_ok",
               leapsecond_status |-> "els_none",
               dst_announce |-> FALSE, leap_announce |-> FALSE]
  /\ time = ZeroTime
  /\ fresh = FALSE

-----------------------------------------------------------------------------
\* Mutant of add_minute: the hour has a minute too many.
add_minute_Late(t, dst_changes) ==
  IF t.tm_min < MinutesPerHour
    THEN [t EXCEPT !.tm_min = @ + 1]
    ELSE [t EXCEPT !.tm_min = 0, !.tm_hour = (@ + 1) % HoursPerDay]

(***************************************************************************)
(* add_minute(): one minute on, shifting the hour when the time offset     *)
(* changes.  The hour wraps when it is exactly HoursPerDay.                *)
(***************************************************************************)
add_minute(t, dst_changes) ==
  LET shift == CASE dst_changes /\ t.tm_isdst = 1 -> -1
                 [] dst_changes /\ t.tm_isdst = 0 -> 1
                 [] OTHER                         -> 0
      hour  == t.tm_hour + shift + 1
  IN  IF t.tm_min + 1 < MinutesPerHour
        THEN [t EXCEPT !.tm_min = @ + 1]
        ELSE [t EXCEPT !.tm_min = 0,
                       !.tm_hour = IF hour = HoursPerDay THEN 0 ELSE hour,
                       !.day = IF hour = HoursPerDay THEN @ + 1 ELSE @]

AddMinutes(t, n, dst_changes) ==
  LET after[i \in 0 .. n] ==
        IF i = 0 THEN t ELSE add_minute(after[i - 1], dst_changes)
  IN  after[n]

(***************************************************************************)
(* check_time_sanity()                                                     *)
(***************************************************************************)
LengthStatus(minlen) ==
  IF minlen = -1 \/ minlen > 60 THEN "emin_long"
  ELSE IF minlen < 59 THEN "emin_short" ELSE "emin_ok"

Sane(minlen, b) ==
  /\ LengthStatus(minlen) = "emin_ok"
  /\ b.bit0 = 0 /\ b.bit20 = 1
  /\ b.bit17 # b.bit18

(***************************************************************************)
(* increase_old_time(): how many minutes passed.  The lengths of the parts *)
(* of a split minute are added up until they make a whole minute.          *)
(***************************************************************************)
PartialSum(acc) ==
  IF acc <= 59000 THEN acc_minlen_partial + acc ELSE acc_minlen_partial

Combined(acc) ==
  IF acc <= 59000 /\ PartialSum(acc) >= 60000 THEN PartialSum(acc) ELSE acc

\* Mutant of increase: a complete minute may not be short.
increase_Strict(acc) == Combined(acc) \div 60000

increase(acc) ==
  Combined(acc) \div 60000 + IF Combined(acc) % 60000 > 59000 THEN 1 ELSE 0

\* There is no previous time in the very first (partial) minute.
OldTime(init_min, acc) ==
  IF init_min < 2 THEN AddMinutes(time, increase(acc), dt_res.dst_announce)
  ELSE time

(***************************************************************************)
(* calculate_date_time(): the received values are only taken when time     *)
(* passed, the minute is sane and the group is valid; the others are left  *)
(* zero in newtime.                                                        *)
(***************************************************************************)
Takes(init_min, acc, sane) == (init_min = 2 \/ increase(acc) # 0) /\ sane

GroupOK(ok, takes) == ok = "eval_ok" \/ (ok = "impossible" /\ ~takes)

GroupStatus(ok, takes, jumped) ==
  CASE ok = "impossible"                 -> IF takes THEN "eval_bcd" ELSE "eval_ok"
    [] ok \in {"eval_parity", "eval_bcd"} -> ok
    [] ok = "eval_ok" /\ takes /\ jumped -> "eval_jump"
    [] OTHER                             -> "eval_ok"

CalculateFlags(sane, takes, b) ==
  (IF sane THEN {} ELSE {"sanity"}) \cup
  (IF GroupOK(b.minute_ok, takes) THEN {} ELSE {"minute"}) \cup
  (IF GroupOK(b.hour_ok, takes) THEN {} ELSE {"hour"}) \cup
  (IF GroupOK(b.date_ok, takes) THEN {} ELSE {"date"})

NewTime(takes, b, isdst) ==
  [tm_min |-> IF takes THEN b.minute ELSE 0,
   tm_hour |-> IF takes THEN b.hour ELSE 0,
   day |-> IF takes THEN b.day ELSE 0,
   tm_isdst |-> isdst]

-----------------------------------------------------------------------------
(***************************************************************************)
(* Both announcements: count the valid minutes of the hour that carry the  *)
(* bit and compare them with the valid minutes, except in the minute that  *)
(* ends the hour, in which the last outcome still holds.                   *)
(***************************************************************************)
Counted(n, bit, flags) == IF bit = 1 /\ flags = {} THEN n + 1 ELSE n

Announced(before, n, old, valid) ==
  IF old.tm_min > 0 THEN 2 * n > valid ELSE before

\* Mutant of Restart: counting goes on over the hours.
Restart_Never(n, old) == n

\* The count starts again at the full hour.
Restart(n, old) == IF old.tm_min = 0 THEN 0 ELSE n

(***************************************************************************)
(* handle_leap_second(): an announced leap second makes the last minute of *)
(* the hour 60 bits long; without it a minute of 60 bits is too long.      *)
(***************************************************************************)
handle_leap_second(flags, minlen, b, old, valid) ==
  LET count     == Counted(leap_count, b.bit19, flags)
      announce  == Announced(dt_res.leap_announce, count, old, valid)
      due       == announce /\ old.tm_min = 0
      missing   == due /\ minlen = 59
      spurious  == ~due /\ minlen = 60
  IN  [length   |-> IF missing THEN "emin_short"
                    ELSE IF spurious THEN "emin_long" ELSE LengthStatus(minlen),
       flags    |-> IF missing \/ spurious THEN flags \cup {"leap"} ELSE flags,
       status   |-> IF ~due THEN "els_none"
                    ELSE IF minlen = 60 /\ b.bit59 = 1 THEN "els_one"
                    ELSE "els_done",
       announce |-> announce /\ old.tm_min # 0,
       count    |-> Restart(count, old)]

\* Mutant of OffsetExpected: an error before this minute is no excuse.
OffsetExpected_NoExcuse(due, flags, pair_ok, old) ==
  due \/ (pair_ok /\ old.tm_isdst = -1)

(***************************************************************************)
(* handle_dst(): a different time offset is accepted when it was announced *)
(* and the hour is full, right after an error, and when none is known yet. *)
(***************************************************************************)
OffsetExpected(due, flags, pair_ok, old) ==
  due \/ (olderr /\ flags = {}) \/ (pair_ok /\ old.tm_isdst = -1)

handle_dst(flags, b, old, valid) ==
  LET count    == Counted(dst_count, b.bit16, flags)
      announce == Announced(dt_res.dst_announce, count, old, valid)
      due      == announce /\ old.tm_min = 0
      pair_ok  == b.bit17 # b.bit18
      differs  == b.bit17 # old.tm_isdst \/ b.bit18 = old.tm_isdst
      expected == OffsetExpected(due, flags, pair_ok, old)
  IN  [isdst    |-> IF differs /\ expected THEN b.bit17 ELSE old.tm_isdst,
       flags    |-> IF differs /\ ~expected THEN flags \cup {"dst"} ELSE flags,
       status   |-> IF due THEN "eDST_done"
                    ELSE IF ~pair_ok THEN "eDST_error"
                    ELSE IF differs /\ ~expected THEN "eDST_jump" ELSE "eDST_ok",
       announce |-> announce /\ old.tm_min # 0,
       count    |-> Restart(count, old)]

(***************************************************************************)
(* In the first minute neither is looked at.                               *)
(***************************************************************************)
NoLeap(flags, minlen) ==
  [length |-> LengthStatus(minlen), flags |-> flags,
   status |-> dt_res.leapsecond_status, announce |-> dt_res.leap_announce,
   count |-> leap_count]

NoDST(flags, b) ==
  [isdst |-> -1, flags |-> flags,
   status |-> IF b.bit17 = b.bit18 THEN "eDST_error" ELSE "eDST_ok",
   announce |-> dt_res.dst_announce, count |-> dst_count]

(***************************************************************************)
(* stamp_date_time(): neither a minute with only a DST error nor one with  *)
(* an unexpected offset is refused, the latter keeps the old offset.       *)
(***************************************************************************)
Stamps(length, flags) ==
  length = "emin_ok" /\ flags \subseteq {"leap", "dst"}

Stamped(new, old, status) ==
  IF status = "eDST_jump" THEN [new EXCEPT !.tm_isdst = old.tm_isdst] ELSE new

decode_time(init_min, minlen, acc, b) ==
  LET sane  == Sane(minlen, b)
      takes == Takes(init_min, acc, sane)
      valid == IF sane THEN (minute_count + 1) % MinutesPerHour ELSE minute_count
      old   == IF init_min = 2 THEN [time EXCEPT !.tm_isdst = -1]
               ELSE OldTime(init_min, acc)
      calc  == CalculateFlags(sane, takes, b)
      leap  == IF init_min = 2 THEN NoLeap(calc, minlen)
               ELSE handle_leap_second(calc, minlen, b, old, valid)
      dst   == IF init_min = 2 THEN NoDST(leap.flags, b)
               ELSE handle_dst(leap.flags, b, old, valid)
      new   == NewTime(takes, b, dst.isdst)
      Status(ok, jumped) == GroupStatus(ok, takes, init_min = 0 /\ jumped)
  IN  /\ minute_count' = valid
      /\ leap_count' = leap.count
      /\ dst_count' = dst.count
      /\ acc_minlen_partial' = PartialSum(acc) % 60000
      /\ dt_res' = [minute_length |-> leap.length,
                    bit0_ok |-> b.bit0 = 0, bit20_ok |-> b.bit20 = 1,
                    minute_status |-> Status(b.minute_ok, old.tm_min # b.minute),
                    hour_status |-> Status(b.hour_ok, old.tm_hour # b.hour),
                    date_status |-> Status(b.date_ok, old.day # b.day),
                    dst_status |-> dst.status,
                    leapsecond_status |-> leap.status,
                    dst_announce |-> dst.announce,
                    leap_announce |-> leap.announce]
      /\ fresh' = Stamps(leap.length, dst.flags)
      /\ time' = IF fresh' THEN Stamped(new, old, dst.status) ELSE old
      /\ olderr' = (dst.flags # {})
=============================================================================
