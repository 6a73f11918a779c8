--------------------------- MODULE MinuteDecoder ---------------------------
(***************************************************************************)
(* decode_time() fed with the minutes of a transmitter, as the main loop   *)
(* calls it, and what the daemon and setclock() make of the result.        *)
(*                                                                         *)
(* The transmitter is external.  It keeps legal time, changes its offset   *)
(* and inserts leap seconds at the end of an hour in which it announced    *)
(* so, and sends in each minute the time that the next marker stands for.  *)
(*                                                                         *)
(* What reaches decode_time() is the signal between two recognised end of  *)
(* minute markers: one minute, possibly with bits lost, added or misread;  *)
(* all the minutes of an outage as one piece, when markers were missed; or *)
(* a fragment of a minute, when a gap in the signal was taken for a        *)
(* marker.                                                                 *)
(***************************************************************************)
EXTENDS DecodeTime

CONSTANTS
  Jitters,    \* milliseconds that rounding and a short last second may lose
  Misreads,   \* the bits and groups that can be misread
  Cuts,       \* where in a minute, in ms, a false marker can be
  StartHours, \* hours in which the reception can start
  MaxOutage,  \* bound on the number of markers missed on end
  MaxMinutes, \* bound on the number of minutes sent
  MaxFaults   \* bound on the number of faults of the reception

\* A group whose bad bits keep the value that they had in the last minute.
Stale == {"old_minute", "old_hour"}

ASSUME ReceptionAssumption ==
  /\ MinutesPerHour > 2 /\ HoursPerDay > 3
  /\ \A j \in Jitters : j \in Nat /\ j < 500
  /\ Misreads \subseteq {"bit0", "pair", "bit16", "bit19", "minute", "hour",
                         "date", "impossible"} \cup Stale
  /\ \A cut \in Cuts : cut \in Nat /\ 0 < cut /\ cut <= 58000
  /\ StartHours \subseteq 0 .. HoursPerDay - 1
  /\ MaxOutage \in Nat /\ MaxOutage < 71581  \* acc_minlen is below 2^32 ms
  /\ MaxMinutes \in Nat /\ MaxFaults \in Nat

VARIABLES
  init_min,   \* mainloop()'s init_min
  truth,      \* legal time at the last minute mark
  dst_due,    \* the offset changes at the end of this hour
  leap_due,   \* a leap second is inserted at the end of this hour
  kept,       \* the minute and hour in the buffer of input.c, or Unknown
  phase,      \* where in its minute the last piece of signal ended, in ms
  missed,     \* number of markers missed since then
  leapt,      \* a leap second was inserted in the minutes that passed
  minutes,    \* number of minutes sent
  faults,     \* number of faults of the reception
  published,  \* the daemon published the time of this call
  settable,   \* setclock_ok() allowed to set the clock in this call
  steady,     \* history: stamped once, and no fragment since
  sure,       \* history: and every change of the offset since was foreseen
  astray,     \* history: this minute had a kept group, the decoder was not on time
  good,       \* history: number of minutes without any error up to now
  valid       \* history: sane minutes in this hour

transmitterVars == <<truth, dst_due, leap_due, minutes>>
receptionVars   == <<kept, phase, missed, leapt, faults>>
resultVars      == <<published, settable>>
historyVars     == <<steady, sure, astray, good, valid>>
vars == <<decoderVars, init_min, transmitterVars, receptionVars, resultVars,
          historyVars>>

-----------------------------------------------------------------------------
(***************************************************************************)
(* The transmitter.                                                        *)
(***************************************************************************)
LastOfHour(t) == t.tm_min = MinutesPerHour - 1

\* Summer time starts at the end of hour 1 and ends at the end of hour 2.
MayChange(t) == t.tm_hour = 1 + t.tm_isdst
\* Leap seconds are at the end of hour 0, which is hour 1 in summer time.
MayLeap(t)   == t.tm_hour = t.tm_isdst

NextHour(t) ==
  LET hour == IF ~dst_due THEN t.tm_hour + 1
              ELSE IF t.tm_isdst = 0 THEN t.tm_hour + 2 ELSE t.tm_hour
  IN  [tm_min   |-> 0,
       tm_hour  |-> hour % HoursPerDay,
       day      |-> t.day + hour \div HoursPerDay,
       tm_isdst |-> IF dst_due THEN 1 - t.tm_isdst ELSE t.tm_isdst]

Tick(t) == IF LastOfHour(t) THEN NextHour(t) ELSE [t EXCEPT !.tm_min = @ + 1]

\* The minute that ends has a leap second.
LeapMinute == leap_due /\ LastOfHour(truth)

\* A minute passes; the transmitter plans the hour it enters.  There are
\* never two leap seconds in one outage.
Pass ==
  /\ minutes < MaxMinutes
  /\ minutes' = minutes + 1
  /\ truth' = Tick(truth)
  /\ IF LastOfHour(truth)
       THEN /\ dst_due' \in IF MayChange(truth') THEN BOOLEAN ELSE {FALSE}
            /\ leap_due' \in IF MayLeap(truth') /\ ~leapt' THEN BOOLEAN
                                                           ELSE {FALSE}
       ELSE UNCHANGED <<dst_due, leap_due>>

\* The time since the last piece of signal when n minutes passed since.
Elapsed(n) == 60000 * n - phase + IF leapt \/ (n > missed /\ LeapMinute)
                                    THEN 1000 ELSE 0

\* What is measured of it up to the marker.
Left == {Elapsed(missed + 1) - j : j \in Jitters}

Fault(happens) ==
  /\ happens => faults < MaxFaults
  /\ faults' = IF happens THEN faults + 1 ELSE faults

Bit(p) == IF p THEN 1 ELSE 0

\* No value of this group is in the buffer as a whole.
Unknown == -1
Nothing == [minute |-> Unknown, hour |-> Unknown]

\* What a minute with error e leaves in the buffer.
Kept(e) ==
  [minute |-> CASE e = "minute"     -> Unknown
                [] e = "old_minute" -> kept.minute
                [] OTHER            -> truth'.tm_min,
   hour   |-> CASE e = "hour"     -> Unknown
                [] e = "old_hour" -> kept.hour
                [] OTHER          -> truth'.tm_hour]

\* Only a group that is in the buffer can be taken for that of this minute.
Possible(e) ==
  CASE e = "old_minute" -> kept.minute # Unknown
    [] e = "old_hour"   -> kept.hour # Unknown
    [] OTHER            -> TRUE

(***************************************************************************)
(* The bits that announce the time truth', with at most one error.         *)
(***************************************************************************)
Bits(e) ==
  LET Verdict(group) == IF e = group THEN "eval_parity" ELSE "eval_ok"
  IN  [bit0 |-> Bit(e = "bit0"), bit20 |-> 1, bit59 |-> 0,
       bit16 |-> Bit(dst_due # (e = "bit16")),
       bit19 |-> Bit(leap_due # (e = "bit19")),
       bit17 |-> IF e = "pair" THEN 1 - truth'.tm_isdst ELSE truth'.tm_isdst,
       bit18 |-> 1 - truth'.tm_isdst,
       minute |-> IF e = "old_minute" THEN kept.minute ELSE truth'.tm_min,
       hour |-> IF e = "old_hour" THEN kept.hour ELSE truth'.tm_hour,
       day |-> truth'.day,
       minute_ok |-> Verdict("minute"), hour_ok |-> Verdict("hour"),
       date_ok |-> IF e = "impossible" THEN e ELSE Verdict("date")]

-----------------------------------------------------------------------------
(***************************************************************************)
(* What becomes of the decoded time.                                       *)
(***************************************************************************)

\* display_time() of the daemon: publish unless the result shows an error.
Publishable(dt) ==
  /\ dt.minute_length = "emin_ok" /\ dt.bit0_ok /\ dt.bit20_ok
  /\ dt.dst_status # "eDST_error"
  /\ {dt.minute_status, dt.hour_status, dt.date_status}
       \cap {"eval_parity", "eval_bcd"} = {}

\* Mutant of setclock_dt_ok: a time that jumped will do.
setclock_dt_ok_Jump(dt) ==
  /\ dt.minute_length = "emin_ok" /\ dt.bit0_ok /\ dt.bit20_ok
  /\ {dt.minute_status, dt.hour_status, dt.date_status}
       \subseteq {"eval_ok", "eval_jump"}
  /\ dt.dst_status \in {"eDST_ok", "eDST_done"}
  /\ dt.leapsecond_status # "els_one"

\* The part of setclock_ok() that looks at the result of decode_time().
setclock_dt_ok(dt) ==
  /\ dt.minute_length = "emin_ok" /\ dt.bit0_ok /\ dt.bit20_ok
  /\ {dt.minute_status, dt.hour_status, dt.date_status} = {"eval_ok"}
  /\ dt.dst_status \in {"eDST_ok", "eDST_done"}
  /\ dt.leapsecond_status # "els_one"

(***************************************************************************)
(* check_handle_new_minute(): decode, show, decide whether to set the      *)
(* clock.                                                                  *)
(***************************************************************************)
Handle(minlen, acc, b) ==
  /\ decode_time(init_min, minlen, acc, b)
  /\ published' = Publishable(dt_res')
  /\ settable' = (init_min = 0 /\ setclock_dt_ok(dt_res'))
  /\ init_min' = IF init_min > 0 THEN init_min - 1 ELSE init_min

\* The decoder and the transmitter agree on what happens at the full hour.
Foreseen ==
  truth'.tm_min < truth.tm_min =>
    /\ dt_res.dst_announce = dst_due
    /\ dst_due => time.tm_isdst = truth.tm_isdst

Record(fragment, flawless, stale) ==
  /\ steady' = IF fresh' THEN ~stale ELSE steady /\ ~fragment
  /\ sure' = IF fresh' THEN ~stale ELSE sure /\ Foreseen
  /\ astray' = (stale /\ ~(steady /\ sure /\ Foreseen))
  /\ good' = IF ~flawless THEN 0
             ELSE IF good < MinutesPerHour + 3 THEN good + 1 ELSE good
  /\ valid' = IF truth'.tm_min < truth.tm_min THEN 0
              ELSE IF minute_count' # minute_count THEN valid + 1 ELSE valid

\* The next piece of signal begins.
NewPiece == missed' = 0 /\ leapt' = FALSE

-----------------------------------------------------------------------------
Init ==
  /\ DecodeTimeInit
  /\ init_min = 2
  /\ truth \in [tm_min : 0 .. MinutesPerHour - 1, tm_hour : StartHours,
                day : {1}, tm_isdst : {0, 1}]
  /\ dst_due \in IF MayChange(truth) THEN BOOLEAN ELSE {FALSE}
  /\ leap_due \in IF MayLeap(truth) THEN BOOLEAN ELSE {FALSE}
  /\ kept = Nothing
  /\ phase \in Cuts \cup {0} /\ missed = 0 /\ leapt = FALSE
  /\ minutes = 0 /\ faults = 0
  /\ published = FALSE /\ settable = FALSE
  /\ steady = FALSE /\ sure = FALSE /\ astray = FALSE
  /\ good = 0 /\ valid = 0

\* A minute from marker to marker, with the right number of bits.
WholeMinute ==
  /\ phase = 0 /\ missed = 0
  /\ NewPiece /\ Pass
  /\ \E e \in Misreads \cup {"none"} :
       /\ Fault(e # "none") /\ Possible(e)
       /\ \E minlen \in {IF LeapMinute THEN 60 ELSE 59},
            acc \in Left, b \in {Bits(e)} : Handle(minlen, acc, b)
       /\ kept' = Kept(e)
       /\ Record(FALSE, e = "none", e \in Stale)
  /\ UNCHANGED phase

\* A minute from marker to marker, with one bit too few or too many.
MiscountedMinute ==
  /\ phase = 0 /\ missed = 0
  /\ NewPiece /\ Pass /\ Fault(TRUE)
  /\ ~LeapMinute
  /\ \E minlen \in {58, 60}, acc \in Left, b \in {Bits("none")} :
       Handle(minlen, acc, b)
  /\ kept' = Nothing
  /\ Record(FALSE, FALSE, FALSE)
  /\ UNCHANGED phase

\* The end of a minute of which only a part was received.
RestOfMinute ==
  /\ phase > 0 /\ missed = 0
  /\ NewPiece /\ Pass /\ Fault(FALSE)
  /\ \E acc \in Left, b \in {Bits("none")} : Handle(58, acc, b)
  /\ phase' = 0 /\ kept' = Nothing
  /\ Record(FALSE, FALSE, FALSE)

\* A marker of the transmitter is missed: decode_time() is not called.
MissMarker ==
  /\ missed < MaxOutage
  /\ missed' = missed + 1 /\ leapt' = (leapt \/ LeapMinute)
  /\ Pass /\ Fault(missed = 0)
  /\ published' = FALSE /\ settable' = FALSE
  /\ kept' = Nothing
  /\ sure' = (sure /\ Foreseen)
  /\ astray' = FALSE /\ good' = 0
  /\ valid' = IF LastOfHour(truth) THEN 0 ELSE valid
  /\ UNCHANGED <<decoderVars, init_min, phase, steady>>

\* The first marker after that ends all the minutes that passed at once,
\* whose bits may have overflowed the buffer.
FindMarker ==
  /\ missed > 0
  /\ NewPiece /\ Pass /\ Fault(FALSE)
  /\ \E minlen \in {-1, 58}, acc \in Left, b \in {Bits("none")} :
       Handle(minlen, acc, b)
  /\ phase' = 0 /\ kept' = Nothing
  /\ Record(FALSE, FALSE, FALSE)

\* A gap in the signal is taken for a marker.
FalseMarker ==
  /\ Fault(TRUE)
  /\ NewPiece
  /\ \E cut \in Cuts :
       /\ phase < cut \/ missed > 0
       /\ phase' = cut
       /\ UNCHANGED transmitterVars
       /\ kept' = Nothing
       /\ \E minlen \in IF missed > 0 THEN {-1, 58} ELSE {58},
            b \in {Bits("none")} : Handle(minlen, Elapsed(missed) + cut, b)
  /\ Record(TRUE, FALSE, FALSE)

Next ==
  \/ WholeMinute
  \/ MiscountedMinute
  \/ RestOfMinute
  \/ MissMarker
  \/ FindMarker
  \/ FalseMarker

Spec == Init /\ [][Next]_vars
-----------------------------------------------------------------------------
(***************************************************************************)
(* Properties                                                              *)
(***************************************************************************)

\* Every variable has its type.
TypeOK ==
  /\ DecodeTimeTypeOK
  /\ init_min \in 0 .. 2
  /\ truth \in Time /\ truth.tm_isdst \in {0, 1}
  /\ dst_due \in BOOLEAN /\ leap_due \in BOOLEAN
  /\ kept \in [minute : {Unknown} \cup 0 .. MinutesPerHour - 1,
               hour : {Unknown} \cup 0 .. HoursPerDay - 1]
  /\ phase \in Cuts \cup {0}
  /\ missed \in 0 .. MaxOutage /\ leapt \in BOOLEAN
  /\ minutes \in 0 .. MaxMinutes /\ faults \in 0 .. MaxFaults
  /\ published \in BOOLEAN /\ settable \in BOOLEAN
  /\ steady \in BOOLEAN /\ sure \in BOOLEAN /\ astray \in BOOLEAN
  /\ good \in 0 .. MinutesPerHour + 3 /\ valid \in 0 .. MinutesPerHour

SameMinute(s, t) == s.tm_min = t.tm_min
SameHour(s, t)   == s.tm_hour = t.tm_hour /\ s.day = t.day
SameTime(s, t)   == SameMinute(s, t) /\ SameHour(s, t)

(***************************************************************************)
(* Once a time was received, the decoder has it right at each marker that  *)
(* it finds, whatever errors there were in the minutes since and however   *)
(* many markers were missed, as long as no minute is split: it counts the  *)
(* minutes that passed.  The hour and the date are right as well, unless a *)
(* change of the offset takes the decoder by surprise or is announced by   *)
(* mistake at a full hour that passed.  In an outage an announcement is    *)
(* applied at every full hour (decode_time.c:103), so a right one is       *)
(* mistaken for the hour after.  A group that was kept from an earlier     *)
(* minute has no error to find; the decoder follows it.                    *)
(***************************************************************************)
OnTime ==
  steady /\ missed = 0 =>
    /\ SameMinute(time, truth)
    /\ sure => SameHour(time, truth)

(***************************************************************************)
(* A time that may be put into the system clock is the legal time with its *)
(* offset, for what was received must agree with what the decoder expects. *)
(* A minute or an hour that bad bits kept from an earlier minute passes    *)
(* parity, so it takes a decoder that is on time to notice the jump.  One  *)
(* that is not can be led astray: it lost a minute, fell for a false       *)
(* announcement, or took over the kept value the minute before.  The other *)
(* exception is a change of the offset in a minute whose bits for it       *)
(* contradict each other: its time is not taken from the signal at all.    *)
(***************************************************************************)
SettableRight ==
  settable => \/ fresh /\ time = truth
              \/ astray
              \/ ~fresh /\ dt_res.dst_status = "eDST_done"

(***************************************************************************)
(* Whatever was received before, after three minutes without error the     *)
(* time and its offset are right.  Only the first minute of an hour is     *)
(* left out: announcements take effect there, and a missed or a false one, *)
(* left from the bad minutes before, can make it fail.                     *)
(***************************************************************************)
Resynchronised ==
  good >= 3 => /\ SameMinute(time, truth)
               /\ truth.tm_min = 0 \/ time = truth

(***************************************************************************)
(* After an hour and three minutes without errors each further minute is   *)
(* good enough to set the clock, also the ones in which the offset changes *)
(* or a leap second is inserted: no announcement is missed and none is     *)
(* left over.                                                              *)
(***************************************************************************)
GoodHourSettable == good = MinutesPerHour + 3 => settable

-----------------------------------------------------------------------------
(***************************************************************************)
(* Documented, but not so.                                                 *)
(***************************************************************************)

(***************************************************************************)
(* The README of the daemon lists inconsistent flag bits (dst_error) under *)
(* the errors that make a minute fail.  A published time would then always *)
(* come from a minute that passed the checks.                              *)
(***************************************************************************)
PublishedFresh == published => fresh

(***************************************************************************)
(* The changes of version 3.7.0 let an announcement of a leap second count *)
(* when at least half of the valid minutes of the hour carry it.           *)
(***************************************************************************)
LeapSupported == dt_res.leap_announce => 2 * leap_count >= valid

(***************************************************************************)
(* handle_dst() means to always clear the announcement at the full hour,   *)
(* so that reception errors do not keep it set.  A decoder that has the    *)
(* time right and is past the full hour would then not announce a change   *)
(* that it has behind it.  The first valid minute since the start is left  *)
(* out: the next one outvotes it.                                          *)
(***************************************************************************)
AnnouncementCleared ==
  steady /\ missed = 0 /\ SameTime(time, truth) /\ truth.tm_min > 0
    /\ minute_count > 1 /\ dt_res.dst_announce => dst_due

(***************************************************************************)
(* increase_old_time() claims to combine split minutes.  The minute would  *)
(* then be right at each true marker, once it was known.                   *)
(***************************************************************************)
SplitCombined ==
  init_min < 2 /\ time.day > 0 /\ phase = 0 /\ missed = 0 =>
    SameMinute(time, truth)
=============================================================================
