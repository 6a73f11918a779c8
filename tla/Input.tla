------------------------------- MODULE Input -------------------------------
(***************************************************************************)
(* The receiver side of the library, src/input.c, seen one bit at a time.  *)
(*                                                                         *)
(* Every call of get_bit_live() samples the pin for one period of the      *)
(* signal, classifies it and leaves its verdict in the static gb_res; the  *)
(* value of the bit goes to buffer[bitpos] and the length of the period is *)
(* added to acc_minlen.  next_bit() then moves bitpos and turns the marker *)
(* found by get_bit_live() into the one the main loop acts on.             *)
(*                                                                         *)
(* The low-pass filter and the Schmitt trigger that classify the samples   *)
(* are abstracted to their outcome: which value was recognised, if any,    *)
(* and how long the period was.                                            *)
(***************************************************************************)
EXTENDS Integers

CONSTANTS
  BUFLEN,  \* number of positions in the bit buffer, 60 in the code
  AccMod,  \* acc_minlen is an unsigned int, it wraps here: 2^32 in the code
  Second,  \* nominal length of one second, 1000 ms in the code
  Spans    \* the lengths a period between two rising edges can have

ASSUME InputAssumption ==
  /\ BUFLEN \in Nat \ {0}
  /\ AccMod \in Nat \ {0}
  /\ Second \in Nat \ {0}
  /\ Spans \subseteq Nat

VARIABLES
  gb_res,      \* verdict on the current bit (struct GB_result)
  bitpos,      \* second of the minute, index in buffer
  dec_bp,      \* pending decrease of bitpos, only moved by log file input
  buffer,      \* the bits of the minute, a bad bit keeps the old value
  acc_minlen   \* accumulated length of the minute

inputVars == <<gb_res, bitpos, dec_bp, buffer, acc_minlen>>

(***************************************************************************)
(* enum eGB_bitvalue, with the numbers C gives its members.                *)
(***************************************************************************)
ebv_0    == 0
ebv_1    == 1
ebv_none == 2

BitValues == {ebv_0, ebv_1, ebv_none}
Markers   == {"emark_none", "emark_minute", "emark_toolong", "emark_late"}
HwStats   == {"ehw_ok", "ehw_transmit", "ehw_receive", "ehw_random"}
Positions == 0 .. BUFLEN - 1

GB_result == [bad_io : BOOLEAN, done : BOOLEAN, bitval : BitValues,
              marker : Markers, hwstat : HwStats, skip : BOOLEAN]

\* The markers that end a minute.
EndMarkers == {"emark_minute", "emark_late"}

InputTypeOK ==
  /\ gb_res \in GB_result
  /\ bitpos \in Positions
  /\ dec_bp \in 0 .. 2
  /\ buffer \in [Positions -> {ebv_0, ebv_1}]
  /\ acc_minlen \in 0 .. AccMod - 1

\* The statics start zeroed.
InputInit ==
  /\ gb_res = [bad_io |-> FALSE, done |-> FALSE, bitval |-> ebv_0,
               marker |-> "emark_none", hwstat |-> "ehw_ok", skip |-> FALSE]
  /\ bitpos = 0
  /\ dec_bp = 0
  /\ buffer = [i \in Positions |-> 0]
  /\ acc_minlen = 0

(***************************************************************************)
(* set_new_state(): forget the verdict on the previous bit.  The two       *)
(* overflow markers survive, so that next_bit() can tell that the buffer   *)
(* fits again and a minute marker can be recognised as late.               *)
(***************************************************************************)
NewState ==
  [bad_io |-> FALSE, done |-> FALSE, bitval |-> ebv_none,
   marker |-> IF gb_res.marker \in {"emark_toolong", "emark_late"}
                THEN gb_res.marker ELSE "emark_none",
   hwstat |-> "ehw_ok", skip |-> FALSE]

(***************************************************************************)
(* The marker after a period longer than 3/2 second.  Two in a row means   *)
(* that something is wrong: the second one does not end a minute.          *)
(***************************************************************************)
NewMinuteMarker(is_eom, m) ==
  CASE is_eom  /\ m = "emark_minute"  -> "emark_none"
    [] is_eom  /\ m = "emark_late"    -> "emark_toolong"
    [] ~is_eom /\ m = "emark_none"    -> "emark_minute"
    [] ~is_eom /\ m = "emark_toolong" -> "emark_late"
    [] OTHER                          -> m

Accumulate(span) == acc_minlen' = (acc_minlen + span) % AccMod

(***************************************************************************)
(* get_bit_live() when the signal rises again after a period of length     *)
(* span, with value v; ebv_none is a pulse too wide for a one, for which   *)
(* the buffer retains its old value.                                       *)
(***************************************************************************)
LiveBit(v, span) ==
  LET newminute == 2 * span > 3 * Second
      is_eom    == gb_res.marker \in EndMarkers
  IN  /\ gb_res' = [NewState EXCEPT
                      !.bitval = v,
                      !.marker = IF newminute THEN NewMinuteMarker(is_eom, @)
                                              ELSE @]
      /\ buffer' = IF v = ebv_none THEN buffer
                                   ELSE [buffer EXCEPT ![bitpos] = v]
      /\ Accumulate(span)
      /\ UNCHANGED <<bitpos, dec_bp>>

(***************************************************************************)
(* get_bit_live() when two seconds pass without a second edge: the sample  *)
(* loop ends, the frequency is reset and the bit has no value.  The test   *)
(* that would tell a receiver from a transmitter error compares samples    *)
(* with micro-samples and is never true, so the status is always random.   *)
(***************************************************************************)
LiveTimeout ==
  /\ gb_res' = [NewState EXCEPT !.hwstat = "ehw_random"]
  /\ Accumulate(2 * Second)
  /\ UNCHANGED <<bitpos, dec_bp, buffer>>

\* get_bit_live() when reading the pin fails after a time span.
LiveBadIO(span) ==
  /\ gb_res' = [NewState EXCEPT !.bad_io = TRUE]
  /\ Accumulate(span)
  /\ UNCHANGED <<bitpos, dec_bp, buffer>>

(***************************************************************************)
(* next_bit(): move to the next position, wrap at the end of the minute or *)
(* of the buffer, and settle the marker.                                   *)
(***************************************************************************)
NextPosition ==
  LET here == IF dec_bp = 1 THEN bitpos - 1 ELSE bitpos
  IN  IF gb_res.marker \in EndMarkers THEN 0
      ELSE IF gb_res.skip THEN here ELSE here + 1

\* Mutant of NextMarker: a late marker is passed on as it is.
NextMarker_KeepsLate ==
  IF NextPosition = BUFLEN THEN "emark_toolong"
  ELSE IF gb_res.marker = "emark_toolong" THEN "emark_none" ELSE gb_res.marker

NextMarker ==
  IF NextPosition = BUFLEN THEN "emark_toolong"
  ELSE CASE gb_res.marker = "emark_toolong" -> "emark_none"   \* fits again
         [] gb_res.marker = "emark_late"    -> "emark_minute"
         [] OTHER                           -> gb_res.marker

\* Mutant of next_bit: the position is not wrapped when the buffer is full.
next_bit_NoWrap ==
  /\ bitpos' = NextPosition
  /\ dec_bp' = IF gb_res.marker \in EndMarkers THEN 0
               ELSE IF dec_bp = 1 THEN 2 ELSE dec_bp
  /\ gb_res' = [gb_res EXCEPT !.marker = NextMarker]
  /\ UNCHANGED <<buffer, acc_minlen>>

next_bit ==
  /\ bitpos' = IF NextPosition = BUFLEN THEN 0 ELSE NextPosition
  /\ dec_bp' = IF gb_res.marker \in EndMarkers THEN 0
               ELSE IF dec_bp = 1 THEN 2 ELSE dec_bp
  /\ gb_res' = [gb_res EXCEPT !.marker = NextMarker]
  /\ UNCHANGED <<buffer, acc_minlen>>

reset_acc_minlen == acc_minlen' = 0
=============================================================================
