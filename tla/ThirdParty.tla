----------------------------- MODULE ThirdParty -----------------------------
(***************************************************************************)
(* The third party data, src/bits1to14.c, and its use in src/mainloop.c.   *)
(*                                                                         *)
(* Seconds 1 to 14 of three minutes, the first of which is divisible by 3, *)
(* carry 2 bits of type and 40 bits of data.  Each bit is stored as it is  *)
(* received, at a place that depends on bitpos and on the minute that the  *)
(* decoder believes it is; what is stored is shown when the decoder        *)
(* believes that a new cycle of three minutes begins.                      *)
(*                                                                         *)
(* The sender and the receiver step through their seconds together.  Their *)
(* seconds and minutes differ after reception starts and after an end of   *)
(* minute was missed or one was received that is none.  The contents of    *)
(* the bits of data do not matter, so a place of the buffer holds where    *)
(* its bit comes from.                                                     *)
(***************************************************************************)
EXTENDS Integers, FiniteSets

CONSTANTS
  Lossy,         \* seconds whose bit can be lost
  MaxFaults      \* bound on the faults of the reception

ASSUME ThirdPartyAssumption ==
  /\ Lossy \subseteq 1 .. 14
  /\ MaxFaults \in Nat

VARIABLES
  minute, second,   \* of the sender: minute modulo 3, 15 for later seconds
  type_sent,        \* the bits of type of the cycle, in seconds 1 and 8
  bitpos,           \* of the receiver, 15 for later ones
  tm_min,           \* curtime.tm_min modulo 3
  init_min,         \* 2, 1, 0: minutes left until the decoder is initialised
  tpbuf,            \* the buffer
  tpstat,           \* the bits of type
  tptype,           \* the type of the contents
  shown,            \* the buffer has just been shown
  framed,           \* history: this minute is received from its first second
  got,              \* history: minutes of this cycle received in the right place
  lost,             \* history: bits of this cycle that were lost
  faults            \* history: number of faults

senderVars  == <<minute, second, type_sent>>
bufferVars  == <<tpbuf, tpstat, tptype>>
decodedVars == <<tm_min, init_min>>
vars == <<senderVars, bitpos, decodedVars, bufferVars, shown, framed, got, lost,
          faults>>

TPBUFLEN == 40
Places   == 0 .. TPBUFLEN - 1
Minutes  == 0 .. 2
LastSecond == 15
Seconds  == 0 .. LastSecond

\* What a place holds: 0, a bit of an earlier cycle, or one of this cycle.
Zero == [from |-> "none"]
Old  == [from |-> "old"]
BitOf(m, s) == [from |-> "now", minute |-> m, second |-> s]
Bits == {Zero, Old} \cup {BitOf(m, s) : m \in Minutes, s \in Seconds}

TypeOK ==
  /\ minute \in Minutes /\ second \in Seconds
  /\ type_sent \in [{1, 8} -> {0, 1}]
  /\ bitpos \in Seconds
  /\ tm_min \in Minutes /\ init_min \in 0 .. 2
  /\ tpbuf \in [Places -> Bits]
  /\ tpstat \in 0 .. 3
  /\ tptype \in {"unknown", "weather", "alarm"}
  /\ shown \in BOOLEAN /\ framed \in BOOLEAN
  /\ got \subseteq Minutes /\ lost \subseteq Minutes \X Lossy
  /\ faults \in 0 .. MaxFaults

\* Reception starts at any time.
Init ==
  /\ minute \in Minutes /\ second \in {0, 1, 7, LastSecond}
  /\ type_sent \in [{1, 8} -> {0, 1}]
  /\ bitpos = 0
  /\ tm_min = 0 /\ init_min = 2
  /\ tpbuf = [i \in Places |-> Zero]
  /\ tpstat = 0 /\ tptype = "unknown"
  /\ shown = FALSE /\ framed = FALSE
  /\ got = {} /\ lost = {} /\ faults = 0

-----------------------------------------------------------------------------
(***************************************************************************)
(* fill_thirdparty_buffer(), for the bit that the sender has in second.    *)
(* A bit that was not received is neither 0 nor 1 and counts as 0.         *)
(***************************************************************************)
Type(stat) == CASE stat = 0 -> "weather" [] stat = 3 -> "alarm" [] OTHER -> "unknown"

\* Mutant of Place: the gap of second 8 is forgotten.
Place_NoGap(m) ==
  CASE m = 0 /\ bitpos \in (2 .. 7) \cup (9 .. 14) -> {bitpos - 2}
    [] m = 1 /\ bitpos \in 1 .. 14 -> {bitpos + 11}
    [] m = 2 /\ bitpos \in 1 .. 14 -> {bitpos + 25}
    [] OTHER -> {}

\* The place of a bit, if it has one.
Place(m) ==
  CASE m = 0 /\ bitpos \in 2 .. 7  -> {bitpos - 2}
    [] m = 0 /\ bitpos \in 9 .. 14 -> {bitpos - 3}
    [] m = 1 /\ bitpos \in 1 .. 14 -> {bitpos + 11}
    [] m = 2 /\ bitpos \in 1 .. 14 -> {bitpos + 25}
    [] OTHER -> {}

\* What later seconds send is of no interest here, and 0.
BitVal(bit_lost) ==
  IF minute = 0 /\ second \in {1, 8} /\ ~bit_lost THEN type_sent[second] ELSE 0

fill_thirdparty_buffer(buf, bit_lost) ==
  /\ tpbuf' = [i \in Places |->
       IF i \notin Place(tm_min) THEN buf[i]
       ELSE IF bit_lost THEN Zero ELSE BitOf(minute, second)]
  /\ IF tm_min = 0 /\ bitpos = 1
       THEN tpstat' = 2 * BitVal(bit_lost) /\ UNCHANGED tptype
     ELSE IF tm_min = 0 /\ bitpos = 8
       THEN \E stat \in {IF BitVal(bit_lost) = 1 THEN tpstat + 1 ELSE tpstat} :
              tpstat' = stat /\ tptype' = Type(stat)
     ELSE UNCHANGED <<tpstat, tptype>>

-----------------------------------------------------------------------------
Later(s) == IF s = LastSecond THEN s ELSE s + 1

\* Once a new cycle has begun, the bits of the last one are old.
Aged == [i \in Places |-> IF tpbuf[i].from = "now" THEN Old ELSE tpbuf[i]]
NewCycle == minute = 0 /\ second = 0

(***************************************************************************)
(* A turn of the main loop that receives a bit within a minute.            *)
(***************************************************************************)
Second ==
  /\ second < LastSecond \/ bitpos < LastSecond
  /\ second' = Later(second)
  /\ bitpos' = Later(bitpos)
  /\ \E bit_lost \in IF second \in Lossy /\ faults < MaxFaults THEN BOOLEAN
                                                               ELSE {FALSE} :
       /\ faults' = IF bit_lost THEN faults + 1 ELSE faults
       /\ lost' = (IF NewCycle THEN {} ELSE lost)
                    \cup (IF bit_lost THEN {<<minute, second>>} ELSE {})
       /\ \E buf \in {IF NewCycle THEN Aged ELSE tpbuf} :
            IF init_min < 2
              THEN fill_thirdparty_buffer(buf, bit_lost)
              ELSE tpbuf' = buf /\ UNCHANGED <<tpstat, tptype>>
  /\ type_sent' \in IF NewCycle THEN [{1, 8} -> {0, 1}] ELSE {type_sent}
  /\ got' = IF NewCycle THEN {} ELSE got
  /\ shown' = FALSE
  /\ UNCHANGED <<minute, decodedVars, framed>>

\* Mutant of AddMinutes: the minute does not start again at 0.
AddMinutes_NoWrap(n) == tm_min + n

\* add_minute(); 60 is divisible by 3.
AddMinutes(n) == (tm_min + n) % 3

\* Mutant of HandleMinute: the minute that has ended decides.
HandleMinute_Before(min) ==
  /\ tm_min' = min
  /\ shown' = (tm_min = 0 /\ init_min = 0)
  /\ init_min' = IF init_min > 0 THEN init_min - 1 ELSE 0
  /\ bitpos' = 0

(***************************************************************************)
(* check_handle_new_minute(), for a minute after which decode_time() lets  *)
(* curtime.tm_min be min.                                                  *)
(***************************************************************************)
HandleMinute(min) ==
  /\ tm_min' = min
  /\ shown' = (tm_min' = 0 /\ init_min = 0)
  /\ init_min' = IF init_min > 0 THEN init_min - 1 ELSE 0
  /\ bitpos' = 0

SendMinute ==
  /\ second = LastSecond
  /\ second' = 0
  /\ minute' = (minute + 1) % 3
  /\ UNCHANGED type_sent

NoticeEnd ==
  /\ SendMinute
  /\ got' = IF framed /\ tm_min = minute THEN got \cup {minute} ELSE got
  /\ framed' = TRUE
  /\ UNCHANGED <<bufferVars, lost>>

(***************************************************************************)
(* The receiver notices the end of a minute.  It takes the time from a     *)
(* minute that it received whole and without errors, or increases it.      *)
(* After a part of a minute it may believe anything: it increases the time *)
(* by what it takes for minutes, or finds a time in the buffer, of which a *)
(* part is that of an earlier minute.                                      *)
(***************************************************************************)
EndOfMinute ==
  /\ NoticeEnd
  /\ \/ framed /\ HandleMinute((minute + 1) % 3)
     \/ framed /\ HandleMinute(AddMinutes(1))
     \/ ~framed /\ \E min \in Minutes : HandleMinute(min)
  /\ UNCHANGED faults

(***************************************************************************)
(* The same after a whole minute in which the bits that differ from an     *)
(* earlier one are bad: get_bit_live() leaves the old values in the        *)
(* buffer, their parity is good, and decode_time() takes the minute from   *)
(* them.                                                                   *)
(***************************************************************************)
StaleMinute ==
  /\ framed /\ faults < MaxFaults
  /\ faults' = faults + 1
  /\ NoticeEnd
  /\ \E min \in Minutes : HandleMinute(min)

\* The receiver does not notice the end of a minute.
MissedEnd ==
  /\ faults < MaxFaults
  /\ faults' = faults + 1
  /\ SendMinute
  /\ framed' = FALSE
  /\ shown' = FALSE
  /\ UNCHANGED <<bitpos, decodedVars, bufferVars, got, lost>>

\* It notices one that is none, or finds that a minute is too long.
FalseEnd ==
  /\ faults < MaxFaults
  /\ faults' = faults + 1
  /\ \E min \in Minutes : HandleMinute(min)
  /\ framed' = FALSE
  /\ UNCHANGED <<senderVars, bufferVars, got, lost>>

Next == Second \/ EndOfMinute \/ StaleMinute \/ MissedEnd \/ FalseEnd

Spec == Init /\ [][Next]_vars
-----------------------------------------------------------------------------
(***************************************************************************)
(* Properties                                                              *)
(***************************************************************************)

\* The bits of data of a cycle, in the order in which they are sent.
IsData(m, s) == s \in 1 .. 14 /\ ~(m = 0 /\ s \in {1, 8})
Rank(m, s) ==
  Cardinality({b \in Minutes \X Seconds : /\ IsData(b[1], b[2])
                                          /\ 15 * b[1] + b[2] < 15 * m + s})

TypeBit(s) == IF <<0, s>> \in lost THEN 0 ELSE type_sent[s]

(***************************************************************************)
(* When the contents are shown after three minutes that were received with *)
(* the right time, the buffer holds exactly the bits that were sent in     *)
(* these minutes, in their order, and the type is theirs.  Nothing in the  *)
(* buffer tells a bit that was lost from one that is 0.  CHANGELOG.md says *)
(* that the buffer is shown only "if it is fully received"; this property  *)
(* cannot, for at the start it is shown after two minutes, and later with  *)
(* what remains of earlier cycles.                                         *)
(***************************************************************************)
ShownRight ==
  shown /\ minute = 0 /\ second = 0 /\ got = Minutes =>
    /\ \A b \in Minutes \X Seconds : IsData(b[1], b[2]) =>
         tpbuf[Rank(b[1], b[2])] = IF b \in lost THEN Zero ELSE BitOf(b[1], b[2])
    /\ tptype = CASE TypeBit(1) = 1 /\ TypeBit(8) = 1 -> "alarm"
                  [] TypeBit(1) = 0 /\ TypeBit(8) = 0 -> "weather"
                  [] OTHER -> "unknown"

(***************************************************************************)
(* Three such minutes are shown as soon as the last one ends, unless the   *)
(* decoder takes what it finds in the buffer for the time just then: with  *)
(* what the minute before announced, tm_min stays what it was, which is    *)
(* not divisible by 3, and the contents are not shown at all.              *)
(***************************************************************************)
ShownInTime ==
  [][(SendMinute /\ minute = 2 /\ got' = Minutes) => shown' \/ StaleMinute]_vars
=============================================================================
