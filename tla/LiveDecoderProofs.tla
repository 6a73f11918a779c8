------------------------- MODULE LiveDecoderProofs -------------------------
(***************************************************************************)
(* Proofs about LiveDecoder, for every buffer length, accumulator width    *)
(* and set of period lengths.                                              *)
(*                                                                         *)
(* None of the properties is inductive by itself: between get_bit() and    *)
(* the end of the turn, the position of the bit, the length of the minute, *)
(* the marker and the history take their new values one after the other.   *)
(* IInv says, stage by stage, how far they have come.                      *)
(***************************************************************************)
EXTENDS LiveDecoder, TLAPS

(***************************************************************************)
(* Live input never skips a character of a log file, nor ends.             *)
(***************************************************************************)
LiveInput == dec_bp = 0 /\ ~gb_res.skip /\ ~gb_res.done

\* n bits were heard in this minute; those heard well are in the buffer.
Aligned(n) ==
  /\ minlen # -1 => /\ count = n
                    /\ Framing!Holds(buffer)
  /\ minlen = -1 => count >= BUFLEN

\* The bit at hand is heard, the minute is not yet delivered.
Heard(n) ==
  /\ decoded = NoCall
  /\ Aligned(n)
  /\ minlen = -1 => count = BUFLEN + 1

\* next_bit() moved on from ml_bitpos.
Moved ==
  /\ gb_res.marker # "emark_late"
  /\ gb_res.marker = "emark_none"    => bitpos = ml_bitpos + 1
  /\ gb_res.marker = "emark_minute"  => bitpos = 0
  /\ gb_res.marker = "emark_toolong" => bitpos = 0 /\ ml_bitpos = BUFLEN - 1

Delivered == decoded # NoCall /\ count = 0

AtGetBit ==
  pc = "get_bit" =>
    /\ ~was_toolong
    /\ gb_res.marker # "emark_late"
    /\ gb_res.marker = "emark_minute" <=> decoded # NoCall
    /\ gb_res.marker = "emark_toolong" => minlen = -1
    /\ Aligned(bitpos)

AtBit ==
  pc \in {"process_input", "next_bit"} =>
    /\ ~was_toolong
    /\ gb_res.marker \in {"emark_toolong", "emark_late"} => minlen = -1
    /\ Heard(bitpos + 1)
    /\ pc = "next_bit" => ml_bitpos = bitpos

AtTooLong ==
  pc = "too_long" => ~was_toolong /\ Moved /\ Heard(ml_bitpos + 1)

AtSetMinlen ==
  pc = "set_minlen" =>
    /\ Moved
    /\ was_toolong <=> minlen = -1
    /\ IF was_toolong /\ gb_res.marker = "emark_minute"
         THEN Delivered ELSE Heard(ml_bitpos + 1)

AtNewMinute ==
  pc = "new_minute" =>
    /\ Moved
    /\ CASE gb_res.marker = "emark_minute" ->
              /\ minlen = ml_bitpos + 1
              /\ IF was_toolong THEN Delivered ELSE Heard(minlen)
         [] gb_res.marker = "emark_toolong" ->
              /\ minlen = -1
              /\ decoded = NoCall
              /\ count >= BUFLEN
         [] OTHER -> Heard(bitpos)

\* init_min counts the first two ends of minute down once they are decoded.
Startup ==
  IF Undecoded
    THEN markers > 0 /\ init_min = 3 - markers
    ELSE init_min = IF markers = 3 THEN 0 ELSE 2 - markers

FramingInv == /\ AtGetBit /\ AtBit /\ AtTooLong /\ AtSetMinlen /\ AtNewMinute

IInv == TypeOK /\ LiveInput /\ FramingInv /\ Startup /\ ClockSetSafe

-----------------------------------------------------------------------------
(***************************************************************************)
(* Initially the history is empty and the loop is about to take a bit.     *)
(***************************************************************************)
LEMMA InitIInv == Init => IInv
  <1>1. BUFLEN \in Nat /\ BUFLEN > 0 /\ AccMod \in Nat /\ AccMod > 0
    BY InputAssumption
  <1> SUFFICES ASSUME Init PROVE IInv
    OBVIOUS
  <1> USE <1>1 DEF Init, InputInit, MainloopInit, Positions
  <1>2. TypeOK
    <2>1. InputTypeOK
      BY DEF InputTypeOK, GB_result, BitValues, Markers, HwStats, ebv_0
    <2>2. heard \in [Positions -> BitValues]
      BY DEF BitValues
    <2>3. pc \in Stages /\ minlen \in -1 .. BUFLEN /\ ml_bitpos \in Positions
      BY DEF Stages
    <2>4. decoded \in Calls \cup {NoCall}
      OBVIOUS
    <2>5. init_min \in 0 .. 2 /\ count \in 0 .. BUFLEN + 1 /\ markers \in 0 .. 3
      OBVIOUS
    <2>6. /\ was_toolong \in BOOLEAN /\ quit \in BOOLEAN
          /\ settime \in BOOLEAN /\ clock_set \in BOOLEAN
      OBVIOUS
    <2>7. MainloopTypeOK
      BY <2>2, <2>3, <2>4, <2>5, <2>6, Zenon DEF MainloopTypeOK
    <2> QED
      BY <2>1, <2>7 DEF TypeOK
  <1>3. LiveInput
    BY DEF LiveInput
  <1>4. FramingInv
    BY DEF FramingInv, AtGetBit, AtBit, AtTooLong, AtSetMinlen, AtNewMinute,
           Aligned, Framing!Holds, Framing!Positions, NoCall
  <1>5. Startup /\ ClockSetSafe
    BY DEF Startup, Undecoded, EndMarkers, ClockSetSafe
  <1>6. QED
    BY <1>2, <1>3, <1>4, <1>5 DEF IInv

(***************************************************************************)
(* What the three outcomes of get_bit_live() have in common.               *)
(***************************************************************************)
Received(v) ==
  /\ pc = "get_bit" /\ pc' = "process_input"
  /\ gb_res' \in GB_result
  /\ ~gb_res'.skip /\ ~gb_res'.done
  /\ gb_res.marker \in EndMarkers => gb_res'.marker \notin EndMarkers
  /\ gb_res'.marker \in {"emark_toolong", "emark_late"} =>
       gb_res.marker \in {"emark_toolong", "emark_late"}
  /\ buffer' = IF v = ebv_none THEN buffer ELSE [buffer EXCEPT ![bitpos] = v]
  /\ \E span \in Spans \cup {2 * Second} : Accumulate(span)
  /\ Hear(v, gb_res'.marker \in EndMarkers)
  /\ decoded' = NoCall
  /\ clock_set' = FALSE
  /\ UNCHANGED <<bitpos, dec_bp, minlen, ml_bitpos, init_min, was_toolong,
                 resultVars>>

LEMMA GetBitReceives ==
  ASSUME IInv, GetBitReceived \/ GetBitTimeout \/ GetBitBadIO
  PROVE  \E v \in BitValues : Received(v)
  <1> USE DEF GetBit, Received
  <1>1. /\ gb_res \in GB_result
        /\ gb_res.marker \in Markers
        /\ gb_res.marker # "emark_late" \/ pc # "get_bit"
    BY DEF IInv, TypeOK, InputTypeOK, GB_result, FramingInv, AtGetBit
  <1>2. CASE GetBitReceived
    <2>1. PICK v \in BitValues, span \in Spans : GetBit(LiveBit(v, span), v)
      BY <1>2 DEF GetBitReceived
    <2>2. gb_res' \in GB_result /\ ~gb_res'.skip /\ ~gb_res'.done
      BY <1>1, <2>1 DEF LiveBit, NewState, NewMinuteMarker, GB_result, Markers,
         HwStats, BitValues, EndMarkers
    <2>3. /\ gb_res.marker \in EndMarkers => gb_res'.marker \notin EndMarkers
          /\ gb_res'.marker \in {"emark_toolong", "emark_late"} =>
               gb_res.marker \in {"emark_toolong", "emark_late"}
      BY <1>1, <2>1 DEF LiveBit, NewState, NewMinuteMarker, Markers, EndMarkers
    <2>4. Received(v)
      BY <2>1, <2>2, <2>3 DEF LiveBit
    <2> QED
      BY <2>4
  <1>3. CASE GetBitTimeout
    <2>1. GetBit(LiveTimeout, ebv_none)
      BY <1>3 DEF GetBitTimeout
    <2>2. gb_res' \in GB_result /\ ~gb_res'.skip /\ ~gb_res'.done
      BY <1>1, <2>1 DEF LiveTimeout, NewState, GB_result, Markers, HwStats,
         BitValues
    <2>3. Received(ebv_none)
      BY <1>1, <2>1, <2>2 DEF LiveTimeout, NewState, Markers, EndMarkers
    <2> QED
      BY <2>3 DEF BitValues
  <1>4. CASE GetBitBadIO
    <2>1. PICK span \in Spans : GetBit(LiveBadIO(span), ebv_none)
      BY <1>4 DEF GetBitBadIO
    <2>2. gb_res' \in GB_result /\ ~gb_res'.skip /\ ~gb_res'.done
      BY <1>1, <2>1 DEF LiveBadIO, NewState, GB_result, Markers, HwStats,
         BitValues
    <2>3. Received(ebv_none)
      BY <1>1, <2>1, <2>2 DEF LiveBadIO, NewState, Markers, EndMarkers
    <2> QED
      BY <2>3 DEF BitValues
  <1> QED
    BY <1>2, <1>3, <1>4

(***************************************************************************)
(* A bit extends the history and the buffer by the same position.          *)
(***************************************************************************)
LEMMA HearAligned ==
  ASSUME IInv, NEW v \in BitValues, Received(v)
  PROVE  Heard(bitpos + 1)'
  <1>1. BUFLEN \in Nat /\ BUFLEN > 0
    BY InputAssumption
  <1>2. /\ bitpos \in Positions /\ buffer \in [Positions -> {ebv_0, ebv_1}]
        /\ heard \in [Positions -> BitValues] /\ count \in 0 .. BUFLEN + 1
    BY DEF IInv, TypeOK, InputTypeOK, MainloopTypeOK
  <1>3. Aligned(bitpos)
    BY DEF Received, IInv, FramingInv, AtGetBit
  <1>4. UNCHANGED <<bitpos, minlen>> /\ decoded' = NoCall
    BY DEF Received
  <1>5. /\ heard' = IF count < BUFLEN THEN [heard EXCEPT ![count] = v] ELSE heard
        /\ count' = IF count <= BUFLEN THEN count + 1 ELSE count
        /\ buffer' = IF v = ebv_none THEN buffer ELSE [buffer EXCEPT ![bitpos] = v]
    BY DEF Received, Hear
  <1>6. CASE minlen = -1
    BY <1>1, <1>2, <1>3, <1>4, <1>5, <1>6 DEF Heard, Aligned
  <1>7. CASE minlen # -1
    <2>1. count = bitpos /\ count < BUFLEN /\ Framing!Holds(buffer)
      BY <1>1, <1>2, <1>3, <1>7 DEF Aligned, Positions
    <2>2. count' = bitpos' + 1
      BY <1>1, <1>2, <1>4, <1>5, <2>1 DEF Positions
    <2>3. ASSUME NEW i \in Positions, i < count', heard'[i] # ebv_none
          PROVE  buffer'[i] = heard'[i]
      <3>1. CASE i = count
        BY <1>2, <1>5, <2>1, <2>3, <3>1
      <3>2. CASE i # count
        <4>1. i < count
          BY <1>1, <1>2, <1>5, <2>1, <2>3, <3>2 DEF Positions
        <4>2. heard'[i] = heard[i] /\ buffer'[i] = buffer[i]
          BY <1>2, <1>5, <2>1, <3>2
        <4> QED
          BY <2>1, <2>3, <4>1, <4>2 DEF Framing!Holds, Framing!Positions, Positions
      <3> QED
        BY <3>1, <3>2
    <2>4. Framing!Holds(buffer)'
      BY <2>3 DEF Framing!Holds, Framing!Positions, Positions
    <2> QED
      BY <1>4, <1>7, <2>2, <2>4 DEF Heard, Aligned
  <1> QED
    BY <1>6, <1>7

(***************************************************************************)
(* A call of get_bit_live() preserves the invariant.                       *)
(***************************************************************************)
LEMMA GetBitIInv ==
  ASSUME IInv, NEW v \in BitValues, Received(v)
  PROVE  IInv'
  <1>1. /\ BUFLEN \in Nat /\ BUFLEN > 0 /\ AccMod \in Nat /\ AccMod > 0
        /\ Second \in Nat /\ Spans \subseteq Nat
    BY InputAssumption
  <1>2. InputTypeOK /\ MainloopTypeOK
    BY DEF IInv, TypeOK
  <1>3. AtGetBit /\ LiveInput /\ Startup
    BY DEF IInv, FramingInv
  <1> USE DEF Received
  <1>4. InputTypeOK'
    <2>1. acc_minlen' \in 0 .. AccMod - 1
      <3>1. PICK span \in Spans \cup {2 * Second} :
              acc_minlen' = (acc_minlen + span) % AccMod
        BY DEF Accumulate
      <3>2. acc_minlen + span \in Nat
        BY <1>1, <1>2, <3>1 DEF InputTypeOK
      <3> QED
        BY <1>1, <3>1, <3>2
    <2>2. buffer' \in [Positions -> {ebv_0, ebv_1}]
      BY <1>2 DEF InputTypeOK, BitValues
    <2> QED
      BY <1>2, <2>1, <2>2 DEF InputTypeOK
  <1>5. MainloopTypeOK'
    <2>1. heard' \in [Positions -> BitValues] /\ count' \in 0 .. BUFLEN + 1
      BY <1>1, <1>2 DEF MainloopTypeOK, Hear, Positions
    <2>2. markers' \in 0 .. 3
      BY <1>2 DEF MainloopTypeOK, Hear
    <2>3. pc' \in Stages
      BY DEF Stages
    <2> QED
      BY <1>2, <2>1, <2>2, <2>3 DEF MainloopTypeOK, resultVars
  <1>6. LiveInput'
    BY <1>3 DEF LiveInput
  <1>7. FramingInv'
    BY <1>3, HearAligned DEF FramingInv, AtGetBit, AtBit, AtTooLong,
       AtSetMinlen, AtNewMinute
  <1>8. Startup'
    <2>1. ~Undecoded /\ markers \in 0 .. 3 /\ init_min' = init_min
      BY <1>2, <1>3 DEF AtGetBit, Undecoded, EndMarkers, MainloopTypeOK
    <2>2. markers' = IF gb_res'.marker \in EndMarkers /\ markers < 3
                       THEN markers + 1 ELSE markers
      BY DEF Hear
    <2>3. Undecoded' <=> gb_res'.marker \in EndMarkers
      BY DEF Undecoded
    <2> QED
      BY <1>3, <2>1, <2>2, <2>3 DEF Startup
  <1>9. ClockSetSafe'
    BY DEF ClockSetSafe
  <1> QED
    BY <1>4, <1>5, <1>6, <1>7, <1>8, <1>9 DEF IInv, TypeOK

(***************************************************************************)
(* The later stages of the turn, one lemma each.                           *)
(***************************************************************************)
LEMMA ProcessInputIInv ==
  ASSUME IInv, ProcessInput
  PROVE  IInv'
  <1>1. InputTypeOK /\ MainloopTypeOK
    BY DEF IInv, TypeOK
  <1> USE DEF ProcessInput, inputVars, historyVars
  <1>2. InputTypeOK' /\ LiveInput'
    BY <1>1 DEF IInv, InputTypeOK, LiveInput
  <1>3. MainloopTypeOK'
    <2>1. quit' \in BOOLEAN /\ pc' \in Stages /\ ml_bitpos' \in Positions
      BY <1>1 DEF MainloopTypeOK, InputTypeOK, Stages
    <2> QED
      BY <1>1, <2>1 DEF MainloopTypeOK, Calls, Call
  <1>4. FramingInv'
    <2>1. AtBit
      BY DEF IInv, FramingInv
    <2>2. AtBit'
      BY <2>1 DEF AtBit, Heard, Aligned, Framing!Holds
    <2> QED
      BY <2>2 DEF FramingInv, AtGetBit, AtTooLong, AtSetMinlen, AtNewMinute
  <1>5. Startup' /\ ClockSetSafe'
    BY DEF IInv, Startup, Undecoded, ClockSetSafe
  <1> QED
    BY <1>2, <1>3, <1>4, <1>5 DEF IInv, TypeOK

LEMMA NextBitIInv ==
  ASSUME IInv, NextBit
  PROVE  IInv'
  <1>1. InputTypeOK /\ MainloopTypeOK /\ BUFLEN \in Nat /\ BUFLEN > 0
    BY InputAssumption DEF IInv, TypeOK
  <1>2. /\ ~was_toolong /\ ml_bitpos = bitpos /\ Heard(ml_bitpos + 1)
        /\ gb_res.marker \in {"emark_toolong", "emark_late"} => minlen = -1
    BY DEF IInv, FramingInv, AtBit, NextBit
  <1>3. dec_bp = 0 /\ ~gb_res.skip /\ ~gb_res.done /\ gb_res.marker \in Markers
    BY <1>1 DEF IInv, LiveInput, InputTypeOK, GB_result
  <1> USE DEF NextBit, next_bit, resultVars, historyVars
  <1>4. NextPosition = IF gb_res.marker \in EndMarkers THEN 0 ELSE bitpos + 1
    BY <1>3 DEF NextPosition
  <1>5. NextMarker = IF gb_res.marker \in EndMarkers THEN "emark_minute"
                     ELSE IF bitpos + 1 = BUFLEN THEN "emark_toolong"
                     ELSE "emark_none"
    BY <1>1, <1>3, <1>4 DEF NextMarker, EndMarkers, Markers
  <1>6. InputTypeOK' /\ LiveInput'
    <2>1. bitpos' \in Positions
      BY <1>1, <1>4 DEF InputTypeOK, Positions
    <2>2. gb_res' \in GB_result /\ ~gb_res'.skip /\ ~gb_res'.done
      BY <1>1, <1>3, <1>5 DEF InputTypeOK, GB_result, Markers
    <2>3. dec_bp' = 0
      BY <1>3
    <2> QED
      BY <1>1, <2>1, <2>2, <2>3 DEF InputTypeOK, LiveInput
  <1>7. gb_res'.marker = NextMarker
    BY <1>1 DEF InputTypeOK, GB_result
  <1>8. MainloopTypeOK'
    <2>1. pc' \in Stages
      BY DEF Stages
    <2> QED
      BY <1>1, <2>1 DEF MainloopTypeOK
  <1>9. FramingInv'
    <2>1. Moved'
      BY <1>1, <1>2, <1>4, <1>5, <1>7
         DEF Moved, EndMarkers, InputTypeOK, Positions
    <2>2. Heard(ml_bitpos + 1)'
      BY <1>2 DEF Heard, Aligned, Framing!Holds
    <2> QED
      BY <1>2, <2>1, <2>2
         DEF FramingInv, AtGetBit, AtBit, AtTooLong, AtSetMinlen, AtNewMinute
  <1>10. Undecoded' <=> Undecoded
    BY <1>3, <1>5, <1>7 DEF Undecoded, EndMarkers
  <1>11. Startup' /\ ClockSetSafe'
    BY <1>10 DEF IInv, Startup, ClockSetSafe
  <1> QED
    BY <1>6, <1>8, <1>9, <1>11 DEF IInv, TypeOK

LEMMA SetMinlenIInv ==
  ASSUME IInv, SetMinlen
  PROVE  IInv'
  <1>1. InputTypeOK /\ MainloopTypeOK /\ BUFLEN \in Nat /\ BUFLEN > 0
    BY InputAssumption DEF IInv, TypeOK
  <1>2. AtSetMinlen /\ gb_res.marker \in Markers
    BY <1>1 DEF IInv, FramingInv, InputTypeOK, GB_result
  <1> USE DEF SetMinlen, inputVars, resultVars, historyVars
  <1>3. minlen' = CASE gb_res.marker = "emark_minute"  -> ml_bitpos + 1
                    [] gb_res.marker = "emark_toolong" -> -1
                    [] gb_res.marker = "emark_none"    -> minlen
    BY <1>2 DEF AtSetMinlen, Moved, Markers
  <1>4. MainloopTypeOK'
    <2>1. minlen' \in -1 .. BUFLEN /\ pc' \in Stages
      BY <1>1, <1>2, <1>3
         DEF AtSetMinlen, Moved, Markers, MainloopTypeOK, Positions, Stages
    <2> QED
      BY <1>1, <2>1 DEF MainloopTypeOK
  <1>5. FramingInv'
    <2>1. Moved'
      BY <1>2 DEF AtSetMinlen, Moved
    <2>2. CASE gb_res.marker = "emark_minute"
      <3>1. minlen' = ml_bitpos + 1
        BY <1>3, <2>2
      <3>2. CASE was_toolong
        BY <1>2, <2>1, <2>2, <3>1, <3>2
           DEF AtSetMinlen, Delivered, FramingInv, AtGetBit, AtBit, AtTooLong,
               AtNewMinute
      <3>3. CASE ~was_toolong
        <4>1. minlen # -1 /\ Heard(ml_bitpos + 1)
          BY <1>2, <3>3 DEF AtSetMinlen
        <4>2. Heard(minlen)'
          BY <1>1, <3>1, <4>1
             DEF Heard, Aligned, Framing!Holds, MainloopTypeOK, Positions
        <4> QED
          BY <2>1, <2>2, <3>1, <3>3, <4>2
             DEF FramingInv, AtGetBit, AtBit, AtTooLong, AtSetMinlen,
                 AtNewMinute
      <3> QED
        BY <3>2, <3>3
    <2>3. CASE gb_res.marker = "emark_toolong"
      <3>1. decoded' = NoCall /\ count' >= BUFLEN
        BY <1>1, <1>2, <2>3
           DEF AtSetMinlen, Moved, Heard, Aligned, MainloopTypeOK
      <3> QED
        BY <1>3, <2>1, <2>3, <3>1
           DEF FramingInv, AtGetBit, AtBit, AtTooLong, AtSetMinlen,
               AtNewMinute
    <2>4. CASE gb_res.marker = "emark_none"
      <3>1. Heard(bitpos) /\ minlen' = minlen
        BY <1>2, <1>3, <2>4 DEF AtSetMinlen, Moved
      <3>2. Heard(bitpos)'
        BY <3>1 DEF Heard, Aligned, Framing!Holds
      <3> QED
        BY <2>1, <2>4, <3>2
           DEF FramingInv, AtGetBit, AtBit, AtTooLong, AtSetMinlen,
               AtNewMinute
    <2> QED
      BY <1>2, <2>2, <2>3, <2>4 DEF AtSetMinlen, Moved, Markers
  <1>6. Startup' /\ ClockSetSafe'
    BY DEF IInv, Startup, Undecoded, ClockSetSafe
  <1> QED
    BY <1>1, <1>4, <1>5, <1>6 DEF IInv, TypeOK, InputTypeOK, LiveInput

(***************************************************************************)
(* A call of check_handle_new_minute() that finds a minute to deliver.     *)
(***************************************************************************)
LEMMA DeliverMinute ==
  ASSUME IInv, NEW m \in 1 .. BUFLEN \cup {-1},
         Undecoded, ~was_toolong, check_handle_new_minute(m),
         UNCHANGED Unhandled
  PROVE  /\ decoded' \in Calls /\ decoded' # NoCall
         /\ decoded' = Call(m)
         /\ heard' = Framing!Silence /\ count' = 0
         /\ acc_minlen' = 0
         /\ init_min' \in 0 .. 2
         /\ clock_set' \in BOOLEAN /\ quit' \in BOOLEAN
         /\ Startup'
         /\ ClockSetSafe'
  <1>1. InputTypeOK /\ MainloopTypeOK /\ BUFLEN \in Nat /\ BUFLEN > 0
    BY InputAssumption DEF IInv, TypeOK
  <1>2. /\ decoded' = Call(m)
        /\ SetTime(m)
        /\ acc_minlen' = 0
        /\ init_min' = IF init_min > 0 THEN init_min - 1 ELSE init_min
        /\ heard' = Framing!Silence
        /\ count' = 0
    BY DEF check_handle_new_minute, Undecoded, reset_acc_minlen,
       Framing!Silence, Framing!Positions, Positions
  <1>3. UNCHANGED <<gb_res, markers>>
    BY DEF Unhandled
  <1>4. decoded' \in Calls /\ decoded' # NoCall
    BY <1>1, <1>2 DEF Call, Calls, NoCall, InputTypeOK
  <1>5. /\ clock_set' \in BOOLEAN /\ quit' \in BOOLEAN
        /\ clock_set' => init_min = 0 /\ MinuteLengthOK(m)
    <2>1. PICK dt_ok \in BOOLEAN :
            /\ clock_set' = (settime /\ setclock_ok(m, dt_ok))
            /\ \/ quit' = quit
               \/ settime /\ quit' = FALSE
               \/ clock_set' /\ quit' = TRUE
      BY <1>2 DEF SetTime
    <2>3. clock_set' \in BOOLEAN
      BY <2>1, Zenon
    <2>4. clock_set' => setclock_ok(m, dt_ok)
      BY <2>1
    <2>5. quit' \in BOOLEAN
      <3>1. quit \in BOOLEAN
        BY <1>1 DEF MainloopTypeOK
      <3> QED
        BY <2>1, <3>1, Zenon
    <2> QED
      BY <2>3, <2>4, <2>5 DEF setclock_ok
  <1>6. markers \in 0 .. 3 /\ init_min \in 0 .. 2
    BY <1>1 DEF MainloopTypeOK
  <1>7. markers > 0 /\ init_min = 3 - markers
    BY DEF IInv, Startup
  <1>8. Startup' /\ init_min' \in 0 .. 2
    BY <1>2, <1>3, <1>4, <1>6, <1>7 DEF Startup, Undecoded
  <1>9. ClockSetSafe'
    BY <1>2, <1>3, <1>4, <1>5, <1>6, <1>7
       DEF ClockSetSafe, Call, MinuteLengthOK
  <1> QED
    BY <1>2, <1>4, <1>5, <1>8, <1>9

LEMMA TooLongIInv ==
  ASSUME IInv, TooLong
  PROVE  IInv'
  <1>1. InputTypeOK /\ MainloopTypeOK /\ BUFLEN \in Nat /\ BUFLEN > 0
        /\ AccMod \in Nat /\ AccMod > 0
    BY InputAssumption DEF IInv, TypeOK
  <1>2. ~was_toolong /\ Moved /\ Heard(ml_bitpos + 1)
    BY DEF IInv, FramingInv, AtTooLong, TooLong
  <1>3. /\ UNCHANGED Unhandled /\ UNCHANGED minlen
        /\ pc = "too_long" /\ pc' = "set_minlen" /\ pc' \in Stages
    BY DEF TooLong, Stages
  <1>4. CASE minlen = -1 /\ gb_res.marker \in EndMarkers
    <2>1. was_toolong' = TRUE /\ check_handle_new_minute(-1) /\ Undecoded
      BY <1>2, <1>4 DEF TooLong, Undecoded, Heard
    <2>2. /\ decoded' \in Calls /\ decoded' # NoCall
          /\ heard' = Framing!Silence /\ count' = 0 /\ acc_minlen' = 0
          /\ init_min' \in 0 .. 2
          /\ clock_set' \in BOOLEAN /\ quit' \in BOOLEAN
          /\ Startup' /\ ClockSetSafe'
      <3>1. -1 \in 1 .. BUFLEN \cup {-1}
        OBVIOUS
      <3> QED
        BY <1>2, <1>3, <2>1, <3>1, DeliverMinute
    <2>3. InputTypeOK' /\ LiveInput'
      BY <1>1, <1>3, <2>2 DEF IInv, InputTypeOK, LiveInput, Unhandled
    <2>4. MainloopTypeOK'
      <3>1. heard' \in [Positions -> BitValues]
        BY <2>2 DEF Framing!Silence, Framing!Positions, Positions, BitValues
      <3> QED
        BY <1>1, <1>3, <2>1, <2>2, <3>1 DEF MainloopTypeOK, Unhandled
    <2>5. FramingInv'
      <3>1. Moved' /\ Delivered' /\ gb_res'.marker = "emark_minute"
        BY <1>2, <1>3, <1>4, <2>2 DEF Moved, Delivered, Unhandled, EndMarkers
      <3> QED
        BY <1>3, <1>4, <2>1, <3>1
           DEF FramingInv, AtGetBit, AtBit, AtTooLong, AtSetMinlen, AtNewMinute
    <2> QED
      BY <2>2, <2>3, <2>4, <2>5 DEF IInv, TypeOK
  <1>5. CASE ~(minlen = -1 /\ gb_res.marker \in EndMarkers)
    <2>1. /\ UNCHANGED <<decoded, clock_set, quit, acc_minlen,
                         init_min, heard, count>>
          /\ was_toolong' = IF minlen = -1 THEN TRUE ELSE was_toolong
      BY <1>5 DEF TooLong, check_handle_new_minute
    <2>2. InputTypeOK' /\ LiveInput'
      BY <1>1, <1>3, <2>1 DEF IInv, InputTypeOK, LiveInput, Unhandled
    <2>3. MainloopTypeOK'
      BY <1>1, <1>3, <2>1 DEF MainloopTypeOK, Unhandled
    <2>4. FramingInv'
      <3>1. Moved' /\ Heard(ml_bitpos + 1)'
        BY <1>2, <1>3, <2>1
           DEF Moved, Unhandled, Heard, Aligned, Framing!Holds
      <3>2. was_toolong' <=> minlen' = -1
        BY <1>2, <1>3, <2>1
      <3>3. ~(was_toolong' /\ gb_res'.marker = "emark_minute")
        BY <1>3, <1>5, <3>2 DEF Unhandled, EndMarkers
      <3> QED
        BY <1>3, <3>1, <3>2, <3>3
           DEF FramingInv, AtGetBit, AtBit, AtTooLong, AtSetMinlen, AtNewMinute
    <2>5. Startup' /\ ClockSetSafe'
      BY <1>3, <2>1 DEF IInv, Startup, Undecoded, ClockSetSafe, Unhandled
    <2> QED
      BY <2>2, <2>3, <2>4, <2>5 DEF IInv, TypeOK
  <1> QED
    BY <1>4, <1>5

LEMMA NewMinuteIInv ==
  ASSUME IInv, NewMinute
  PROVE  IInv'
  <1>1. InputTypeOK /\ MainloopTypeOK /\ BUFLEN \in Nat /\ BUFLEN > 0
        /\ AccMod \in Nat /\ AccMod > 0
    BY InputAssumption DEF IInv, TypeOK
  <1>2. AtNewMinute /\ pc = "new_minute" /\ gb_res.marker \in Markers
    BY <1>1 DEF IInv, FramingInv, NewMinute, InputTypeOK, GB_result
  <1>3. /\ UNCHANGED Unhandled /\ UNCHANGED minlen /\ was_toolong' = FALSE
        /\ pc' \in {"get_bit", "stopped"} /\ pc' \in Stages
        /\ check_handle_new_minute(minlen)
    BY DEF NewMinute, Stages
  <1>4. CASE gb_res.marker \in EndMarkers /\ ~was_toolong
    <2>1. /\ gb_res.marker = "emark_minute" /\ bitpos = 0
          /\ minlen = ml_bitpos + 1 /\ Heard(minlen)
      BY <1>2, <1>4 DEF AtNewMinute, Moved, EndMarkers
    <2>2. minlen \in 1 .. BUFLEN
      BY <1>1, <2>1 DEF MainloopTypeOK, Positions
    <2>3. /\ decoded' \in Calls /\ decoded' # NoCall
          /\ heard' = Framing!Silence /\ count' = 0 /\ acc_minlen' = 0
          /\ init_min' \in 0 .. 2
          /\ clock_set' \in BOOLEAN /\ quit' \in BOOLEAN
          /\ Startup' /\ ClockSetSafe'
      <3>1. Undecoded /\ minlen \in 1 .. BUFLEN \cup {-1}
        BY <1>4, <2>1, <2>2 DEF Undecoded, Heard
      <3> QED
        BY <1>3, <1>4, <3>1, DeliverMinute
    <2>4. InputTypeOK' /\ LiveInput'
      BY <1>1, <1>3, <2>3 DEF IInv, InputTypeOK, LiveInput, Unhandled
    <2>5. MainloopTypeOK'
      <3>1. heard' \in [Positions -> BitValues]
        BY <2>3 DEF Framing!Silence, Framing!Positions, Positions, BitValues
      <3>2. count' \in 0 .. BUFLEN + 1 /\ decoded' \in Calls \cup {NoCall}
        BY <1>1, <2>3
      <3>3. /\ UNCHANGED <<minlen, ml_bitpos, settime, markers>>
            /\ was_toolong' \in BOOLEAN /\ pc' \in Stages
        BY <1>3 DEF Unhandled
      <3> QED
        BY <1>1, <2>3, <3>1, <3>2, <3>3 DEF MainloopTypeOK
    <2>6. FramingInv'
      <3>1. Aligned(bitpos)'
        <4>1. minlen' # -1 /\ count' = bitpos'
          BY <1>3, <2>1, <2>2, <2>3 DEF Unhandled
        <4>2. Framing!Holds(buffer)'
          BY <2>3 DEF Framing!Holds, Framing!Silence
        <4> QED
          BY <4>1, <4>2 DEF Aligned
      <3> QED
        BY <1>3, <2>1, <2>3, <3>1
           DEF FramingInv, AtGetBit, AtBit, AtTooLong, AtSetMinlen,
               AtNewMinute, Unhandled
    <2> QED
      BY <2>3, <2>4, <2>5, <2>6 DEF IInv, TypeOK
  <1>5. CASE ~(gb_res.marker \in EndMarkers /\ ~was_toolong)
    <2>1. UNCHANGED <<decoded, clock_set, quit, acc_minlen,
                      init_min, heard, count>>
      BY <1>3, <1>5 DEF check_handle_new_minute
    <2>2. InputTypeOK' /\ LiveInput'
      BY <1>1, <1>3, <2>1 DEF IInv, InputTypeOK, LiveInput, Unhandled
    <2>3. MainloopTypeOK'
      BY <1>1, <1>3, <2>1 DEF MainloopTypeOK, Unhandled
    <2>4. FramingInv'
      <3>1. /\ gb_res.marker # "emark_late"
            /\ gb_res.marker = "emark_minute" <=> decoded # NoCall
            /\ gb_res.marker = "emark_toolong" => minlen = -1
        BY <1>2, <1>5 DEF AtNewMinute, Moved, Delivered, Heard, EndMarkers, Markers
      <3>2. Aligned(bitpos)
        <4>1. CASE gb_res.marker = "emark_minute"
          <5>1. count = 0 /\ bitpos = 0 /\ minlen = ml_bitpos + 1
            BY <1>2, <1>5, <4>1
               DEF AtNewMinute, Moved, Delivered, EndMarkers
          <5> QED
            BY <1>1, <5>1 DEF Aligned, Framing!Holds, Framing!Positions,
               MainloopTypeOK, Positions
        <4>2. CASE gb_res.marker = "emark_toolong"
          BY <1>2, <4>2 DEF AtNewMinute, Aligned
        <4>3. CASE gb_res.marker = "emark_none"
          BY <1>2, <4>3 DEF AtNewMinute, Heard
        <4> QED
          BY <1>2, <3>1, <4>1, <4>2, <4>3 DEF Markers
      <3>3. Aligned(bitpos)'
        BY <1>3, <2>1, <3>2 DEF Aligned, Framing!Holds, Unhandled
      <3> QED
        BY <1>3, <2>1, <3>1, <3>3
           DEF FramingInv, AtGetBit, AtBit, AtTooLong, AtSetMinlen,
               AtNewMinute, Unhandled
    <2>5. Startup' /\ ClockSetSafe'
      BY <1>3, <2>1 DEF IInv, Startup, Undecoded, ClockSetSafe, Unhandled
    <2> QED
      BY <2>2, <2>3, <2>4, <2>5 DEF IInv, TypeOK
  <1> QED
    BY <1>4, <1>5

-----------------------------------------------------------------------------
(***************************************************************************)
(* IInv is inductive.                                                      *)
(***************************************************************************)
LEMMA NextIInv ==
  ASSUME IInv, [Next]_vars
  PROVE  IInv'
  <1>1. CASE GetBitReceived \/ GetBitTimeout \/ GetBitBadIO
    BY <1>1, GetBitReceives, GetBitIInv
  <1>2. CASE ProcessInput
    BY <1>2, ProcessInputIInv
  <1>3. CASE NextBit
    BY <1>3, NextBitIInv
  <1>4. CASE TooLong
    BY <1>4, TooLongIInv
  <1>5. CASE SetMinlen
    BY <1>5, SetMinlenIInv
  <1>6. CASE NewMinute
    BY <1>6, NewMinuteIInv
  <1>7. CASE UNCHANGED vars
    BY <1>7
       DEF vars, inputVars, loopVars, resultVars, historyVars, IInv, TypeOK,
           InputTypeOK, MainloopTypeOK, Calls, LiveInput, FramingInv, AtGetBit,
           AtBit, AtTooLong, AtSetMinlen, AtNewMinute, Moved, Heard, Aligned,
           Delivered, Framing!Holds, Startup, Undecoded, ClockSetSafe
  <1> QED
    BY <1>1, <1>2, <1>3, <1>4, <1>5, <1>6, <1>7 DEF Next

THEOREM SpecIInv == Spec => []IInv
  <1>1. Init => IInv
    BY InitIInv
  <1>2. IInv /\ [Next]_vars => IInv'
    BY NextIInv
  <1> QED
    BY <1>1, <1>2, PTL DEF Spec

(***************************************************************************)
(* Every variable keeps its type; in particular bitpos stays inside the    *)
(* buffer, whatever the receiver hears.                                    *)
(***************************************************************************)
THEOREM TypeCorrect == Spec => []TypeOK
  <1>1. IInv => TypeOK
    BY DEF IInv
  <1> QED
    BY <1>1, SpecIInv, PTL

(***************************************************************************)
(* The system clock is not set before the third end of minute, nor from a  *)
(* minute that overflowed the buffer.                                      *)
(***************************************************************************)
THEOREM ClockSetIsSafe == Spec => []ClockSetSafe
  <1>1. IInv => ClockSetSafe
    BY DEF IInv
  <1> QED
    BY <1>1, SpecIInv, PTL

(***************************************************************************)
(* No stage of the loop after next_bit() sees a late marker.               *)
(***************************************************************************)
THEOREM LateIsNeverSeen == Spec => []LateNeverSeen
  <1>1. IInv => LateNeverSeen
    BY DEF IInv, TypeOK, MainloopTypeOK, Stages, FramingInv, AtGetBit,
       AtTooLong, AtSetMinlen, AtNewMinute, Moved, LateNeverSeen
  <1> QED
    BY <1>1, SpecIInv, PTL

-----------------------------------------------------------------------------
(***************************************************************************)
(* LiveDecoder implements MinuteFraming.  A get_bit_live() call is a Hear  *)
(* step, the call of check_handle_new_minute() that decodes is a Deliver   *)
(* step, every other stage of the loop stutters.                           *)
(***************************************************************************)
LEMMA InitFraming == Init => Framing!Init
  BY DEF Init, InputInit, MainloopInit, Framing!Init, Framing!Silence,
     Framing!Positions, Framing!NoCall, NoCall, Positions, Undecoded,
     EndMarkers

LEMMA GetBitHears ==
  ASSUME IInv, NEW v \in BitValues, Received(v)
  PROVE  Framing!Hear
  <1>1. AtGetBit /\ gb_res.marker \in Markers
    BY DEF IInv, FramingInv, TypeOK, InputTypeOK, GB_result
  <1>2. ~Undecoded /\ (decoded = NoCall \/ gb_res.marker \in EndMarkers)
    BY <1>1 DEF Received, AtGetBit, Undecoded, EndMarkers
  <1>3. Undecoded' <=> gb_res'.marker \in EndMarkers
    BY DEF Received, Undecoded
  <1>4. Undecoded' \in IF decoded = NoCall \/ FALSE THEN BOOLEAN ELSE {FALSE}
    <2>1. Undecoded' \in BOOLEAN
      BY DEF Undecoded
    <2>2. decoded # NoCall => ~Undecoded'
      BY <1>2, <1>3 DEF Received
    <2> QED
      BY <2>1, <2>2
  <1>5. \E span \in Spans \cup {2 * Second} :
          acc_minlen' = (acc_minlen + span) % AccMod
    BY DEF Received, Accumulate
  <1>6. /\ heard' = IF count < BUFLEN THEN [heard EXCEPT ![count] = v] ELSE heard
        /\ count' = IF count <= BUFLEN THEN count + 1 ELSE count
        /\ decoded' = NoCall
    BY DEF Received, Hear
  <1> QED
    BY <1>2, <1>4, <1>5, <1>6 DEF Framing!Hear, Framing!NoCall, NoCall

(***************************************************************************)
(* The minute that check_handle_new_minute() hands to decode_time() is the *)
(* minute that was heard.                                                  *)
(***************************************************************************)
LEMMA DeliverIsDeliver ==
  ASSUME IInv, NEW m \in 1 .. BUFLEN \cup {-1},
         Undecoded, ~was_toolong, check_handle_new_minute(m),
         UNCHANGED Unhandled,
         m = Framing!Length, m # -1 => Framing!Holds(buffer)
  PROVE  Framing!Deliver
  <1>1. buffer \in [Positions -> {ebv_0, ebv_1}]
    BY DEF IInv, TypeOK, InputTypeOK
  <1>2. buffer \in [Framing!Positions -> BitValues \ {ebv_none}]
    BY <1>1 DEF Framing!Positions, Positions, BitValues, ebv_0, ebv_1, ebv_none
  <1>3. /\ decoded' = Call(m) /\ decoded' # NoCall
        /\ heard' = Framing!Silence /\ count' = 0 /\ acc_minlen' = 0
    BY DeliverMinute
  <1>4. ~Undecoded'
    BY <1>3 DEF Undecoded
  <1>5. decoded' = [minlen |-> Framing!Length, acc_minlen |-> acc_minlen,
                    buffer |-> buffer]
    BY <1>3 DEF Call
  <1>6. Undecoded' = FALSE
    BY <1>4 DEF Undecoded
  <1> QED
    BY <1>2, <1>3, <1>5, <1>6 DEF Framing!Deliver

LEMMA TooLongFraming ==
  ASSUME IInv, TooLong
  PROVE  Framing!Deliver \/ UNCHANGED Framing!vars
  <1>1. BUFLEN \in Nat /\ UNCHANGED Unhandled
    BY InputAssumption DEF TooLong
  <1>2. ~was_toolong /\ Heard(ml_bitpos + 1)
    BY DEF IInv, FramingInv, AtTooLong, TooLong
  <1>3. CASE minlen = -1 /\ gb_res.marker \in EndMarkers
    <2>1. check_handle_new_minute(-1) /\ Undecoded /\ count = BUFLEN + 1
      BY <1>2, <1>3 DEF TooLong, Heard, Undecoded
    <2>2. Framing!Length = -1 /\ -1 \in 1 .. BUFLEN \cup {-1}
      BY <1>1, <2>1 DEF Framing!Length
    <2> QED
      BY <1>1, <1>2, <2>1, <2>2, DeliverIsDeliver
  <1>4. CASE ~(minlen = -1 /\ gb_res.marker \in EndMarkers)
    <2>1. UNCHANGED <<decoded, acc_minlen, heard, count, gb_res>>
      BY <1>1, <1>4 DEF TooLong, check_handle_new_minute, Unhandled
    <2> QED
      BY <2>1 DEF Framing!vars, Undecoded
  <1> QED
    BY <1>3, <1>4

LEMMA NewMinuteFraming ==
  ASSUME IInv, NewMinute
  PROVE  Framing!Deliver \/ UNCHANGED Framing!vars
  <1>1. /\ BUFLEN \in Nat /\ minlen \in -1 .. BUFLEN /\ ml_bitpos \in Positions
        /\ AtNewMinute /\ pc = "new_minute"
        /\ UNCHANGED Unhandled /\ check_handle_new_minute(minlen)
    BY InputAssumption DEF IInv, FramingInv, NewMinute, TypeOK, MainloopTypeOK
  <1>2. CASE gb_res.marker \in EndMarkers /\ ~was_toolong
    <2>1. minlen = ml_bitpos + 1 /\ Heard(minlen)
      BY <1>1, <1>2 DEF AtNewMinute, Moved, EndMarkers
    <2>2. /\ minlen \in 1 .. BUFLEN /\ minlen # -1
          /\ count = minlen /\ Framing!Holds(buffer) /\ decoded = NoCall
      BY <1>1, <2>1 DEF Heard, Aligned, Positions
    <2>3. Framing!Length = minlen
      BY <1>1, <2>2, SMT DEF Framing!Length
    <2>4. Undecoded
      BY <1>2, <2>2 DEF Undecoded
    <2> QED
      BY <1>1, <1>2, <2>2, <2>3, <2>4, DeliverIsDeliver
  <1>3. CASE ~(gb_res.marker \in EndMarkers /\ ~was_toolong)
    <2>1. UNCHANGED <<decoded, acc_minlen, heard, count, gb_res>>
      BY <1>1, <1>3 DEF check_handle_new_minute, Unhandled
    <2> QED
      BY <2>1 DEF Framing!vars, Undecoded
  <1> QED
    BY <1>2, <1>3

(***************************************************************************)
(* Whatever the receiver delivers, decode_time() gets every minute once,   *)
(* with its length, its duration and its bits in place.                    *)
(***************************************************************************)
THEOREM ImplementsFraming == Spec => FramingSpec
  <1>1. Init => Framing!Init
    BY InitFraming
  <1>2. IInv /\ [Next]_vars => [Framing!Next]_(Framing!vars)
    <2> SUFFICES ASSUME IInv, [Next]_vars
                 PROVE  Framing!Next \/ UNCHANGED Framing!vars
      OBVIOUS
    <2>1. CASE GetBitReceived \/ GetBitTimeout \/ GetBitBadIO
      BY <2>1, GetBitReceives, GetBitHears DEF Framing!Next
    <2>2. CASE ProcessInput
      BY <2>2 DEF ProcessInput, inputVars, historyVars, Framing!vars, Undecoded
    <2>3. CASE NextBit
      <3>1. gb_res'.marker \in EndMarkers <=> gb_res.marker \in EndMarkers
        <4>1. /\ gb_res \in GB_result /\ dec_bp = 0 /\ bitpos + 1 # 0
              /\ BUFLEN # 0 /\ gb_res.marker \in Markers
          BY InputAssumption
             DEF IInv, TypeOK, InputTypeOK, LiveInput, GB_result, Positions
        <4>2. gb_res'.marker = NextMarker
          BY <2>3, <4>1 DEF NextBit, next_bit, GB_result
        <4> QED
          BY <4>1, <4>2 DEF NextMarker, NextPosition, EndMarkers, Markers
      <3>2. UNCHANGED <<decoded, acc_minlen, heard, count>>
        BY <2>3 DEF NextBit, next_bit, historyVars
      <3> QED
        BY <3>1, <3>2 DEF Framing!vars, Undecoded
    <2>4. CASE TooLong
      BY <2>4, TooLongFraming DEF Framing!Next
    <2>5. CASE SetMinlen
      BY <2>5 DEF SetMinlen, inputVars, historyVars, Framing!vars, Undecoded
    <2>6. CASE NewMinute
      BY <2>6, NewMinuteFraming DEF Framing!Next
    <2>7. CASE UNCHANGED vars
      BY <2>7 DEF vars, inputVars, historyVars, Framing!vars, Undecoded
    <2> QED
      BY <2>1, <2>2, <2>3, <2>4, <2>5, <2>6, <2>7 DEF Next
  <1> QED
    BY <1>1, <1>2, SpecIInv, PTL DEF Spec, FramingSpec, Framing!Spec
=============================================================================
