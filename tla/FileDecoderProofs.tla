------------------------- MODULE FileDecoderProofs -------------------------
(***************************************************************************)
(* Proofs about FileDecoder, for every buffer length, accumulator width,   *)
(* set of period lengths and set of characters in the log.                 *)
(*                                                                         *)
(* A minute of the log ends in up to three separators that are read like   *)
(* bits.  IInv says what holds the position of the last bit, the length of *)
(* the minute and its duration in place over them, stage by stage.         *)
(***************************************************************************)
EXTENDS FileDecoder, TLAPS

End == gb_res.marker \in EndMarkers

\* All bits of this minute were read: its end was, or a bare newline is next.
Last == ended \/ (oldinch \in BitChars /\ next = "newline")

(***************************************************************************)
(* The text around the reader: between two minutes come bits and further   *)
(* newlines, after the last bit the separators in their order.             *)
(***************************************************************************)
LogText ==
  /\ next = "EOF" /\ oldinch # NoChar => gb_res.done
  /\ oldinch = NoChar =>
       /\ count = 0 /\ decoded = NoCall /\ ~End /\ ~ended
       /\ next = "newline" => ~has_length
  /\ IF End \/ count = 0
       THEN /\ oldinch \in {NoChar, "newline"} /\ ~read_acc_minlen
            /\ next \in LogBits \cup {"newline", "EOF"}
     ELSE IF ended
       THEN /\ oldinch \notin {NoChar, "newline"} /\ has_length
            /\ \/ gb_res.done
               \/ oldinch \in BitChars /\ next = "a" /\ ~read_acc_minlen
               \/ /\ oldinch \notin BitChars /\ next \in {"c", "newline"}
                  /\ read_acc_minlen
     ELSE /\ oldinch \in BitChars /\ ~read_acc_minlen
          /\ next \in LogBits \cup {"EOF", "newline"}
          /\ next = "newline" => ~has_length

(***************************************************************************)
(* acc_minlen follows the time the log stands for: at once in a log        *)
(* without lengths, otherwise as soon as the length is read.               *)
(***************************************************************************)
Timed ==
  /\ count = 0 /\ ~ended => acc_minlen = 0 /\ recorded = 0
  /\ End => acc_minlen = recorded
  /\ ~End /\ read_acc_minlen => acc_minlen = recorded
  /\ ~End /\ ~has_length => acc_minlen = recorded

\* The minute that is being read or about to be delivered, not an older one.
InMinute ==
  /\ count > 0 \/ ended => decoded = NoCall
  /\ ended => IF count > 0 THEN End \/ has_length ELSE End /\ ~has_length
  /\ End => ended \/ count = 0

\* n bits were heard in this minute; those heard well are in the buffer.
Whole(n) == count = n /\ Framing!Holds(buffer)

\* A minute of length n is to be delivered with the bits in the buffer.
Sized(n) == n = Framing!Length /\ Framing!Holds(buffer)

\* bitpos was moved back to the last bit, the first bit has nowhere to go.
Back == Last /\ ~(count = 1 /\ oldinch \in BitChars)

(***************************************************************************)
(* Once a turn is over, bitpos is the place of the next bit, or again that *)
(* of the last bit when the minute is to end.                              *)
(***************************************************************************)
Placed(long) ==
  IF long THEN count >= BUFLEN /\ (Last => count = BUFLEN + 1)
          ELSE /\ Whole(IF Back THEN bitpos + 1 ELSE bitpos)
               /\ dec_bp = IF Back THEN 2 ELSE 0

AtGetBit ==
  pc = "get_bit" =>
    /\ ~was_toolong /\ ~gb_res.done /\ dec_bp # 1
    /\ gb_res.marker # "emark_late"
    /\ gb_res.marker = "emark_minute" => count = 0
    /\ count = 0 => ~ended
    /\ gb_res.marker = "emark_toolong" => minlen = -1
    /\ Placed(minlen = -1)

\* Where a character of the minute leaves the position; a separator after
\* a single bit only now moves it back.
AtChar ==
  IF End THEN Sized(bitpos + 1)
  ELSE IF ~gb_res.skip
    THEN Whole(bitpos + 1) /\ dec_bp = IF Last /\ bitpos > 0 THEN 1 ELSE 0
  ELSE /\ Last
       /\ \/ gb_res.done
          \/ dec_bp = 1 /\ Whole(bitpos)
          \/ dec_bp = 2 /\ Whole(bitpos + 1)

AtBit ==
  pc \in {"process_input", "next_bit"} =>
    /\ ~was_toolong
    /\ pc = "next_bit" => ml_bitpos = bitpos
    /\ oldinch = NoChar => gb_res.done
    /\ dec_bp = 1 => bitpos > 0
    /\ gb_res.marker \in {"emark_toolong", "emark_late"} => minlen = -1
    /\ IF count = 0
         THEN /\ bitpos = 0 /\ dec_bp = 0 /\ minlen # -1
              /\ gb_res.skip \/ oldinch = NoChar
              /\ ended <=> End
              /\ Sized(bitpos + 1) \/ ~End
       ELSE IF minlen = -1 THEN count = BUFLEN + 1
       ELSE AtChar
    /\ gb_res.skip <=> oldinch \notin BitChars \cup {NoChar}

\* After next_bit(): an empty file leaves the position anywhere.
AtEnd ==
  pc \in {"too_long", "set_minlen", "new_minute"} =>
    /\ gb_res.marker # "emark_late" /\ dec_bp # 1
    /\ pc = "too_long" => ~was_toolong
    /\ pc = "new_minute" /\ gb_res.marker = "emark_toolong" => minlen = -1
    /\ ~End /\ ~gb_res.done =>
         Placed(minlen = -1 \/ gb_res.marker = "emark_toolong")
    /\ End => bitpos = 0 /\ dec_bp = 0
    /\ End /\ pc = "too_long" =>
         ended /\ IF minlen = -1 THEN count = BUFLEN + 1 ELSE Sized(ml_bitpos + 1)
    /\ End /\ pc = "set_minlen" => (was_toolong <=> minlen = -1)
    /\ End /\ pc = "new_minute" => minlen = ml_bitpos + 1
    /\ End /\ pc \in {"set_minlen", "new_minute"} =>
         IF was_toolong THEN count = 0 /\ ~ended
                        ELSE ended /\ Sized(ml_bitpos + 1)

IInv == /\ TypeOK /\ LogText /\ Timed /\ InMinute
        /\ AtGetBit /\ AtBit /\ AtEnd

-----------------------------------------------------------------------------
(***************************************************************************)
(* Initially nothing was read.                                             *)
(***************************************************************************)
LEMMA InitIInv == Init => IInv
  <1>1. BUFLEN \in Nat /\ BUFLEN > 0 /\ AccMod \in Nat /\ AccMod > 0
    BY InputAssumption
  <1> SUFFICES ASSUME Init PROVE IInv
    OBVIOUS
  <1> USE <1>1 DEF Init, InputInit, MainloopInit, Positions
  <1>2. InputTypeOK
    BY DEF InputTypeOK, GB_result, BitValues, Markers, HwStats, ebv_0
  <1>3. MainloopTypeOK
    <2>1. heard \in [Positions -> BitValues]
      BY DEF BitValues
    <2>2. pc \in Stages /\ minlen \in -1 .. BUFLEN /\ ml_bitpos \in Positions
      BY DEF Stages
    <2>3. decoded \in Calls \cup {NoCall}
      OBVIOUS
    <2>4. init_min \in 0 .. 2 /\ count \in 0 .. BUFLEN + 1 /\ markers \in 0 .. 3
      OBVIOUS
    <2>5. /\ was_toolong \in BOOLEAN /\ quit \in BOOLEAN
          /\ settime \in BOOLEAN /\ clock_set \in BOOLEAN
      OBVIOUS
    <2> QED
      BY <2>1, <2>2, <2>3, <2>4, <2>5, Zenon DEF MainloopTypeOK
  <1>4. /\ next \in LogBits \cup {"newline", "EOF"} /\ LogBits \subseteq BitChars
        /\ next = "newline" => ~has_length
    <2>1. NoChar \notin {"a", "c", "newline"}
      BY DEF NoChar
    <2>2. Follows(NoChar) = {"EOF"} \cup (LogBits \cup ({Ending} \ {"a"}))
      BY <2>1, Zenon DEF Follows
    <2>3. /\ Ending \in {"a", "newline"} /\ (Ending = "newline" => ~has_length)
          /\ LogBits \subseteq BitChars /\ "newline" \notin BitChars
      BY LogAssumption DEF Ending, BitChars
    <2> QED
      BY <2>2, <2>3
  <1>5. TypeOK
    <2>1. recorded \in 0 .. AccMod - 1
      OBVIOUS
    <2> QED
      BY <1>2, <1>3, <1>4, <2>1, Zenon DEF TypeOK, Separators
  <1>6. LogText /\ Timed /\ InMinute
    BY <1>4 DEF LogText, Timed, InMinute, End, EndMarkers, NoChar
  <1>7. ~Last
    BY DEF Last, BitChars, NoChar
  <1>8. AtGetBit /\ AtBit /\ AtEnd
    BY <1>7 DEF AtGetBit, AtBit, AtEnd, Placed, Back, Whole,
       Framing!Holds, Framing!Positions
  <1> QED
    BY <1>5, <1>6, <1>8 DEF IInv

-----------------------------------------------------------------------------
(***************************************************************************)
(* What a call of get_bit_file() leaves for any character.                 *)
(***************************************************************************)
LEMMA ReadFacts ==
  ASSUME IInv, Turn,
         NEW ch \in BitChars \cup Separators,
         NEW coming \in BitChars \cup Separators \cup {"EOF"},
         NEW length \in 0 .. AccMod - 1, NEW readable \in BOOLEAN,
         get_bit_file(ch, coming, length, readable)
  PROVE  /\ InputTypeOK'
         /\ gb_res'.skip <=> ch \in Separators
         /\ gb_res'.done <=> coming = "EOF" \/ (ch = "a" /\ ~readable)
         /\ gb_res'.marker =
              IF EndsMinute(ch)
                THEN IF gb_res.marker = "emark_toolong" THEN "emark_late"
                                                        ELSE "emark_minute"
                ELSE IF gb_res.marker = "emark_toolong" THEN "emark_toolong"
                                                        ELSE "emark_none"
         /\ read_acc_minlen' = KeepsLength(ch, readable)
         /\ bitpos' = bitpos /\ oldinch' = ch /\ next' = coming
         /\ dec_bp' = IF LookAhead(ch, coming) THEN 1 ELSE dec_bp
  <1>1. /\ BUFLEN \in Nat /\ BUFLEN > 0 /\ AccMod \in Nat /\ AccMod > 0
        /\ Second \in Nat
    BY InputAssumption
  <1>2. InputTypeOK /\ gb_res.marker \in {"emark_none", "emark_minute", "emark_toolong"}
    BY DEF IInv, TypeOK, AtGetBit, Turn, InputTypeOK, GB_result, Markers
  <1>3. /\ NewState \in GB_result
        /\ NewState.marker = IF gb_res.marker = "emark_toolong" THEN "emark_toolong"
                                                               ELSE "emark_none"
    BY <1>2 DEF NewState, GB_result, Markers, BitValues, HwStats
  <1>4. BitVal(ch) \in BitValues /\ Status(ch) \in HwStats
    BY DEF BitVal, Status, BitValues, HwStats
  <1>5. /\ FileMarker(NewState.marker) =
             IF gb_res.marker = "emark_toolong" THEN "emark_late" ELSE "emark_minute"
        /\ FileMarker(NewState.marker) \in Markers
    BY <1>3 DEF FileMarker, Markers
  <1>6. /\ gb_res' \in GB_result
        /\ gb_res'.skip = (ch \in Separators)
        /\ gb_res'.done = (coming = "EOF" \/ (ch = "a" /\ ~readable))
        /\ gb_res'.marker = IF EndsMinute(ch) THEN FileMarker(NewState.marker)
                                              ELSE NewState.marker
    <2> DEFINE old  == NewState
               bad  == ch = "*"
               done == coming = "EOF" \/ (ch = "a" /\ ~readable)
               skip == ch \in Separators
               val  == BitVal(ch)
               stat == Status(ch)
               mark == IF EndsMinute(ch) THEN FileMarker(NewState.marker)
                                         ELSE NewState.marker
    <2>1. gb_res' = [old EXCEPT !.bad_io = bad, !.done = done, !.bitval = val,
                                !.marker = mark, !.hwstat = stat, !.skip = skip]
      BY Zenon DEF get_bit_file
    <2>2. old \in GB_result /\ mark \in Markers
      BY <1>3, <1>5 DEF Markers
    <2>3. bad \in BOOLEAN /\ done \in BOOLEAN /\ skip \in BOOLEAN
      OBVIOUS
    <2>4. val \in BitValues /\ stat \in HwStats
      BY <1>4
    <2> HIDE DEF old, bad, done, skip, val, stat, mark
    <2>5. /\ gb_res' \in GB_result
          /\ gb_res'.skip = skip /\ gb_res'.done = done /\ gb_res'.marker = mark
      BY <2>1, <2>2, <2>3, <2>4 DEF GB_result
    <2> QED
      BY <2>5 DEF skip, done, mark
  <1>7. /\ read_acc_minlen' = KeepsLength(ch, readable)
        /\ bitpos' = bitpos /\ oldinch' = ch /\ next' = coming
        /\ dec_bp' = IF LookAhead(ch, coming) THEN 1 ELSE dec_bp
    BY Zenon DEF get_bit_file
  <1>8. FakeT(ch) \in Nat
    <2>1. Second \in Nat /\ (5 * Second) \div 2 \in Nat /\ 0 \in Nat
      BY <1>1
    <2> QED
      BY <2>1, Zenon DEF FakeT
  <1>9. acc_minlen' \in 0 .. AccMod - 1
    <2>1. PICK t \in Nat :
            acc_minlen' = IF ch = "a" /\ readable THEN length
                          ELSE IF read_acc_minlen' THEN acc_minlen
                          ELSE (acc_minlen + t) % AccMod
      BY <1>1, <1>8 DEF get_bit_file
    <2>2. acc_minlen \in 0 .. AccMod - 1
      BY <1>2 DEF InputTypeOK
    <2>3. (acc_minlen + t) % AccMod \in 0 .. AccMod - 1
      BY <1>1, <2>2
    <2> QED
      BY <2>1, <2>2, <2>3
  <1>10. buffer' \in [Positions -> {ebv_0, ebv_1}]
    <2>1. buffer \in [Positions -> {ebv_0, ebv_1}]
      BY <1>2 DEF InputTypeOK
    <2>2. ch \in {"0", "1"} => BitVal(ch) \in {ebv_0, ebv_1}
      BY DEF BitVal
    <2>3. buffer' = IF ch \in {"0", "1"} THEN [buffer EXCEPT ![bitpos] = BitVal(ch)]
                                         ELSE buffer
      BY Zenon DEF get_bit_file
    <2> QED
      BY <2>1, <2>2, <2>3
  <1>11. InputTypeOK'
    BY <1>2, <1>6, <1>7, <1>9, <1>10 DEF InputTypeOK
  <1> QED
    BY <1>3, <1>5, <1>6, <1>7, <1>11

(***************************************************************************)
(* A sum may be reduced early.                                             *)
(***************************************************************************)
LEMMA ModUnique ==
  ASSUME NEW n \in Nat \ {0}, NEW q \in Int, NEW r \in 0 .. n - 1
  PROVE  (n * q + r) % n = r
  <1> DEFINE x == n * q + r
             p == x \div n
             s == x % n
  <1>1. x \in Int
    OBVIOUS
  <1>2. p \in Int /\ s \in 0 .. n - 1 /\ x = n * p + s
    BY <1>1
  <1> HIDE DEF p, s
  <1>3. n * (q - p) = s - r
    BY <1>2
  <1>4. q - p = 0
    <2>1. q - p >= 1 => n * (q - p) >= n
      BY <1>2
    <2>2. q - p <= -1 => n * (q - p) <= -n
      BY <1>2
    <2> QED
      BY <1>2, <1>3, <2>1, <2>2
  <1>5. s = r
    BY <1>2, <1>3, <1>4
  <1> QED
    BY <1>5 DEF s

LEMMA ModSum ==
  ASSUME NEW n \in Nat \ {0}, NEW a \in Nat, NEW b \in Nat
  PROVE  ((a % n) + b) % n = (a + b) % n
  <1> DEFINE q == a \div n
             r == a % n
             p == (r + b) \div n
             s == (r + b) % n
  <1>1. q \in Int /\ r \in 0 .. n - 1 /\ a = n * q + r
    OBVIOUS
  <1> HIDE DEF q, r
  <1>2. p \in Int /\ s \in 0 .. n - 1 /\ r + b = n * p + s
    BY <1>1
  <1> HIDE DEF p, s
  <1>3. a + b = n * (q + p) + s
    BY <1>1, <1>2
  <1>4. (n * (q + p) + s) % n = s
    <2>1. q + p \in Int
      BY <1>1, <1>2
    <2> QED
      BY <1>2, <2>1, ModUnique, Zenon
  <1> QED
    BY <1>3, <1>4 DEF r, s

-----------------------------------------------------------------------------
(***************************************************************************)
(* What get_bit_file() and the turn leave alone keeps its type.            *)
(***************************************************************************)
LEMMA ReadTypeOK ==
  ASSUME IInv, Turn, InputTypeOK',
         oldinch' \in BitChars \cup Separators \cup {NoChar},
         next' \in BitChars \cup Separators \cup {"EOF"},
         read_acc_minlen' \in BOOLEAN, has_length' \in BOOLEAN, ended' \in BOOLEAN,
         recorded' \in 0 .. AccMod - 1,
         decoded' \in {decoded, NoCall},
         \/ UNCHANGED <<heard, count>> /\ markers' \in 0 .. 3
         \/ \E v \in BitValues, last \in BOOLEAN : Hear(v, last)
  PROVE  TypeOK'
  <1>1. TypeOK /\ MainloopTypeOK /\ BUFLEN \in Nat
    BY InputAssumption DEF IInv, TypeOK
  <1>2. /\ heard' \in [Positions -> BitValues] /\ count' \in 0 .. BUFLEN + 1
        /\ markers' \in 0 .. 3
    <2>1. CASE UNCHANGED <<heard, count>> /\ markers' \in 0 .. 3
      BY <1>1, <2>1 DEF MainloopTypeOK
    <2>2. CASE \E v \in BitValues, last \in BOOLEAN : Hear(v, last)
      BY <1>1, <2>2 DEF Hear, MainloopTypeOK, Positions
    <2> QED
      BY <2>1, <2>2
  <1>3. pc' \in Stages /\ clock_set' \in BOOLEAN /\ decoded' \in Calls \cup {NoCall}
    BY <1>1 DEF Turn, Stages, MainloopTypeOK
  <1>4. /\ minlen' \in -1 .. BUFLEN /\ ml_bitpos' \in Positions /\ init_min' \in 0 .. 2
        /\ was_toolong' \in BOOLEAN /\ quit' \in BOOLEAN /\ settime' \in BOOLEAN
    BY <1>1 DEF Turn, resultVars, MainloopTypeOK
  <1>5. MainloopTypeOK'
    BY <1>2, <1>3, <1>4, Zenon DEF MainloopTypeOK
  <1> QED
    BY <1>5, Zenon DEF TypeOK

(***************************************************************************)
(* A bit of the log finds the position of the last one behind it.          *)
(***************************************************************************)
LEMMA BeforeBit ==
  ASSUME IInv, pc = "get_bit", next \in BitChars
  PROVE  /\ ~ended /\ ~read_acc_minlen
         /\ ~has_length => recorded = acc_minlen
         /\ IF minlen = -1 THEN count \in BUFLEN .. BUFLEN + 1
                           ELSE Whole(bitpos) /\ dec_bp = 0
  <1>1. /\ BUFLEN \in Nat /\ BUFLEN > 0 /\ count \in 0 .. BUFLEN + 1
        /\ End => count = 0
        /\ count = 0 => ~ended
        /\ ~gb_res.done
    BY InputAssumption
       DEF IInv, TypeOK, MainloopTypeOK, AtGetBit, End, EndMarkers
  <1>2. ~ended /\ ~read_acc_minlen /\ next # "newline"
    <2>1. next \notin {"EOF", "a", "c", "newline"}
      BY DEF BitChars
    <2>2. ~ended
      <3>1. ended => ~(End \/ count = 0)
        BY <1>1
      <3> QED
        BY <1>1, <2>1, <3>1, Zenon DEF IInv, LogText
    <2> QED
      BY <2>1, <2>2, Zenon DEF IInv, LogText
  <1>3. ~has_length => recorded = acc_minlen
    BY DEF IInv, Timed
  <1>4. Placed(minlen = -1) /\ ~Back
    BY <1>2 DEF IInv, AtGetBit, Back, Last
  <1> QED
    BY <1>1, <1>2, <1>3, <1>4 DEF Placed, Whole

(***************************************************************************)
(* A bit extends the history and the buffer by the same position.          *)
(***************************************************************************)
LEMMA HearWhole ==
  ASSUME IInv, pc = "get_bit", next \in BitChars, minlen # -1,
         NEW coming, get_bit_file(next, coming, 0, TRUE),
         NEW last, Hear(BitVal(next), last)
  PROVE  Whole(bitpos + 1)'
  <1>1. BUFLEN \in Nat /\ BUFLEN > 0
    BY InputAssumption
  <1>2. /\ bitpos \in Positions /\ buffer \in [Positions -> {ebv_0, ebv_1}]
        /\ heard \in [Positions -> BitValues] /\ count \in 0 .. BUFLEN + 1
    BY DEF IInv, TypeOK, InputTypeOK, MainloopTypeOK
  <1>3. count = bitpos /\ Framing!Holds(buffer)
    BY BeforeBit DEF Whole
  <1>4. bitpos' = bitpos
    BY DEF get_bit_file
  <1>5. /\ heard' = IF count < BUFLEN THEN [heard EXCEPT ![count] = BitVal(next)]
                                      ELSE heard
        /\ count' = IF count <= BUFLEN THEN count + 1 ELSE count
    BY DEF Hear
  <1>6. buffer' = IF next \in {"0", "1"} THEN [buffer EXCEPT ![bitpos] = BitVal(next)]
                                         ELSE buffer
    BY Zenon DEF get_bit_file
  <1>7. next \notin {"0", "1"} => BitVal(next) = ebv_none
    BY DEF BitVal
  <1>8. count < BUFLEN /\ count' = count + 1
    BY <1>1, <1>2, <1>3, <1>5 DEF Positions
  <1>9. ASSUME NEW i \in Positions, i < count', heard'[i] # ebv_none
        PROVE  buffer'[i] = heard'[i]
    <2>1. CASE i = count
      BY <1>2, <1>3, <1>5, <1>6, <1>7, <1>8, <1>9, <2>1
    <2>2. CASE i # count
      <3>1. i < count
        BY <1>1, <1>2, <1>8, <1>9, <2>2 DEF Positions
      <3>2. heard'[i] = heard[i] /\ buffer'[i] = buffer[i]
        BY <1>2, <1>3, <1>5, <1>6, <2>2
      <3> QED
        BY <1>3, <1>9, <3>1, <3>2 DEF Framing!Holds, Framing!Positions, Positions
    <2> QED
      BY <2>1, <2>2
  <1>10. Framing!Holds(buffer)'
    BY <1>9 DEF Framing!Holds, Framing!Positions, Positions
  <1> QED
    BY <1>3, <1>4, <1>8, <1>10 DEF Whole

(***************************************************************************)
(* Reading a bit preserves the invariant.                                  *)
(***************************************************************************)
LEMMA FakeTNat ==
  ASSUME NEW ch
  PROVE  FakeT(ch) \in Nat
  <1>1. Second \in Nat /\ (5 * Second) \div 2 \in Nat /\ 0 \in Nat
    BY InputAssumption
  <1> QED
    BY <1>1, Zenon DEF FakeT

LEMMA FollowsBit ==
  ASSUME next \in BitChars, NEW coming \in Follows(next)
  PROVE  /\ coming = "a" => has_length
         /\ coming = "newline" => ~has_length
         /\ coming \in LogBits \cup {"EOF", "newline", "a"}
         /\ coming \in Separators <=> coming \in {"a", "newline"}
         /\ coming \in BitChars \cup Separators \cup {"EOF"}
  <1>1. next \notin {"a", "c", "newline", NoChar}
    BY DEF BitChars, NoChar
  <1>2. Follows(next) = {"EOF"} \cup (LogBits \cup {Ending})
    BY <1>1, Zenon DEF Follows
  <1>3. /\ LogBits \subseteq BitChars
        /\ Ending = IF has_length THEN "a" ELSE "newline"
    BY LogAssumption DEF Ending
  <1>4. \A ch \in BitChars \cup {"EOF"} : ch \notin {"a", "c", "newline"}
    BY DEF BitChars
  <1> QED
    BY <1>2, <1>3, <1>4 DEF Separators

LEMMA GetBitCharIInv ==
  ASSUME IInv, GetBitChar
  PROVE  IInv'
  <1>1. PICK coming \in Follows(next) :
          /\ get_bit_file(next, coming, 0, TRUE)
          /\ ended' = (coming = "a")
          /\ \E t \in Lengths(next, coming) : recorded' = (recorded + t) % AccMod
          /\ Hear(BitVal(next), coming = "a")
    BY Zenon DEF GetBitChar
  <1>2. /\ Turn /\ pc = "get_bit" /\ next \in BitChars /\ decoded' = NoCall
        /\ UNCHANGED has_length
    BY DEF GetBitChar, Turn
  <1>3. /\ BUFLEN \in Nat /\ BUFLEN > 0 /\ AccMod \in Nat \ {0} /\ Second \in Nat
        /\ 0 .. AccMod - 1 \subseteq Nat /\ 0 \in 0 .. AccMod - 1
    BY InputAssumption
  <1>4. /\ coming = "a" => has_length
        /\ coming = "newline" => ~has_length
        /\ coming \in LogBits \cup {"EOF", "newline", "a"}
        /\ coming \in Separators <=> coming \in {"a", "newline"}
        /\ coming \in BitChars \cup Separators \cup {"EOF"}
    BY <1>1, <1>2, FollowsBit
  <1>5. /\ ~ended /\ ~read_acc_minlen
        /\ ~has_length => recorded = acc_minlen
        /\ IF minlen = -1 THEN count \in BUFLEN .. BUFLEN + 1
                          ELSE Whole(bitpos) /\ dec_bp = 0
    BY <1>2, BeforeBit
  <1>6. /\ ~EndsMinute(next) /\ next \notin Separators /\ next # "a"
        /\ KeepsLength(next, TRUE) = read_acc_minlen
        /\ next \notin {NoChar, "newline"}
    BY <1>2 DEF EndsMinute, Separators, BitChars, KeepsLength, NoChar
  <1>7. /\ InputTypeOK'
        /\ ~gb_res'.skip
        /\ gb_res'.done <=> coming = "EOF"
        /\ gb_res'.marker = IF gb_res.marker = "emark_toolong" THEN "emark_toolong"
                                                               ELSE "emark_none"
        /\ read_acc_minlen' = KeepsLength(next, TRUE)
        /\ bitpos' = bitpos /\ oldinch' = next /\ next' = coming
        /\ dec_bp' = IF LookAhead(next, coming) THEN 1 ELSE dec_bp
    <2>1. next \in BitChars \cup Separators
      BY <1>2
    <2> QED
      BY <1>1, <1>2, <1>3, <1>4, <1>6, <2>1, ReadFacts
  <1>8. ~read_acc_minlen' /\ ~End'
    BY <1>5, <1>6, <1>7 DEF End, EndMarkers
  <1>9. /\ acc_minlen \in 0 .. AccMod - 1 /\ recorded \in 0 .. AccMod - 1
        /\ count \in 0 .. BUFLEN + 1 /\ bitpos \in Positions
        /\ ended' \in BOOLEAN /\ has_length \in BOOLEAN
    BY <1>1 DEF IInv, TypeOK, InputTypeOK, MainloopTypeOK
  <1>10. count' > 0 /\ count' = IF count <= BUFLEN THEN count + 1 ELSE count
    BY <1>1, <1>3, <1>9 DEF Hear
  <1>11. FakeT(next) \in Nat
    BY FakeTNat
  <1>12. acc_minlen' = (acc_minlen + FakeT(next)) % AccMod
    BY <1>1, <1>6, <1>8, Zenon DEF get_bit_file
  <1>13. PICK t \in Nat :
           /\ recorded' = (recorded + t) % AccMod
           /\ ~has_length => t = FakeT(next)
    <2>1. PICK t \in Lengths(next, coming) : recorded' = (recorded + t) % AccMod
      BY <1>1
    <2>2. t \in Nat
      BY <1>3, <1>11, Zenon DEF Lengths
    <2>3. ~has_length => t = FakeT(next)
      BY Zenon DEF Lengths
    <2> QED
      BY <2>1, <2>2, <2>3
  <1>14. TypeOK'
    <2>1. recorded' \in 0 .. AccMod - 1
      BY <1>3, <1>9, <1>13
    <2>2. read_acc_minlen' \in BOOLEAN
      BY <1>5, <1>6, <1>7 DEF IInv, TypeOK
    <2>3. BitVal(next) \in BitValues /\ (coming = "a") \in BOOLEAN
      BY DEF BitVal, BitValues
    <2>4. \E v \in BitValues, last \in BOOLEAN : Hear(v, last)
      BY <1>1, <2>3
    <2>5. has_length' \in BOOLEAN
      BY <1>2, <1>9
    <2> QED
      BY <1>2, <1>4, <1>7, <1>9, <2>1, <2>2, <2>4, <2>5, ReadTypeOK
  <1>15. LogText'
    <2>1. /\ oldinch' \notin {NoChar, "newline"} /\ oldinch' # NoChar
          /\ oldinch' \in BitChars
          /\ ~(End' \/ count' = 0)
          /\ next' = "EOF" => gb_res'.done
      BY <1>2, <1>6, <1>7, <1>8, <1>10
    <2>2. ended' => has_length' /\ next' = "a"
      BY <1>1, <1>2, <1>4, <1>7
    <2>3. ~ended' => /\ next' \in LogBits \cup {"EOF", "newline"}
                     /\ next' = "newline" => ~has_length'
      BY <1>1, <1>2, <1>4, <1>7
    <2> QED
      BY <1>8, <2>1, <2>2, <2>3, Zenon DEF LogText
  <1>16. Timed'
    <2>1. ~has_length => acc_minlen' = recorded'
      BY <1>5, <1>12, <1>13
    <2> QED
      BY <1>2, <1>8, <1>10, <2>1 DEF Timed
  <1>17. InMinute'
    BY <1>1, <1>2, <1>4, <1>8, <1>10 DEF InMinute
  <1>18. AtBit'
    <2>1. /\ pc' = "process_input" /\ minlen' = minlen /\ ~was_toolong
          /\ was_toolong' = was_toolong
      BY <1>2 DEF Turn, IInv, AtGetBit
    <2>2. /\ dec_bp # 1
          /\ gb_res.marker = "emark_toolong" => minlen = -1
      BY <1>2 DEF IInv, AtGetBit
    <2>3. Last' <=> coming \in Separators
      <3>1. next \in BitChars /\ ended' \in BOOLEAN
        BY <1>1, <1>2
      <3> QED
        BY <1>1, <1>4, <1>7, <3>1 DEF Last
    <2>4. LookAhead(next, coming) <=> dec_bp = 0 /\ bitpos > 0 /\ Last'
      BY <1>6, <2>3 DEF LookAhead
    <2>5. /\ ~was_toolong' /\ pc' # "next_bit" /\ oldinch' # NoChar
          /\ gb_res'.marker \in {"emark_toolong", "emark_late"} => minlen' = -1
          /\ dec_bp' = 1 => bitpos' > 0
          /\ gb_res'.skip <=> oldinch' \notin BitChars \cup {NoChar}
          /\ ~(count' = 0)
      BY <1>2, <1>6, <1>7, <1>10, <2>1, <2>2, <2>4
    <2>6. CASE minlen = -1
      <3>1. count' = BUFLEN + 1
        BY <1>3, <1>5, <1>10, <2>6
      <3> QED
        BY <2>1, <2>5, <2>6, <3>1, Zenon DEF AtBit
    <2>7. CASE minlen # -1
      <3>1. Whole(bitpos + 1)'
        BY <1>1, <1>2, <2>7, HearWhole
      <3>2. dec_bp' = IF Last' /\ bitpos' > 0 THEN 1 ELSE 0
        BY <1>5, <1>7, <2>4, <2>7
      <3>3. AtChar'
        BY <1>6, <1>7, <1>8, <3>1, <3>2, Zenon DEF AtChar
      <3> QED
        BY <2>1, <2>5, <2>7, <3>3, Zenon DEF AtBit
    <2> QED
      BY <2>6, <2>7
  <1>19. AtGetBit' /\ AtEnd'
    BY <1>2 DEF Turn, AtGetBit, AtEnd
  <1> QED
    BY <1>14, <1>15, <1>16, <1>17, <1>18, <1>19 DEF IInv

(***************************************************************************)
(* Reading the length or the cutoff of a minute: all its bits were heard,  *)
(* and from the length on acc_minlen has its value.                        *)
(***************************************************************************)
LEMMA SeparatorIInv ==
  ASSUME IInv, GetLength \/ GetCutoff
  PROVE  IInv'
  <1>1. /\ Turn /\ pc = "get_bit" /\ next \in {"a", "c"}
        /\ UNCHANGED <<logVars, decoded, historyVars>>
    BY DEF GetLength, GetCutoff, Turn
  <1>2. /\ BUFLEN \in Nat /\ BUFLEN > 0 /\ AccMod \in Nat \ {0}
        /\ 0 \in 0 .. AccMod - 1 /\ recorded \in 0 .. AccMod - 1
    BY InputAssumption DEF IInv, TypeOK
  <1>3. PICK coming \in Follows(next), length \in 0 .. AccMod - 1,
             readable \in BOOLEAN :
          /\ get_bit_file(next, coming, length, readable)
          /\ ~readable => next = "a"
          /\ next = "a" => length = recorded
    <2>1. CASE GetLength
      BY <1>2, <2>1, Zenon DEF GetLength
    <2>2. CASE GetCutoff
      <3>1. next = "c" /\ \E coming \in Follows(next) : get_bit_file(next, coming, 0, TRUE)
        BY <2>2, Zenon DEF GetCutoff
      <3>2. next # "a"
        BY <3>1
      <3> QED
        BY <1>2, <3>1, <3>2, Zenon
    <2> QED
      BY <2>1, <2>2
  <1>4. /\ coming \in {"EOF", "c", "newline"}
        /\ coming \in BitChars \cup Separators \cup {"EOF"}
        /\ next \in Separators /\ next \in BitChars \cup Separators
    <2>1. coming \in {"EOF", "c", "newline"}
      <3>1. CASE next = "a"
        <4>1. next # "c" /\ next # "newline" /\ next # NoChar
          BY <3>1 DEF NoChar
        <4>2. Follows(next) = {"EOF"} \cup {"c", "newline"}
          BY <3>1, <4>1, Zenon DEF Follows
        <4> QED
          BY <1>3, <4>2
      <3>2. CASE next = "c"
        <4>1. next # "a" /\ next # "newline" /\ next # NoChar
          BY <3>2 DEF NoChar
        <4>2. Follows(next) = {"EOF"} \cup {"newline"}
          BY <3>2, <4>1, Zenon DEF Follows
        <4> QED
          BY <1>3, <4>2
      <3> QED
        BY <1>1, <3>1, <3>2
    <2> QED
      BY <1>1, <2>1 DEF Separators
  <1>5. /\ ~EndsMinute(next) /\ next \notin {"0", "1", NoChar, "newline"}
        /\ KeepsLength(next, readable) = IF next = "a" THEN readable ELSE read_acc_minlen
    BY <1>1 DEF EndsMinute, KeepsLength, NoChar
  <1>6. /\ count > 0 /\ decoded = NoCall /\ ~End /\ ended /\ has_length
        /\ next = "c" => read_acc_minlen
    <2>1. next \notin LogBits \cup {"newline", "EOF"}
      BY <1>1, LogAssumption DEF BitChars
    <2>2. ~(End \/ count = 0) /\ ended
      <3>1. next \notin LogBits \cup {"EOF", "newline"}
        BY <2>1
      <3> QED
        BY <2>1, <3>1, Zenon DEF IInv, LogText
    <2>3. count > 0 /\ decoded = NoCall
      BY <2>2 DEF IInv, InMinute
    <2>4. ~gb_res.done
      BY <1>1 DEF IInv, AtGetBit
    <2>5. /\ has_length
          /\ \/ oldinch \in BitChars /\ next = "a" /\ ~read_acc_minlen
             \/ /\ oldinch \notin BitChars /\ next \in {"c", "newline"}
                /\ read_acc_minlen
      BY <2>2, <2>4, Zenon DEF IInv, LogText
    <2> QED
      BY <1>1, <2>2, <2>3, <2>5
  <1>7. /\ InputTypeOK'
        /\ gb_res'.skip
        /\ gb_res'.done <=> coming = "EOF" \/ (next = "a" /\ ~readable)
        /\ gb_res'.marker = IF gb_res.marker = "emark_toolong" THEN "emark_toolong"
                                                               ELSE "emark_none"
        /\ read_acc_minlen' = KeepsLength(next, readable)
        /\ bitpos' = bitpos /\ oldinch' = next /\ next' = coming
        /\ dec_bp' = IF LookAhead(next, coming) THEN 1 ELSE dec_bp
    BY <1>1, <1>3, <1>4, <1>5, ReadFacts
  <1>8. ~End' /\ ended' /\ has_length' /\ count' > 0 /\ count' = count /\ decoded' = NoCall
    BY <1>1, <1>6, <1>7 DEF End, EndMarkers, logVars, historyVars
  <1>9. read_acc_minlen' = IF next = "a" THEN readable ELSE TRUE
    BY <1>1, <1>5, <1>6, <1>7 DEF IInv, TypeOK
  <1>10. read_acc_minlen' => acc_minlen' = recorded'
    <2>1. acc_minlen' = IF next = "a" /\ readable THEN length
                        ELSE IF read_acc_minlen' THEN acc_minlen
                        ELSE (acc_minlen + FakeT(next)) % AccMod
      BY <1>3, <1>5, Zenon DEF get_bit_file
    <2>2. next = "c" => acc_minlen = recorded
      BY <1>6 DEF IInv, Timed
    <2> QED
      BY <1>1, <1>3, <1>9, <2>1, <2>2 DEF logVars
  <1>11. TypeOK'
    <2>1. read_acc_minlen' \in BOOLEAN /\ recorded' \in 0 .. AccMod - 1
      BY <1>1, <1>2, <1>9 DEF logVars
    <2>2. /\ has_length' \in BOOLEAN /\ ended' \in BOOLEAN /\ decoded' = decoded
          /\ UNCHANGED <<heard, count>> /\ markers' \in 0 .. 3
      BY <1>1 DEF logVars, historyVars, IInv, TypeOK, MainloopTypeOK
    <2> QED
      BY <1>1, <1>4, <1>7, <2>1, <2>2, ReadTypeOK, Zenon
  <1>12. LogText'
    <2>1. /\ oldinch' \notin {NoChar, "newline"} /\ oldinch' # NoChar
          /\ oldinch' \notin BitChars
          /\ next' = "EOF" => gb_res'.done
          /\ ~(End' \/ count' = 0)
      <3>1. next \notin BitChars
        BY <1>1 DEF BitChars
      <3> QED
        BY <1>1, <1>5, <1>7, <1>8, <3>1
    <2>2. gb_res'.done \/ (next' \in {"c", "newline"} /\ read_acc_minlen')
      BY <1>1, <1>3, <1>4, <1>7, <1>9
    <2> QED
      BY <1>8, <2>1, <2>2, Zenon DEF LogText
  <1>13. Timed' /\ InMinute'
    BY <1>8, <1>10 DEF Timed, InMinute
  <1>14. AtBit'
    <2>1. /\ pc' = "process_input" /\ minlen' = minlen /\ ~was_toolong'
          /\ dec_bp # 1 /\ Placed(minlen = -1) /\ oldinch' # NoChar
          /\ Last /\ Last'
      BY <1>1, <1>5, <1>6, <1>7, <1>8 DEF Turn, IInv, AtGetBit, Last
    <2>2. gb_res'.marker \in {"emark_toolong", "emark_late"} => minlen' = -1
      BY <1>1, <1>7, <2>1 DEF IInv, AtGetBit
    <2>3. /\ dec_bp' = 1 => bitpos' > 0
          /\ ~(count' = 0) /\ pc' # "next_bit"
          /\ gb_res'.skip <=> oldinch' \notin BitChars \cup {NoChar}
      <3>1. next \notin BitChars
        BY <1>1 DEF BitChars
      <3>2. dec_bp' = 1 => bitpos' > 0
        BY <1>7, <2>1 DEF LookAhead
      <3> QED
        BY <1>1, <1>5, <1>7, <1>8, <2>1, <3>1, <3>2
    <2>4. CASE minlen = -1
      <3>1. count' = BUFLEN + 1
        BY <1>8, <2>1, <2>4 DEF Placed
      <3> QED
        BY <2>1, <2>2, <2>3, <2>4, <3>1, Zenon DEF AtBit
    <2>5. CASE minlen # -1
      <3>1. buffer' = buffer
        BY <1>3, <1>5, Zenon DEF get_bit_file
      <3>2. \A n : Whole(n) => count' = n /\ Framing!Holds(buffer)'
        BY <1>1, <3>1 DEF Whole, Framing!Holds, historyVars
      <3>3. CASE Back
        <4>1. Whole(bitpos + 1) /\ dec_bp = 2
          BY <2>1, <2>5, <3>3 DEF Placed
        <4>2. Whole(bitpos + 1)' /\ dec_bp' = 2
          BY <1>7, <3>2, <4>1 DEF Whole, LookAhead
        <4>3. AtChar'
          BY <1>7, <1>8, <2>1, <4>2, Zenon DEF AtChar
        <4> QED
          BY <2>1, <2>2, <2>3, <2>5, <4>3, Zenon DEF AtBit
      <3>4. CASE ~Back
        <4>1. count = 1 /\ Whole(bitpos) /\ dec_bp = 0
          BY <2>1, <2>5, <3>4 DEF Placed, Back
        <4>2. bitpos > 0 /\ Whole(bitpos)'
          BY <1>7, <3>2, <4>1 DEF Whole
        <4>3. gb_res'.done \/ dec_bp' = 1
          BY <1>4, <1>5, <1>7, <4>1, <4>2 DEF LookAhead, Separators
        <4>4. AtChar'
          BY <1>7, <1>8, <2>1, <4>2, <4>3, Zenon DEF AtChar
        <4> QED
          BY <2>1, <2>2, <2>3, <2>5, <4>4, Zenon DEF AtBit
      <3> QED
        BY <3>3, <3>4
    <2> QED
      BY <2>4, <2>5
  <1>15. AtGetBit' /\ AtEnd'
    BY <1>1 DEF Turn, AtGetBit, AtEnd
  <1> QED
    BY <1>11, <1>12, <1>13, <1>14, <1>15 DEF IInv

(***************************************************************************)
(* Between two minutes everything starts from 0.                           *)
(***************************************************************************)
LEMMA BetweenMinutes ==
  ASSUME IInv, pc = "get_bit", count = 0
  PROVE  /\ bitpos = 0 /\ dec_bp = 0 /\ minlen # -1
         /\ ~ended /\ ~read_acc_minlen /\ acc_minlen = 0 /\ recorded = 0
         /\ gb_res.marker # "emark_toolong"
         /\ oldinch \in {NoChar, "newline"}
  <1>1. BUFLEN \in Nat /\ BUFLEN > 0 /\ bitpos \in Positions
    BY InputAssumption DEF IInv, TypeOK, InputTypeOK
  <1>2. ~ended
    BY DEF IInv, AtGetBit
  <1>3. ~read_acc_minlen /\ oldinch \in {NoChar, "newline"}
    BY Zenon DEF IInv, LogText
  <1>4. acc_minlen = 0 /\ recorded = 0
    BY <1>2 DEF IInv, Timed
  <1>5. /\ Placed(minlen = -1)
        /\ gb_res.marker = "emark_toolong" => minlen = -1
    BY DEF IInv, AtGetBit
  <1>6. minlen # -1
    BY <1>1, <1>5 DEF Placed
  <1>7. ~Back
    BY <1>2, <1>3 DEF Back, Last, BitChars, NoChar
  <1> QED
    BY <1>2, <1>3, <1>4, <1>5, <1>6, <1>7 DEF Placed, Whole

(***************************************************************************)
(* The newline after a minute: its marker comes with the last bit, which   *)
(* the position still is at, and with the duration in place.               *)
(***************************************************************************)
LEMMA ReadNewline ==
  ASSUME IInv, GetNewline, NEW coming \in Follows(next),
         get_bit_file(next, coming, 0, TRUE)
  PROVE  /\ Turn /\ pc = "get_bit" /\ next = "newline"
         /\ coming \in LogBits \cup {"newline", "EOF"}
         /\ InputTypeOK' /\ gb_res'.skip
         /\ gb_res'.done <=> coming = "EOF"
         /\ gb_res'.marker =
              IF oldinch # "newline"
                THEN IF gb_res.marker = "emark_toolong" THEN "emark_late"
                                                        ELSE "emark_minute"
                ELSE IF gb_res.marker = "emark_toolong" THEN "emark_toolong"
                                                        ELSE "emark_none"
         /\ read_acc_minlen' = IF oldinch # "newline" THEN FALSE ELSE read_acc_minlen
         /\ acc_minlen' =
              IF oldinch # "newline"
                THEN (acc_minlen + IF read_acc_minlen THEN 0 ELSE Second) % AccMod
              ELSE IF read_acc_minlen THEN acc_minlen
              ELSE (acc_minlen + 0) % AccMod
         /\ bitpos' = bitpos /\ dec_bp' = dec_bp /\ buffer' = buffer
         /\ oldinch' = "newline" /\ next' = coming
  <1>1. Turn /\ pc = "get_bit" /\ next = "newline"
    BY DEF GetNewline, Turn
  <1>2. AccMod \in Nat \ {0} /\ 0 \in 0 .. AccMod - 1 /\ LogBits \subseteq BitChars
    BY InputAssumption, LogAssumption
  <1>3. coming \in LogBits \cup {"newline", "EOF"}
    <2>1. next # "a" /\ next # "c" /\ next # NoChar
      BY <1>1 DEF NoChar
    <2>2. Follows(next) = {"EOF"} \cup (LogBits \cup {"newline"})
      BY <1>1, <2>1, Zenon DEF Follows
    <2> QED
      BY <2>2
  <1>4. /\ next \in Separators /\ next \in BitChars \cup Separators
        /\ coming \in BitChars \cup Separators \cup {"EOF"}
        /\ next # "a" /\ next \notin {"0", "1"}
        /\ EndsMinute(next) <=> oldinch # "newline"
        /\ ~LookAhead(next, coming)
    BY <1>1, <1>2, <1>3 DEF Separators, EndsMinute, LookAhead
  <1>5. FakeT(next) = 0
    <2>1. next \notin {"0", "1", "_"} /\ next \notin {"x", "r", "#"}
      BY <1>1
    <2> QED
      BY <2>1, Zenon DEF FakeT
  <1>6. /\ InputTypeOK'
        /\ gb_res'.skip <=> next \in Separators
        /\ gb_res'.done <=> coming = "EOF" \/ (next = "a" /\ ~TRUE)
        /\ gb_res'.marker =
              IF EndsMinute(next)
                THEN IF gb_res.marker = "emark_toolong" THEN "emark_late"
                                                        ELSE "emark_minute"
                ELSE IF gb_res.marker = "emark_toolong" THEN "emark_toolong"
                                                        ELSE "emark_none"
        /\ read_acc_minlen' = KeepsLength(next, TRUE)
        /\ bitpos' = bitpos /\ oldinch' = next /\ next' = coming
        /\ dec_bp' = IF LookAhead(next, coming) THEN 1 ELSE dec_bp
    BY <1>1, <1>2, <1>4, ReadFacts
  <1>7. read_acc_minlen' = IF oldinch # "newline" THEN FALSE ELSE read_acc_minlen
    BY <1>4, <1>6 DEF KeepsLength
  <1>8. acc_minlen' =
          IF oldinch # "newline"
            THEN (acc_minlen + IF read_acc_minlen THEN 0 ELSE Second) % AccMod
          ELSE IF read_acc_minlen THEN acc_minlen
          ELSE (acc_minlen + 0) % AccMod
    <2>1. acc_minlen' =
            IF read_acc_minlen' THEN acc_minlen
            ELSE (acc_minlen +
                   IF EndsMinute(next) /\ ~read_acc_minlen THEN Second ELSE 0) % AccMod
      BY <1>4, <1>5, Zenon DEF get_bit_file
    <2>2. CASE oldinch # "newline"
      <3>1. /\ EndsMinute(next) /\ ~read_acc_minlen'
            /\ (IF EndsMinute(next) /\ ~read_acc_minlen THEN Second ELSE 0)
                 = IF read_acc_minlen THEN 0 ELSE Second
        BY <1>4, <1>7, <2>2
      <3> QED
        BY <2>1, <2>2, <3>1, Zenon
    <2>3. CASE oldinch = "newline"
      <3>1. ~EndsMinute(next) /\ read_acc_minlen' = read_acc_minlen
        BY <1>4, <1>7, <2>3
      <3> QED
        BY <2>1, <2>3, <3>1, Zenon
    <2> QED
      BY <2>2, <2>3
  <1>9. buffer' = buffer
    BY <1>4, Zenon DEF get_bit_file
  <1> QED
    BY <1>1, <1>3, <1>4, <1>6, <1>7, <1>8, <1>9

LEMMA NewlineIInv ==
  ASSUME IInv, GetNewline
  PROVE  IInv'
  <1>1. PICK coming \in Follows(next) : get_bit_file(next, coming, 0, TRUE)
    BY Zenon DEF GetNewline
  <1>2. /\ Turn /\ pc = "get_bit" /\ next = "newline"
        /\ coming \in LogBits \cup {"newline", "EOF"}
        /\ InputTypeOK' /\ gb_res'.skip
        /\ gb_res'.done <=> coming = "EOF"
        /\ gb_res'.marker =
             IF oldinch # "newline"
               THEN IF gb_res.marker = "emark_toolong" THEN "emark_late"
                                                       ELSE "emark_minute"
               ELSE IF gb_res.marker = "emark_toolong" THEN "emark_toolong"
                                                       ELSE "emark_none"
        /\ read_acc_minlen' = IF oldinch # "newline" THEN FALSE ELSE read_acc_minlen
        /\ acc_minlen' =
             IF oldinch # "newline"
               THEN (acc_minlen + IF read_acc_minlen THEN 0 ELSE Second) % AccMod
             ELSE IF read_acc_minlen THEN acc_minlen
             ELSE (acc_minlen + 0) % AccMod
        /\ bitpos' = bitpos /\ dec_bp' = dec_bp /\ buffer' = buffer
        /\ oldinch' = "newline" /\ next' = coming
    BY <1>1, ReadNewline
  <1>3. /\ BUFLEN \in Nat /\ BUFLEN > 0 /\ AccMod \in Nat \ {0} /\ Second \in Nat
        /\ recorded \in 0 .. AccMod - 1 /\ acc_minlen \in 0 .. AccMod - 1
        /\ read_acc_minlen \in BOOLEAN /\ has_length \in BOOLEAN /\ ended \in BOOLEAN
        /\ count \in 0 .. BUFLEN + 1
        /\ heard \in [Positions -> BitValues]
        /\ BUFLEN > 1
    BY InputAssumption, LogAssumption
       DEF IInv, TypeOK, InputTypeOK, MainloopTypeOK
  <1>4. /\ IF oldinch # "newline" /\ ~has_length
             THEN /\ ended' = TRUE
                  /\ recorded' = (recorded + Second) % AccMod
                  /\ markers' = IF markers < 3 THEN markers + 1 ELSE markers
             ELSE UNCHANGED <<ended, recorded, markers>>
        /\ UNCHANGED <<has_length, decoded, heard, count>>
    BY <1>2, Zenon DEF GetNewline, EndsMinute
  <1>5. /\ pc' = "process_input" /\ minlen' = minlen /\ ~was_toolong'
        /\ dec_bp # 1 /\ Placed(minlen = -1)
        /\ End => count = 0
        /\ ~was_toolong /\ was_toolong' = was_toolong
        /\ gb_res.marker = "emark_toolong" => minlen = -1
        /\ gb_res.marker # "emark_late"
        /\ ~gb_res.done
    BY <1>2 DEF Turn, IInv, AtGetBit, End, EndMarkers
  <1>6. TypeOK'
    <2>1. (recorded + Second) % AccMod \in 0 .. AccMod - 1 /\ markers \in 0 .. 3
      BY <1>3 DEF IInv, TypeOK, MainloopTypeOK
    <2>2. recorded' \in 0 .. AccMod - 1 /\ ended' \in BOOLEAN /\ markers' \in 0 .. 3
      <3>1. CASE oldinch # "newline" /\ ~has_length
        BY <1>4, <2>1, <3>1
      <3>2. CASE ~(oldinch # "newline" /\ ~has_length)
        <4>1. UNCHANGED <<ended, recorded, markers>>
          BY <1>4, <3>2
        <4> QED
          BY <1>3, <2>1, <4>1
      <3> QED
        BY <3>1, <3>2
    <2>3. /\ oldinch' \in BitChars \cup Separators \cup {NoChar}
          /\ next' \in BitChars \cup Separators \cup {"EOF"}
          /\ read_acc_minlen' \in BOOLEAN /\ has_length' \in BOOLEAN
      BY <1>2, <1>3, <1>4, LogAssumption DEF Separators
    <2> QED
      BY <1>2, <1>4, <2>2, <2>3, ReadTypeOK
  <1>7. /\ next' \in LogBits \cup {"newline", "EOF"}
        /\ next' = "EOF" => gb_res'.done
        /\ oldinch' \in {NoChar, "newline"} /\ oldinch' # NoChar
        /\ gb_res'.skip <=> oldinch' \notin BitChars \cup {NoChar}
    BY <1>2 DEF NoChar, BitChars
  <1>8. AtGetBit' /\ AtEnd'
    BY <1>5 DEF AtGetBit, AtEnd
  <1>9. ASSUME oldinch # "newline"
        PROVE  /\ End' /\ ~read_acc_minlen'
               /\ gb_res'.marker \in {"emark_toolong", "emark_late"} => minlen' = -1
               /\ acc_minlen' =
                    (acc_minlen + IF read_acc_minlen THEN 0 ELSE Second) % AccMod
    BY <1>2, <1>5, <1>9 DEF End, EndMarkers
  <1>10. Framing!Length' = IF count' > BUFLEN THEN -1
                           ELSE IF ended' /\ ~has_length' /\ count' < 2
                             THEN count' + 1 ELSE count'
    BY DEF Framing!Length, Bare
  <1>11. Framing!Holds(buffer) => Framing!Holds(buffer)'
    BY <1>2, <1>4 DEF Framing!Holds
  <1>12. ASSUME oldinch # "newline", ended', decoded' = NoCall,
                acc_minlen' = recorded',
                count = 0 => /\ ~has_length /\ minlen # -1
                             /\ bitpos = 0 /\ dec_bp = 0,
                minlen = -1 => count = BUFLEN + 1,
                minlen # -1 => Sized(bitpos + 1)'
         PROVE  IInv'
    <2>1. LogText'
      BY <1>7, <1>9, <1>12, Zenon DEF LogText
    <2>2. Timed' /\ InMinute'
      <3>1. Timed'
        BY <1>9, <1>12 DEF Timed
      <3>2. count' > 0 \/ (count = 0 /\ ~has_length')
        BY <1>3, <1>4, <1>12
      <3> QED
        BY <1>9, <1>12, <3>1, <3>2 DEF InMinute
    <2>3. AtBit'
      <3>1. /\ dec_bp' # 1 /\ pc' # "next_bit" /\ (minlen' = -1 <=> minlen = -1)
            /\ ended' <=> End'
        BY <1>2, <1>5, <1>9, <1>12
      <3>2. CASE count = 0
        <4>1. bitpos' = 0 /\ dec_bp' = 0 /\ minlen' # -1 /\ Sized(bitpos + 1)'
          BY <1>2, <1>12, <3>1, <3>2
        <4> QED
          BY <1>2, <1>4, <1>5, <1>7, <1>9, <3>1, <3>2, <4>1, Zenon DEF AtBit
      <3>3. CASE count # 0
        <4>1. /\ count' # 0 /\ (minlen' = -1 => count' = BUFLEN + 1)
              /\ minlen' # -1 => Sized(bitpos + 1)'
          BY <1>4, <1>12, <3>1, <3>3
        <4>2. minlen' # -1 => AtChar'
          <5>1. End'
            BY <1>9, <1>12
          <5> QED
            BY <4>1, <5>1 DEF AtChar
        <4> QED
          BY <1>2, <1>5, <1>7, <1>9, <3>1, <4>1, <4>2, Zenon DEF AtBit
      <3> QED
        BY <3>2, <3>3
    <2> QED
      BY <1>6, <1>8, <2>1, <2>2, <2>3 DEF IInv
  <1>13. CASE oldinch # "newline" /\ ~has_length
    <2>1. /\ ended' /\ recorded' = (recorded + Second) % AccMod
          /\ has_length' = has_length /\ count' = count
      BY <1>4, <1>13
    <2>2. ~read_acc_minlen /\ ~ended
      <3>1. CASE count = 0
        BY <1>2, <3>1, BetweenMinutes
      <3>2. CASE count # 0
        <4>1. ~(End \/ count = 0)
          BY <1>5, <3>2
        <4>2. ~ended
          BY <1>13, <4>1, Zenon DEF IInv, LogText
        <4> QED
          BY <4>1, <4>2, Zenon DEF IInv, LogText
      <3> QED
        BY <3>1, <3>2
    <2>3. acc_minlen' = recorded'
      <3>1. acc_minlen = recorded
        BY <1>13 DEF IInv, Timed
      <3> QED
        BY <1>9, <1>13, <2>1, <2>2, <3>1
    <2>4. CASE count = 0
      <3>1. /\ bitpos = 0 /\ dec_bp = 0 /\ minlen # -1 /\ oldinch = NoChar
        BY <1>2, <1>13, <2>4, BetweenMinutes
      <3>2. decoded' = NoCall
        <4>1. decoded = NoCall
          BY <3>1, Zenon DEF IInv, LogText
        <4> QED
          BY <1>4, <4>1
      <3>3. Framing!Holds(buffer)'
        BY <2>1, <2>4, <1>3 DEF Framing!Holds, Framing!Positions
      <3>4. Framing!Length' = bitpos' + 1
        BY <1>2, <1>3, <1>10, <1>13, <2>1, <2>4, <3>1
      <3>5. Sized(bitpos + 1)'
        BY <3>3, <3>4 DEF Sized
      <3> QED
        BY <1>12, <1>13, <2>1, <2>3, <2>4, <3>1, <3>2, <3>5
    <2>5. CASE count # 0
      <3>1. oldinch \in BitChars /\ ~(End \/ count = 0)
        <4>1. ~(End \/ count = 0)
          BY <1>5, <2>5
        <4> QED
          BY <2>2, <4>1, Zenon DEF IInv, LogText
      <3>2. decoded' = NoCall
        BY <1>3, <1>4, <2>5 DEF IInv, InMinute
      <3>3. Last
        BY <1>2, <3>1 DEF Last
      <3>4. minlen = -1 => count = BUFLEN + 1
        BY <1>5, <3>3 DEF Placed
      <3>5. ASSUME minlen # -1
            PROVE  Sized(bitpos + 1)'
        <4>1. Whole(IF count = 1 THEN bitpos ELSE bitpos + 1)
          BY <1>5, <3>1, <3>3, <3>5 DEF Placed, Back
        <4>2. CASE count = 1
          <5>1. bitpos = 1 /\ Framing!Holds(buffer)'
            BY <1>11, <4>1, <4>2 DEF Whole
          <5>2. Framing!Length' = bitpos' + 1
            BY <1>2, <1>3, <1>10, <1>13, <2>1, <4>2, <5>1
          <5> QED
            BY <5>1, <5>2 DEF Sized
        <4>3. CASE count # 1
          <5>1. count = bitpos + 1 /\ Framing!Holds(buffer)'
            BY <1>11, <4>1, <4>3 DEF Whole
          <5>2. count <= BUFLEN /\ count >= 2
            BY <1>3, <2>5, <4>3, <5>1 DEF IInv, TypeOK, InputTypeOK, Positions
          <5>3. Framing!Length' = bitpos' + 1
            BY <1>2, <1>3, <1>10, <2>1, <5>1, <5>2
          <5> QED
            BY <5>1, <5>3 DEF Sized
        <4> QED
          BY <4>2, <4>3
      <3> QED
        BY <1>12, <1>13, <2>1, <2>3, <2>5, <3>2, <3>4, <3>5
    <2> QED
      BY <2>4, <2>5
  <1>14. CASE oldinch # "newline" /\ has_length
    <2>1. UNCHANGED <<ended, recorded, has_length, count, decoded, heard>>
      BY <1>4, <1>14
    <2>2. count # 0 /\ ~(End \/ count = 0)
      <3>1. count # 0
        <4>1. SUFFICES ASSUME count = 0 PROVE FALSE
          OBVIOUS
        <4>2. oldinch = NoChar
          BY <1>2, <1>14, <4>1, BetweenMinutes
        <4> QED
          BY <1>2, <1>14, <4>2, Zenon DEF IInv, LogText
      <3> QED
        BY <1>5, <3>1
    <2>3. ended /\ oldinch \notin BitChars /\ read_acc_minlen
      <3>1. next # "a"
        BY <1>2
      <3>2. ended
        BY <1>2, <1>14, <2>2, Zenon DEF IInv, LogText
      <3> QED
        BY <1>5, <2>2, <3>1, <3>2, Zenon DEF IInv, LogText
    <2>4. decoded = NoCall
      BY <2>3 DEF IInv, InMinute
    <2>5. acc_minlen' = recorded'
      <3>1. acc_minlen = recorded
        BY <2>2, <2>3 DEF IInv, Timed
      <3>2. acc_minlen' = (acc_minlen + 0) % AccMod
        BY <1>9, <1>14, <2>3
      <3> QED
        BY <1>3, <2>1, <3>1, <3>2
    <2>6. Last /\ Back
      BY <2>3 DEF Last, Back
    <2>7. minlen = -1 => count = BUFLEN + 1
      BY <1>5, <2>6 DEF Placed
    <2>8. ASSUME minlen # -1
          PROVE  Sized(bitpos + 1)'
      <3>1. count = bitpos + 1 /\ Framing!Holds(buffer)'
        BY <1>5, <1>11, <2>6, <2>8 DEF Placed, Whole
      <3>2. count <= BUFLEN
        BY <1>3, <3>1 DEF IInv, TypeOK, InputTypeOK, Positions
      <3>3. Framing!Length' = bitpos' + 1
        BY <1>2, <1>3, <1>10, <1>14, <2>1, <3>1, <3>2
      <3> QED
        BY <3>1, <3>3 DEF Sized
    <2> QED
      BY <1>12, <1>14, <2>1, <2>2, <2>3, <2>4, <2>5, <2>7, <2>8
  <1>15. CASE oldinch = "newline"
    <2>1. count = 0
      BY <1>5, <1>15, Zenon DEF IInv, LogText, BitChars
    <2>2. /\ bitpos = 0 /\ dec_bp = 0 /\ minlen # -1
          /\ ~ended /\ ~read_acc_minlen /\ acc_minlen = 0 /\ recorded = 0
          /\ gb_res.marker # "emark_toolong"
      BY <1>2, <2>1, BetweenMinutes
    <2>3. /\ heard' = heard /\ count' = 0 /\ ended' = ended /\ recorded' = 0
      BY <1>4, <1>15, <2>1, <2>2
    <2>4. ~End' /\ gb_res'.marker = "emark_none" /\ ~read_acc_minlen' /\ ~ended'
      BY <1>2, <1>15, <2>2, <2>3 DEF End, EndMarkers
    <2>5. acc_minlen' = 0
      <3>1. (0 + 0) % AccMod = 0
        BY <1>3
      <3> QED
        BY <1>2, <1>15, <2>2, <3>1
    <2>6. LogText'
      BY <1>7, <2>3, <2>4, Zenon DEF LogText
    <2>7. Timed' /\ InMinute'
      BY <2>3, <2>4, <2>5 DEF Timed, InMinute
    <2>8. AtBit'
      BY <1>2, <1>5, <1>7, <2>2, <2>3, <2>4 DEF AtBit
    <2> QED
      BY <1>6, <1>8, <2>6, <2>7, <2>8 DEF IInv
  <1> QED
    BY <1>13, <1>14, <1>15

(***************************************************************************)
(* The file is empty: nothing was read, and nothing will be.               *)
(***************************************************************************)
LEMMA EOFIInv ==
  ASSUME IInv, GetEOF
  PROVE  IInv'
  <1>1. /\ Turn /\ pc = "get_bit" /\ next = "EOF"
        /\ gb_res' = [NewState EXCEPT !.done = TRUE]
        /\ UNCHANGED <<bitpos, dec_bp, buffer, acc_minlen, readerVars, logVars,
                       decoded, historyVars>>
    BY DEF GetEOF, Turn
  <1>2. oldinch = NoChar /\ count = 0 /\ decoded = NoCall
    <2>1. ~gb_res.done
      BY <1>1 DEF IInv, AtGetBit
    <2> QED
      BY <1>1, <2>1, Zenon DEF IInv, LogText
  <1>3. /\ bitpos = 0 /\ dec_bp = 0 /\ minlen # -1 /\ ~ended /\ ~read_acc_minlen
        /\ acc_minlen = 0 /\ recorded = 0 /\ gb_res.marker # "emark_toolong"
    BY <1>1, <1>2, BetweenMinutes
  <1>4. InputTypeOK /\ gb_res.marker # "emark_late"
    BY <1>1 DEF IInv, TypeOK, AtGetBit
  <1>5. /\ NewState \in GB_result /\ NewState.marker = "emark_none"
    BY <1>3, <1>4 DEF NewState, GB_result, Markers, BitValues, HwStats
  <1>6. /\ gb_res' \in GB_result /\ gb_res'.marker = "emark_none" /\ gb_res'.done
        /\ ~gb_res'.skip
    <2>1. NewState.skip = FALSE
      BY DEF NewState
    <2> QED
      BY <1>1, <1>5, <2>1 DEF GB_result
  <1>7. InputTypeOK'
    BY <1>1, <1>4, <1>6 DEF InputTypeOK
  <1>8. TypeOK'
    <2>1. /\ UNCHANGED <<heard, count, oldinch, read_acc_minlen, next, recorded,
                       has_length, ended, decoded>>
          /\ markers' \in 0 .. 3
      BY <1>1 DEF readerVars, logVars, historyVars, IInv, TypeOK, MainloopTypeOK
    <2> QED
      BY <1>1, <1>7, <2>1, ReadTypeOK DEF IInv, TypeOK
  <1>9. ~End' /\ oldinch' = NoChar /\ next' = "EOF" /\ count' = 0 /\ decoded' = NoCall
    BY <1>1, <1>2, <1>6 DEF End, EndMarkers, readerVars, historyVars
  <1>10. LogText'
    <2>1. /\ next' \in LogBits \cup {"newline", "EOF"} /\ ~read_acc_minlen'
          /\ oldinch' \in {NoChar, "newline"} /\ next' # "newline" /\ ~ended'
      BY <1>1, <1>3, <1>9 DEF readerVars, logVars
    <2> QED
      BY <1>6, <1>9, <2>1, Zenon DEF LogText
  <1>11. Timed' /\ InMinute'
    BY <1>1, <1>3, <1>9 DEF Timed, InMinute, readerVars, logVars
  <1>12. AtGetBit' /\ AtBit' /\ AtEnd'
    <2>1. /\ pc' = "process_input" /\ ~was_toolong' /\ minlen' = minlen
          /\ ~ended'
      BY <1>1, <1>3 DEF Turn, IInv, AtGetBit, logVars
    <2>2. AtBit'
      BY <1>1, <1>3, <1>6, <1>9, <2>1 DEF AtBit
    <2> QED
      BY <2>1, <2>2 DEF AtGetBit, AtEnd
  <1> QED
    BY <1>8, <1>10, <1>11, <1>12 DEF IInv

(***************************************************************************)
(* The later stages of the turn, one lemma each.                           *)
(***************************************************************************)
LEMMA TakePositionIInv ==
  ASSUME IInv, TakePosition
  PROVE  IInv'
  <1>1. /\ pc = "process_input" /\ pc' = "next_bit" /\ ml_bitpos' = bitpos
        /\ UNCHANGED <<inputVars, minlen, init_min, was_toolong, resultVars,
                       decoded, clock_set, historyVars, readerVars, logVars>>
    BY DEF TakePosition
  <1> USE DEF inputVars, resultVars, historyVars, readerVars, logVars
  <1>2. TypeOK'
    <2>1. TypeOK /\ InputTypeOK /\ MainloopTypeOK
      BY DEF IInv, TypeOK
    <2>2. InputTypeOK'
      BY <1>1, <2>1 DEF InputTypeOK
    <2>3. MainloopTypeOK'
      BY <1>1, <2>1 DEF InputTypeOK, MainloopTypeOK, Calls, Stages
    <2> QED
      BY <1>1, <2>1, <2>2, <2>3 DEF TypeOK
  <1>3. End' <=> End
    BY <1>1 DEF End
  <1>4. LogText' /\ Timed' /\ InMinute'
    BY <1>1, <1>3 DEF IInv, LogText, Timed, InMinute
  <1>5. AtBit'
    <2>1. \A n : (Whole(n) => Whole(n)') /\ (Sized(n) => Sized(n)')
      BY <1>1 DEF Whole, Sized, Bare, Framing!Length, Framing!Holds
    <2>2. AtChar => AtChar'
      <3>1. /\ (Last' <=> Last)
            /\ UNCHANGED <<gb_res, bitpos, dec_bp>>
        BY <1>1 DEF Last
      <3> QED
        BY <1>3, <2>1, <3>1 DEF AtChar
    <2>3. AtBit
      BY DEF IInv
    <2>4. Sized(bitpos + 1) => Sized(bitpos + 1)'
      BY <1>1, <2>1
    <2> QED
      BY <1>1, <1>3, <2>2, <2>3, <2>4 DEF AtBit
  <1>6. AtGetBit' /\ AtEnd'
    BY <1>1 DEF AtGetBit, AtEnd
  <1> QED
    BY <1>2, <1>4, <1>5, <1>6 DEF IInv

LEMMA StageFrame ==
  ASSUME IInv, Stage
  PROVE  /\ UNCHANGED <<oldinch, read_acc_minlen, next>>
         /\ decoded' = decoded => UNCHANGED <<recorded, has_length, ended>>
         /\ decoded' # decoded => recorded' = 0 /\ ended' = FALSE
         /\ recorded' \in {0, recorded}
         /\ has_length' \in BOOLEAN /\ ended' \in BOOLEAN
  <1>1. /\ UNCHANGED <<oldinch, read_acc_minlen, next>>
        /\ IF decoded' = decoded
             THEN UNCHANGED <<recorded, has_length, ended>>
             ELSE recorded' = 0 /\ has_length' \in BOOLEAN /\ ended' = FALSE
    BY DEF Stage, readerVars, logVars
  <1>2. has_length \in BOOLEAN /\ ended \in BOOLEAN
    BY DEF IInv, TypeOK
  <1>3. CASE decoded' = decoded
    BY <1>1, <1>2, <1>3
  <1>4. CASE decoded' # decoded
    BY <1>1, <1>4
  <1> QED
    BY <1>3, <1>4

LEMMA NextBitIInv ==
  ASSUME IInv, Stage, NextBit
  PROVE  IInv'
  <1>1. /\ TypeOK /\ InputTypeOK /\ MainloopTypeOK
        /\ BUFLEN \in Nat /\ BUFLEN > 0 /\ bitpos \in 0 .. BUFLEN - 1
        /\ dec_bp \in 0 .. 2 /\ gb_res \in GB_result /\ gb_res.marker \in Markers
        /\ gb_res.skip \in BOOLEAN
        /\ count \in 0 .. BUFLEN + 1 /\ ended \in BOOLEAN
    BY InputAssumption
       DEF IInv, TypeOK, InputTypeOK, MainloopTypeOK, Positions, GB_result
  <1>2. AtBit /\ pc = "next_bit"
    BY DEF IInv, NextBit
  <1>3. /\ pc' = "too_long"
        /\ bitpos' = IF NextPosition = BUFLEN THEN 0 ELSE NextPosition
        /\ dec_bp' = IF End THEN 0 ELSE IF dec_bp = 1 THEN 2 ELSE dec_bp
        /\ gb_res' = [gb_res EXCEPT !.marker = NextMarker]
        /\ UNCHANGED <<buffer, acc_minlen, minlen, ml_bitpos, init_min, was_toolong,
                       resultVars, decoded, clock_set, historyVars>>
    BY DEF NextBit, next_bit, End
  <1>4. /\ UNCHANGED <<heard, count, markers, quit, settime>>
        /\ UNCHANGED <<oldinch, read_acc_minlen, next, has_length, recorded, ended>>
    BY <1>3, StageFrame DEF historyVars, resultVars
  <1>5. /\ NextPosition = IF End THEN 0
                          ELSE (IF dec_bp = 1 THEN bitpos - 1 ELSE bitpos)
                                 + (IF gb_res.skip THEN 0 ELSE 1)
        /\ NextPosition \in 0 .. BUFLEN
        /\ End => NextPosition # BUFLEN
    <2>1. dec_bp = 1 => bitpos > 0
      BY <1>2 DEF AtBit
    <2> QED
      BY <1>1, <2>1 DEF NextPosition, End
  <1>6. /\ NextMarker = IF NextPosition = BUFLEN THEN "emark_toolong"
                        ELSE IF End THEN "emark_minute" ELSE "emark_none"
        /\ NextMarker \in Markers
    BY <1>1, <1>5 DEF NextMarker, Markers, End, EndMarkers
  <1>7. /\ gb_res' \in GB_result /\ gb_res'.marker = NextMarker
        /\ gb_res'.skip = gb_res.skip /\ gb_res'.done = gb_res.done
    BY <1>1, <1>3, <1>6 DEF GB_result
  <1>8. /\ End' <=> End
        /\ gb_res'.marker # "emark_late"
    BY <1>5, <1>6, <1>7 DEF End, EndMarkers
  <1>9. TypeOK'
    <2>1. bitpos' \in Positions /\ dec_bp' \in 0 .. 2
      BY <1>1, <1>3, <1>5 DEF Positions
    <2>2. InputTypeOK'
      BY <1>1, <1>3, <1>7, <2>1 DEF InputTypeOK
    <2>3. MainloopTypeOK'
      BY <1>1, <1>3, <1>4 DEF MainloopTypeOK, Calls, Stages
    <2> QED
      BY <1>1, <1>4, <2>2, <2>3 DEF TypeOK
  <1>10. LogText' /\ Timed' /\ InMinute'
    <2>1. LogText /\ Timed /\ InMinute /\ acc_minlen' = acc_minlen /\ decoded' = decoded
      BY <1>3 DEF IInv
    <2> QED
      BY <1>4, <1>7, <1>8, <2>1 DEF LogText, Timed, InMinute
  <1>11. AtEnd'
    <2>1. /\ ~was_toolong' /\ dec_bp' # 1 /\ minlen' = minlen /\ ml_bitpos' = bitpos
          /\ pc' \notin {"set_minlen", "new_minute"}
          /\ pc' # "set_minlen" /\ pc' # "new_minute"
      BY <1>1, <1>2, <1>3 DEF AtBit
    <2>2. /\ \A n : (Whole(n) => Whole(n)') /\ (Sized(n) => Sized(n)')
          /\ (Last' <=> Last) /\ (Back' <=> Back)
      BY <1>3, <1>4
         DEF Whole, Sized, Last, Back, Bare, Framing!Length, Framing!Holds
    <2>3. CASE End
      <3>1. bitpos' = 0 /\ dec_bp' = 0
        BY <1>3, <1>5, <2>3
      <3>2. ended /\ IF minlen = -1 THEN count = BUFLEN + 1 ELSE Sized(bitpos + 1)
        <4>1. CASE count = 0
          BY <1>2, <2>3, <4>1 DEF AtBit
        <4>2. CASE count # 0
          <5>1. ended
            BY <2>3, <4>2 DEF IInv, InMinute
          <5>2. minlen = -1 => count = BUFLEN + 1
            BY <1>2, <4>2 DEF AtBit
          <5>3. minlen # -1 => AtChar
            BY <1>2, <4>2 DEF AtBit
          <5> QED
            BY <2>3, <5>1, <5>2, <5>3 DEF AtChar
        <4> QED
          BY <4>1, <4>2
      <3>3. ended' /\ IF minlen' = -1 THEN count' = BUFLEN + 1 ELSE Sized(ml_bitpos + 1)'
        BY <1>4, <2>1, <2>2, <3>2 DEF Sized
      <3> QED
        BY <1>8, <2>1, <2>3, <3>1, <3>3, Zenon DEF AtEnd
    <2>4. CASE ~End
      <3>1. SUFFICES ASSUME ~gb_res.done
                     PROVE  Placed(minlen = -1 \/ gb_res.marker = "emark_toolong")'
        BY <1>7, <1>8, <2>1, <2>4, Zenon DEF AtEnd
      <3>2. oldinch # NoChar /\ (gb_res.skip <=> oldinch \notin BitChars)
        BY <1>2, <3>1 DEF AtBit
      <3>3. CASE count = 0
        <4>1. bitpos = 0 /\ dec_bp = 0 /\ minlen # -1 /\ gb_res.skip /\ ~ended
          BY <1>2, <2>4, <3>2, <3>3 DEF AtBit
        <4>2. NextPosition = 0 /\ NextMarker = "emark_none"
          BY <1>1, <1>5, <1>6, <2>4, <4>1
        <4>3. /\ bitpos' = 0 /\ dec_bp' = 0 /\ minlen' # -1 /\ count' = 0
              /\ gb_res'.marker = "emark_none" /\ ~Back'
          BY <1>1, <1>3, <1>4, <1>7, <2>2, <2>4, <3>2, <3>3, <4>1, <4>2 DEF Back, Last
        <4>4. Whole(0)'
          BY <1>1, <4>3 DEF Whole, Framing!Holds, Framing!Positions
        <4> QED
          BY <4>3, <4>4 DEF Placed
      <3>4. CASE count # 0 /\ minlen = -1
        <4>1. count' = BUFLEN + 1 /\ minlen' = -1
          BY <1>2, <1>3, <1>4, <3>4 DEF AtBit
        <4> QED
          BY <1>1, <4>1 DEF Placed
      <3>5. CASE count # 0 /\ minlen # -1
        <4>1. AtChar
          BY <1>2, <3>5 DEF AtBit
        <4>2. CASE ~gb_res.skip /\ Last /\ bitpos > 0
          <5>1. Whole(bitpos + 1) /\ dec_bp = 1 /\ Back
            BY <1>1, <2>4, <4>1, <4>2 DEF AtChar, Whole, Back
          <5>2. NextPosition = bitpos /\ NextMarker = "emark_none"
            BY <1>1, <1>5, <1>6, <2>4, <4>2, <5>1
          <5>3. /\ bitpos' = bitpos /\ dec_bp' = 2 /\ Back' /\ minlen' # -1
                /\ gb_res'.marker # "emark_toolong"
            BY <1>1, <1>3, <1>7, <2>1, <2>2, <2>4, <3>5, <5>1, <5>2
          <5>4. Whole(bitpos + 1)'
            BY <2>2, <5>1, <5>3 DEF Whole
          <5> QED
            BY <5>3, <5>4 DEF Placed
        <4>3. CASE ~gb_res.skip /\ Last /\ ~(bitpos > 0)
          <5>1. Whole(bitpos + 1) /\ dec_bp = 0 /\ bitpos = 0 /\ ~Back
            BY <1>1, <2>4, <3>2, <4>1, <4>3 DEF AtChar, Whole, Back
          <5>2. NextPosition = 1 /\ NextMarker = "emark_none"
            BY <1>1, <1>5, <1>6, <2>4, <4>3, <5>1, LogAssumption
          <5>3. /\ bitpos' = 1 /\ dec_bp' = 0 /\ ~Back' /\ minlen' # -1
                /\ gb_res'.marker # "emark_toolong"
            BY <1>1, <1>3, <1>7, <2>1, <2>2, <2>4, <3>5, <5>1, <5>2, LogAssumption
          <5>4. Whole(bitpos)'
            BY <2>2, <5>1, <5>3 DEF Whole
          <5> QED
            BY <5>3, <5>4 DEF Placed
        <4>4. CASE ~gb_res.skip /\ ~Last
          <5>1. Whole(bitpos + 1) /\ dec_bp = 0 /\ ~Back /\ ~Last'
            BY <2>2, <2>4, <4>1, <4>4 DEF AtChar, Back
          <5>2. NextPosition = bitpos + 1
            BY <1>1, <1>5, <2>4, <4>4, <5>1
          <5>3. CASE bitpos + 1 = BUFLEN
            <6>1. gb_res'.marker = "emark_toolong" /\ count' = BUFLEN
              BY <1>4, <1>6, <1>7, <5>1, <5>2, <5>3 DEF Whole
            <6> QED
              BY <1>1, <5>1, <6>1 DEF Placed
          <5>4. CASE bitpos + 1 # BUFLEN
            <6>1. /\ bitpos' = bitpos + 1 /\ dec_bp' = 0 /\ ~Back' /\ minlen' # -1
                  /\ gb_res'.marker # "emark_toolong"
              BY <1>1, <1>3, <1>6, <1>7, <2>1, <2>2, <2>4, <3>5, <5>1, <5>2, <5>4
            <6>2. Whole(bitpos)'
              BY <2>2, <5>1, <6>1 DEF Whole
            <6> QED
              BY <6>1, <6>2 DEF Placed
          <5> QED
            BY <5>3, <5>4
        <4>5. CASE gb_res.skip
          <5>1. /\ Back
                /\ \/ dec_bp = 1 /\ Whole(bitpos)
                   \/ dec_bp = 2 /\ Whole(bitpos + 1)
            BY <2>4, <3>1, <3>2, <4>1, <4>5 DEF AtChar, Back
          <5>2. NextPosition = IF dec_bp = 1 THEN bitpos - 1 ELSE bitpos
            BY <1>1, <1>5, <2>4, <4>5
          <5>3. NextPosition # BUFLEN
            BY <1>1, <5>2
          <5>4. /\ bitpos' = NextPosition /\ dec_bp' = 2 /\ Back' /\ minlen' # -1
                /\ gb_res'.marker # "emark_toolong"
            BY <1>1, <1>3, <1>6, <1>7, <2>1, <2>2, <2>4, <3>5, <5>1, <5>3
          <5>5. Whole(bitpos + 1)'
            <6>1. count = NextPosition + 1 /\ Framing!Holds(buffer)
              BY <1>1, <5>1, <5>2 DEF Whole
            <6> QED
              BY <1>4, <2>2, <5>4, <6>1 DEF Whole
          <5> QED
            BY <5>4, <5>5 DEF Placed
        <4> QED
          BY <4>2, <4>3, <4>4, <4>5
      <3> QED
        BY <3>3, <3>4, <3>5
    <2> QED
      BY <2>3, <2>4
  <1>12. AtGetBit' /\ AtBit'
    BY <1>3 DEF AtGetBit, AtBit
  <1> QED
    BY <1>9, <1>10, <1>11, <1>12 DEF IInv

(***************************************************************************)
(* A stage that does not deliver leaves the text and the time alone.       *)
(***************************************************************************)
LEMMA QuietStage ==
  ASSUME IInv, Stage, UNCHANGED <<gb_res, acc_minlen, decoded, count>>
  PROVE  /\ LogText' /\ Timed' /\ InMinute'
         /\ End' <=> End
         /\ UNCHANGED <<oldinch, next, ended, has_length, recorded>>
  <1>1. /\ UNCHANGED <<oldinch, read_acc_minlen, next, has_length, recorded, ended>>
        /\ LogText /\ Timed /\ InMinute
    BY StageFrame DEF IInv
  <1>2. End' <=> End
    BY DEF End
  <1> QED
    BY <1>1, <1>2 DEF LogText, Timed, InMinute

(***************************************************************************)
(* A call of check_handle_new_minute() that finds a minute to deliver, or  *)
(* that finds none.                                                        *)
(***************************************************************************)
LEMMA DeliverMinute ==
  ASSUME IInv, Stage, NEW m \in 1 .. BUFLEN \cup {-1}, ended,
         End, ~was_toolong, check_handle_new_minute(m), UNCHANGED Unhandled
  PROVE  /\ decoded' \in Calls /\ decoded' = Call(m)
         /\ heard' = Framing!Silence /\ count' = 0
         /\ acc_minlen' = 0 /\ recorded' = 0 /\ ~ended'
         /\ init_min' \in 0 .. 2
         /\ clock_set' \in BOOLEAN /\ quit' \in BOOLEAN
         /\ LogText' /\ Timed' /\ InMinute' /\ End'
  <1>1. InputTypeOK /\ MainloopTypeOK /\ BUFLEN \in Nat
    BY InputAssumption DEF IInv, TypeOK
  <1>2. /\ decoded' = Call(m)
        /\ SetTime(m)
        /\ acc_minlen' = 0
        /\ init_min' = IF init_min > 0 THEN init_min - 1 ELSE init_min
        /\ heard' = Framing!Silence
        /\ count' = 0
    BY DEF check_handle_new_minute, End, reset_acc_minlen,
       Framing!Silence, Framing!Positions, Positions
  <1>3. decoded' \in Calls
    BY <1>1, <1>2 DEF Call, Calls, InputTypeOK
  <1>4. clock_set' \in BOOLEAN /\ quit' \in BOOLEAN
    <2>1. PICK dt_ok \in BOOLEAN :
            /\ clock_set' = (settime /\ setclock_ok(m, dt_ok))
            /\ \/ quit' = quit
               \/ settime /\ quit' = FALSE
               \/ clock_set' /\ quit' = TRUE
      BY <1>2 DEF SetTime
    <2>2. clock_set' \in BOOLEAN
      BY <2>1, Zenon
    <2>3. quit \in BOOLEAN
      BY <1>1 DEF MainloopTypeOK
    <2> QED
      BY <2>1, <2>2, <2>3, Zenon
  <1>5. init_min' \in 0 .. 2
    BY <1>1, <1>2 DEF MainloopTypeOK
  <1>6. /\ UNCHANGED <<oldinch, read_acc_minlen, next, gb_res>>
        /\ recorded' = 0 /\ ~ended' /\ End'
    <2>1. decoded' # decoded
      <3>1. decoded = NoCall
        BY DEF IInv, InMinute
      <3>2. decoded'.minlen = m /\ NoCall.minlen = 0 /\ m # 0
        BY <1>1, <1>2 DEF Call, NoCall
      <3> QED
        BY <3>1, <3>2
    <2> QED
      BY <1>2, <2>1, StageFrame DEF Unhandled, End
  <1>7. LogText'
    <2>1. /\ oldinch \in {NoChar, "newline"} /\ ~read_acc_minlen
          /\ next \in LogBits \cup {"newline", "EOF"}
          /\ next = "EOF" /\ oldinch # NoChar => gb_res.done
          /\ oldinch # NoChar
      BY Zenon DEF IInv, LogText
    <2>2. gb_res'.done = gb_res.done
      BY <1>6
    <2> QED
      BY <1>2, <1>6, <2>1, <2>2 DEF LogText
  <1>8. Timed' /\ InMinute'
    BY <1>2, <1>6 DEF Timed, InMinute
  <1> QED
    BY <1>2, <1>3, <1>4, <1>5, <1>6, <1>7, <1>8

LEMMA HandleTypeOK ==
  ASSUME IInv, Stage, NEW m, check_handle_new_minute(m), UNCHANGED Unhandled,
         End /\ ~was_toolong => ended /\ m \in 1 .. BUFLEN \cup {-1},
         minlen' \in -1 .. BUFLEN, was_toolong' \in BOOLEAN, pc' \in Stages
  PROVE  TypeOK'
  <1>1. /\ TypeOK /\ InputTypeOK /\ MainloopTypeOK
        /\ AccMod \in Nat \ {0} /\ 0 \in 0 .. AccMod - 1
    BY InputAssumption DEF IInv, TypeOK
  <1>2. UNCHANGED <<gb_res, bitpos, dec_bp, buffer, ml_bitpos, settime, markers>>
    BY DEF Unhandled
  <1>3. /\ decoded' \in Calls \cup {NoCall} /\ heard' \in [Positions -> BitValues]
        /\ count' \in 0 .. BUFLEN + 1 /\ acc_minlen' \in 0 .. AccMod - 1
        /\ init_min' \in 0 .. 2 /\ clock_set' \in BOOLEAN /\ quit' \in BOOLEAN
    <2>1. CASE End /\ ~was_toolong
      <3>1. /\ decoded' \in Calls /\ heard' = Framing!Silence /\ count' = 0
            /\ acc_minlen' = 0 /\ init_min' \in 0 .. 2
            /\ clock_set' \in BOOLEAN /\ quit' \in BOOLEAN
        BY <2>1, DeliverMinute
      <3>2. Framing!Silence \in [Positions -> BitValues]
        BY DEF Framing!Silence, Framing!Positions, Positions, BitValues
      <3>3. 0 \in 0 .. BUFLEN + 1
        BY InputAssumption
      <3> QED
        BY <1>1, <3>1, <3>2, <3>3, Zenon
    <2>2. CASE ~(End /\ ~was_toolong)
      <3>1. UNCHANGED <<decoded, clock_set, quit, acc_minlen, init_min, heard, count>>
        BY <2>2 DEF check_handle_new_minute, End
      <3> QED
        BY <1>1, <3>1 DEF InputTypeOK, MainloopTypeOK
    <2> QED
      BY <2>1, <2>2
  <1>4. InputTypeOK'
    BY <1>1, <1>2, <1>3 DEF InputTypeOK
  <1>5. MainloopTypeOK'
    <2>1. ml_bitpos' \in Positions /\ settime' \in BOOLEAN /\ markers' \in 0 .. 3
      BY <1>1, <1>2 DEF MainloopTypeOK
    <2> QED
      BY <1>3, <2>1, Zenon DEF MainloopTypeOK
  <1>6. /\ oldinch' = oldinch /\ read_acc_minlen' = read_acc_minlen /\ next' = next
        /\ has_length' \in BOOLEAN /\ recorded' \in 0 .. AccMod - 1
        /\ ended' \in BOOLEAN
    BY <1>1, StageFrame DEF TypeOK
  <1> QED
    BY <1>1, <1>4, <1>5, <1>6 DEF TypeOK

LEMMA TooLongIInv ==
  ASSUME IInv, Stage, TooLong
  PROVE  IInv'
  <1>1. /\ AtEnd /\ pc = "too_long" /\ pc' = "set_minlen" /\ ~was_toolong
        /\ UNCHANGED <<gb_res, bitpos, dec_bp, buffer, ml_bitpos, settime, markers>>
        /\ UNCHANGED Unhandled /\ UNCHANGED minlen
        /\ TypeOK /\ InputTypeOK /\ MainloopTypeOK /\ BUFLEN \in Nat
    BY InputAssumption DEF IInv, AtEnd, TooLong, Unhandled, TypeOK
  <1>2. AtGetBit' /\ AtBit'
    BY <1>1 DEF AtGetBit, AtBit
  <1>3. /\ gb_res'.marker # "emark_late" /\ dec_bp' # 1
        /\ pc' # "too_long" /\ pc' # "new_minute" /\ pc' = "set_minlen"
        /\ End => bitpos' = 0 /\ dec_bp' = 0 /\ ended
        /\ End' <=> End
    BY <1>1 DEF AtEnd, End
  <1>4. CASE minlen = -1
    <2>1. check_handle_new_minute(-1) /\ was_toolong' = TRUE
      BY <1>4 DEF TooLong
    <2>2. TypeOK'
      BY <1>1, <1>3, <2>1, HandleTypeOK DEF Stages, MainloopTypeOK
    <2>3. CASE End
      <3>1. count' = 0 /\ ~ended' /\ LogText' /\ Timed' /\ InMinute'
        BY <1>1, <1>3, <2>1, <2>3, DeliverMinute
      <3>2. (was_toolong' <=> minlen' = -1) /\ was_toolong'
        BY <1>1, <1>4, <2>1
      <3>3. AtEnd'
        BY <1>3, <2>3, <3>1, <3>2, Zenon DEF AtEnd
      <3> QED
        BY <1>2, <2>2, <3>1, <3>3 DEF IInv
    <2>4. CASE ~End
      <3>1. UNCHANGED <<decoded, acc_minlen, heard, count>>
        BY <2>1, <2>4 DEF check_handle_new_minute, End
      <3>2. /\ LogText' /\ Timed' /\ InMinute'
            /\ UNCHANGED <<oldinch, next, ended>>
        BY <1>1, <3>1, QuietStage
      <3>3. ~gb_res'.done => Placed(minlen = -1 \/ gb_res.marker = "emark_toolong")'
        BY <1>1, <1>4, <2>4, <3>1, <3>2 DEF AtEnd, Placed, Last
      <3>4. AtEnd'
        BY <1>3, <2>4, <3>3, Zenon DEF AtEnd
      <3> QED
        BY <1>2, <2>2, <3>2, <3>4 DEF IInv
    <2> QED
      BY <2>3, <2>4
  <1>5. CASE minlen # -1
    <2>1. UNCHANGED <<acc_minlen, init_min, was_toolong, quit, decoded, clock_set,
                      heard, count>>
      BY <1>5 DEF TooLong
    <2>2. /\ LogText' /\ Timed' /\ InMinute'
          /\ UNCHANGED <<oldinch, next, ended, has_length, recorded>>
      BY <1>1, <2>1, QuietStage
    <2>3. TypeOK'
      <3>1. InputTypeOK' /\ MainloopTypeOK'
        BY <1>1, <2>1 DEF InputTypeOK, MainloopTypeOK, Calls, Stages
      <3> QED
        BY <1>1, <2>1, <2>2, <3>1, StageFrame DEF TypeOK
    <2>4. Sized(ml_bitpos + 1) => Sized(ml_bitpos + 1)'
      BY <1>1, <2>1, <2>2 DEF Sized, Bare, Framing!Length, Framing!Holds
    <2>5. CASE End
      <3>1. ended /\ Sized(ml_bitpos + 1)
        BY <1>1, <1>5, <2>5 DEF AtEnd
      <3>2. ended' /\ Sized(ml_bitpos + 1)' /\ ~was_toolong' /\ minlen' # -1
        BY <1>1, <1>5, <2>1, <2>2, <2>4, <3>1
      <3> QED
        <4>1. AtEnd'
          BY <1>3, <2>5, <3>2, Zenon DEF AtEnd
        <4> QED
          BY <1>2, <2>2, <2>3, <4>1 DEF IInv
    <2>6. CASE ~End
      <3>1. ~gb_res'.done => Placed(minlen = -1 \/ gb_res.marker = "emark_toolong")
        BY <1>1, <2>6 DEF AtEnd
      <3>2. Placed(minlen = -1 \/ gb_res.marker = "emark_toolong") =>
              Placed(minlen = -1 \/ gb_res.marker = "emark_toolong")'
        BY <1>1, <2>1, <2>2 DEF Placed, Back, Last, Whole, Framing!Holds
      <3>3. AtEnd'
        BY <1>3, <2>6, <3>1, <3>2, Zenon DEF AtEnd
      <3> QED
        BY <1>2, <2>2, <2>3, <3>3 DEF IInv
    <2> QED
      BY <2>5, <2>6
  <1> QED
    BY <1>4, <1>5

LEMMA SetMinlenIInv ==
  ASSUME IInv, Stage, SetMinlen
  PROVE  IInv'
  <1>1. /\ AtEnd /\ pc = "set_minlen" /\ pc' = "new_minute"
        /\ minlen' = CASE gb_res.marker = "emark_minute" -> ml_bitpos + 1
                       [] gb_res.marker \in {"emark_toolong", "emark_late"} -> -1
                       [] OTHER -> minlen
        /\ UNCHANGED <<gb_res, bitpos, dec_bp, buffer, acc_minlen, ml_bitpos,
                       init_min, was_toolong, quit, settime, decoded, clock_set,
                       heard, count, markers>>
        /\ TypeOK /\ InputTypeOK /\ MainloopTypeOK /\ BUFLEN \in Nat /\ BUFLEN > 0
    BY InputAssumption
       DEF IInv, SetMinlen, TypeOK, inputVars, resultVars, historyVars
  <1>2. /\ gb_res.marker \in {"emark_none", "emark_minute", "emark_toolong"}
        /\ End <=> gb_res.marker = "emark_minute"
    BY <1>1 DEF AtEnd, InputTypeOK, GB_result, Markers, End, EndMarkers
  <1>3. /\ gb_res.marker = "emark_minute"  => minlen' = ml_bitpos + 1
        /\ gb_res.marker = "emark_toolong" => minlen' = -1
        /\ gb_res.marker = "emark_none"    => minlen' = minlen
    BY <1>1
  <1>4. /\ LogText' /\ Timed' /\ InMinute' /\ (End' <=> End)
        /\ UNCHANGED <<oldinch, next, ended, has_length, recorded>>
    BY <1>1, QuietStage
  <1>5. TypeOK'
    <2>1. minlen' \in -1 .. BUFLEN
      BY <1>1, <1>2, <1>3 DEF MainloopTypeOK, Positions
    <2>2. InputTypeOK' /\ MainloopTypeOK'
      BY <1>1, <2>1 DEF InputTypeOK, MainloopTypeOK, Calls, Stages
    <2> QED
      BY <1>1, <1>4, <2>2, StageFrame DEF TypeOK
  <1>6. AtEnd'
    <2>1. /\ gb_res'.marker # "emark_late" /\ dec_bp' # 1
          /\ pc' # "too_long" /\ pc' # "set_minlen"
          /\ End => bitpos' = 0 /\ dec_bp' = 0
          /\ gb_res'.marker = "emark_toolong" => minlen' = -1
      BY <1>1, <1>2, <1>3 DEF AtEnd
    <2>2. CASE End
      <3>1. IF was_toolong THEN count = 0 /\ ~ended
                           ELSE ended /\ Sized(ml_bitpos + 1)
        BY <1>1, <2>2 DEF AtEnd
      <3>2. IF was_toolong' THEN count' = 0 /\ ~ended'
                            ELSE ended' /\ Sized(ml_bitpos + 1)'
        BY <1>1, <1>4, <3>1 DEF Sized, Bare, Framing!Length, Framing!Holds
      <3>3. minlen' = ml_bitpos' + 1
        BY <1>1, <1>2, <1>3, <2>2
      <3> QED
        BY <1>4, <2>1, <2>2, <3>2, <3>3, Zenon DEF AtEnd
    <2>3. CASE ~End
      <3>1. ~gb_res'.done => Placed(minlen = -1 \/ gb_res.marker = "emark_toolong")
        BY <1>1, <2>3 DEF AtEnd
      <3>2. (minlen' = -1 \/ gb_res'.marker = "emark_toolong")
              <=> (minlen = -1 \/ gb_res.marker = "emark_toolong")
        BY <1>1, <1>2, <1>3, <2>3
      <3>3. Placed(minlen = -1 \/ gb_res.marker = "emark_toolong") =>
              Placed(minlen = -1 \/ gb_res.marker = "emark_toolong")'
        BY <1>1, <1>4, <3>2 DEF Placed, Back, Last, Whole, Framing!Holds
      <3> QED
        BY <1>4, <2>1, <2>3, <3>1, <3>3, Zenon DEF AtEnd
    <2> QED
      BY <2>2, <2>3
  <1>7. AtGetBit' /\ AtBit'
    BY <1>1 DEF AtGetBit, AtBit
  <1> QED
    BY <1>4, <1>5, <1>6, <1>7 DEF IInv

LEMMA NewMinuteIInv ==
  ASSUME IInv, Stage, NewMinute
  PROVE  IInv'
  <1>1. /\ AtEnd /\ pc = "new_minute" /\ check_handle_new_minute(minlen)
        /\ pc' = (IF gb_res.done \/ quit' THEN "stopped" ELSE "get_bit")
        /\ was_toolong' = FALSE /\ minlen' = minlen
        /\ UNCHANGED Unhandled
        /\ UNCHANGED <<gb_res, bitpos, dec_bp, buffer, ml_bitpos, settime, markers>>
        /\ TypeOK /\ InputTypeOK /\ MainloopTypeOK /\ BUFLEN \in Nat /\ BUFLEN > 0
    BY InputAssumption DEF IInv, NewMinute, Unhandled, TypeOK
  <1>2. pc' \in {"get_bit", "stopped"} /\ (pc' = "get_bit" => ~gb_res.done)
    BY <1>1
  <1>3. AtBit' /\ AtEnd'
    BY <1>2 DEF AtBit, AtEnd
  <1>4. /\ minlen \in -1 .. BUFLEN /\ ml_bitpos \in Positions
        /\ End => minlen = ml_bitpos + 1 /\ minlen \in 1 .. BUFLEN /\ minlen # -1
    BY <1>1 DEF AtEnd, MainloopTypeOK, Positions
  <1>5. TypeOK'
    <2>1. pc' \in Stages
      BY <1>2 DEF Stages
    <2>2. End /\ ~was_toolong => ended
      BY <1>1 DEF AtEnd
    <2> QED
      BY <1>1, <1>4, <2>1, <2>2, HandleTypeOK
  <1>6. /\ gb_res.marker # "emark_late" /\ dec_bp # 1
        /\ gb_res.marker = "emark_toolong" => minlen = -1
        /\ End => bitpos = 0 /\ dec_bp = 0
        /\ gb_res.marker = "emark_minute" => End
        /\ End => IF was_toolong THEN count = 0 /\ ~ended ELSE ended
        /\ ~End /\ ~gb_res.done =>
             Placed(minlen = -1 \/ gb_res.marker = "emark_toolong")
    BY <1>1 DEF AtEnd, End, EndMarkers
  <1>7. CASE End /\ ~was_toolong
    <2>1. /\ heard' = Framing!Silence /\ count' = 0 /\ ~ended'
          /\ LogText' /\ Timed' /\ InMinute'
      BY <1>1, <1>4, <1>6, <1>7, DeliverMinute
    <2>2. Placed(minlen = -1)'
      <3>1. ~Back'
        <4>1. oldinch \in {NoChar, "newline"} /\ oldinch' = oldinch
          BY <1>7, StageFrame, Zenon DEF IInv, LogText
        <4> QED
          BY <2>1, <4>1 DEF Back, Last, BitChars, NoChar
      <3> QED
        BY <1>1, <1>4, <1>6, <1>7, <2>1, <3>1
           DEF Placed, Whole, Framing!Holds, Framing!Positions
    <2>3. AtGetBit'
      BY <1>1, <1>2, <1>4, <1>6, <1>7, <2>1, <2>2 DEF AtGetBit, End, EndMarkers
    <2> QED
      BY <1>3, <1>5, <2>1, <2>3 DEF IInv
  <1>8. CASE ~(End /\ ~was_toolong)
    <2>1. UNCHANGED <<decoded, acc_minlen, heard, count>>
      BY <1>1, <1>8 DEF check_handle_new_minute, End
    <2>2. /\ LogText' /\ Timed' /\ InMinute'
          /\ UNCHANGED <<oldinch, next, ended>>
      BY <1>1, <2>1, QuietStage
    <2>3. pc' = "get_bit" => Placed(minlen = -1)'
      <3>1. CASE End
        <4>1. count = 0 /\ ~ended /\ bitpos = 0 /\ dec_bp = 0 /\ minlen # -1
          BY <1>4, <1>6, <1>8, <3>1
        <4>2. ~Back'
          <5>1. oldinch \in {NoChar, "newline"}
            BY <3>1, Zenon DEF IInv, LogText
          <5> QED
            BY <2>2, <4>1, <5>1 DEF Back, Last, BitChars, NoChar
        <4> QED
          BY <1>1, <2>1, <2>2, <4>1, <4>2
             DEF Placed, Whole, Framing!Holds, Framing!Positions
      <3>2. CASE ~End
        <4>1. pc' = "get_bit" => Placed(minlen = -1 \/ gb_res.marker = "emark_toolong")
          BY <1>2, <1>6, <3>2
        <4>2. (minlen = -1 \/ gb_res.marker = "emark_toolong") <=> minlen = -1
          BY <1>6
        <4> QED
          BY <1>1, <2>1, <2>2, <4>1, <4>2
             DEF Placed, Back, Last, Whole, Framing!Holds
      <3> QED
        BY <3>1, <3>2
    <2>4. AtGetBit'
      <3>1. pc' = "get_bit" => (count = 0 => ~ended)
        <4>1. ended => IF count > 0 THEN TRUE ELSE End
          BY DEF IInv, InMinute
        <4> QED
          BY <1>1, <1>6, <1>8, <4>1 DEF MainloopTypeOK
      <3>2. gb_res.marker = "emark_minute" => count = 0
        BY <1>6, <1>8
      <3> QED
        BY <1>1, <1>2, <1>6, <2>1, <2>2, <2>3, <3>1, <3>2 DEF AtGetBit
    <2> QED
      BY <1>3, <1>5, <2>2, <2>4 DEF IInv
  <1> QED
    BY <1>7, <1>8

-----------------------------------------------------------------------------
(***************************************************************************)
(* IInv is inductive.                                                      *)
(***************************************************************************)
LEMMA UnchangedIInv ==
  ASSUME IInv, UNCHANGED fileVars
  PROVE  IInv'
  <1>1. UNCHANGED <<gb_res, bitpos, dec_bp, buffer, acc_minlen, pc, minlen,
                    ml_bitpos, init_min, was_toolong, quit, settime, decoded,
                    clock_set, heard, count, markers, oldinch, read_acc_minlen,
                    next, recorded, has_length, ended>>
    BY DEF fileVars, vars, inputVars, loopVars, resultVars, historyVars,
           readerVars, logVars
  <1>2. InputTypeOK' /\ MainloopTypeOK'
    BY <1>1 DEF IInv, TypeOK, InputTypeOK, MainloopTypeOK, Calls
  <1>3. TypeOK'
    BY <1>1, <1>2 DEF IInv, TypeOK
  <1>4. End' <=> End
    BY <1>1 DEF End
  <1>5. LogText' /\ Timed' /\ InMinute'
    BY <1>1, <1>4 DEF IInv, LogText, Timed, InMinute
  <1>6. /\ \A n : (Whole(n) => Whole(n)') /\ (Sized(n) => Sized(n)')
        /\ (Last' <=> Last) /\ (Back' <=> Back)
    BY <1>1 DEF Whole, Sized, Last, Back, Bare, Framing!Length, Framing!Holds
  <1>7. AtGetBit' /\ AtBit' /\ AtEnd'
    <2>1. AtGetBit /\ AtBit /\ AtEnd
      BY DEF IInv
    <2>2. AtChar => AtChar'
      BY <1>1, <1>4, <1>6 DEF AtChar
    <2>3. /\ Sized(bitpos + 1) => Sized(bitpos + 1)'
          /\ Sized(ml_bitpos + 1) => Sized(ml_bitpos + 1)'
          /\ Whole(bitpos + 1) => Whole(bitpos + 1)'
          /\ Whole(bitpos) => Whole(bitpos)'
      BY <1>1, <1>6
    <2>4. /\ Placed(minlen = -1) => Placed(minlen = -1)'
          /\ Placed(minlen = -1 \/ gb_res.marker = "emark_toolong")
               => Placed(minlen = -1 \/ gb_res.marker = "emark_toolong")'
      BY <1>1, <1>6, <2>3 DEF Placed, Whole
    <2>5. AtGetBit'
      BY <1>1, <2>1, <2>4 DEF AtGetBit
    <2>6. AtBit'
      BY <1>1, <1>4, <2>1, <2>2, <2>3 DEF AtBit
    <2>7. AtEnd'
      BY <1>1, <1>4, <2>1, <2>3, <2>4 DEF AtEnd
    <2> QED
      BY <2>5, <2>6, <2>7
  <1> QED
    BY <1>3, <1>5, <1>7 DEF IInv

LEMMA NextIInv ==
  ASSUME IInv, [Next]_fileVars
  PROVE  IInv'
  <1>1. CASE GetBitChar
    BY <1>1, GetBitCharIInv
  <1>2. CASE GetLength \/ GetCutoff
    BY <1>2, SeparatorIInv
  <1>3. CASE GetNewline
    BY <1>3, NewlineIInv
  <1>4. CASE GetEOF
    BY <1>4, EOFIInv
  <1>5. CASE TakePosition
    BY <1>5, TakePositionIInv
  <1>6. CASE Stage
    <2>1. CASE NextBit
      BY <1>6, <2>1, NextBitIInv
    <2>2. CASE TooLong
      BY <1>6, <2>2, TooLongIInv
    <2>3. CASE SetMinlen
      BY <1>6, <2>3, SetMinlenIInv
    <2>4. CASE NewMinute
      BY <1>6, <2>4, NewMinuteIInv
    <2> QED
      BY <1>6, <2>1, <2>2, <2>3, <2>4 DEF Stage
  <1>7. CASE UNCHANGED fileVars
    BY <1>7, UnchangedIInv
  <1> QED
    BY <1>1, <1>2, <1>3, <1>4, <1>5, <1>6, <1>7 DEF Next

LEMMA SpecIInv == Spec => []IInv
  <1>1. Init => IInv
    BY InitIInv
  <1>2. IInv /\ [Next]_fileVars => IInv'
    BY NextIInv
  <1> QED
    BY <1>1, <1>2, PTL DEF Spec

(***************************************************************************)
(* get_bit_file() and the main loop keep their variables in their types;   *)
(* in particular the step back of bitpos before a separator never leaves   *)
(* the buffer, wherever the minute ends and however long it is.            *)
(***************************************************************************)
THEOREM TypeCorrect == Spec => []TypeOK
  <1>1. IInv => TypeOK
    BY DEF IInv
  <1> QED
    BY <1>1, SpecIInv, PTL

-----------------------------------------------------------------------------
(***************************************************************************)
(* FileDecoder implements MinuteFraming.  Reading the character of a bit   *)
(* is a Hear step, reading the bare newline that ends a minute an End      *)
(* step, the call of check_handle_new_minute() that decodes is a Deliver   *)
(* step; reading a separator and every other stage of the loop stutter.    *)
(***************************************************************************)
LEMMA InitFraming == Init => Framing!Init
  BY DEF Init, InputInit, MainloopInit, Bare, Framing!Init, Framing!Silence,
     Framing!Positions, Framing!NoCall, NoCall, Positions

LEMMA GetBitHears ==
  ASSUME IInv, GetBitChar
  PROVE  Framing!Hear
  <1>1. PICK coming \in Follows(next) :
          /\ ended' = (coming = "a")
          /\ \E t \in Lengths(next, coming) : recorded' = (recorded + t) % AccMod
          /\ Hear(BitVal(next), coming = "a")
    BY Zenon DEF GetBitChar
  <1>2. /\ pc = "get_bit" /\ next \in BitChars /\ decoded' = NoCall
        /\ has_length' = has_length
    BY DEF GetBitChar, Turn
  <1>3. PICK t \in Lengths(next, coming) : recorded' = (recorded + t) % AccMod
    BY <1>1
  <1>4. t \in LogSpans
    <2>1. t \in {FakeT(next)} \/ t \in 0 .. AccMod - 1
      BY <1>3, InputAssumption DEF Lengths
    <2> QED
      BY <1>2, <2>1 DEF LogSpans
  <1>5. ~ended
    BY <1>2, BeforeBit
  <1>6. ended' \in BOOLEAN /\ (ended' => has_length')
    BY <1>1, <1>2, FollowsBit
  <1>7. Bare' = FALSE
    BY <1>6 DEF Bare
  <1>8. BitVal(next) \in BitValues
    BY DEF BitVal, BitValues
  <1>9. /\ \E v \in BitValues :
             heard' = IF count < BUFLEN THEN [heard EXCEPT ![count] = v] ELSE heard
        /\ count' = IF count <= BUFLEN THEN count + 1 ELSE count
    BY <1>1, <1>8 DEF Hear
  <1>10. decoded' = Framing!NoCall
    BY <1>2 DEF Framing!NoCall, NoCall
  <1>11. ended' \in IF decoded = Framing!NoCall \/ TRUE THEN BOOLEAN ELSE {FALSE}
    BY <1>6
  <1> QED
    BY <1>3, <1>4, <1>5, <1>7, <1>9, <1>10, <1>11, Zenon DEF Framing!Hear

LEMMA NewlineFraming ==
  ASSUME IInv, GetNewline
  PROVE  Framing!End \/ UNCHANGED Framing!vars
  <1>1. /\ pc = "get_bit" /\ next = "newline"
        /\ UNCHANGED <<has_length, decoded, heard, count>>
    BY DEF GetNewline, Turn
  <1>2. CASE EndsMinute(next) /\ ~has_length
    <2>1. ended' = TRUE /\ recorded' = (recorded + Second) % AccMod
      BY <1>2, Zenon DEF GetNewline
    <2>2. oldinch # "newline"
      BY <1>2 DEF EndsMinute
    <2>3. ~ended /\ decoded = Framing!NoCall
      <3>1. CASE count = 0
        <4>1. oldinch = NoChar /\ ~ended
          BY <1>1, <2>2, <3>1, BetweenMinutes
        <4> QED
          BY <4>1, Zenon DEF IInv, LogText, Framing!NoCall, NoCall
      <3>2. CASE count # 0
        <4>1. ~(End \/ count = 0)
          BY <1>1, <3>2 DEF IInv, AtGetBit, End, EndMarkers
        <4>2. ~ended
          BY <1>2, <4>1, Zenon DEF IInv, LogText
        <4>3. count > 0
          BY <3>2 DEF IInv, TypeOK, MainloopTypeOK
        <4> QED
          BY <4>2, <4>3 DEF IInv, InMinute, Framing!NoCall, NoCall
      <3> QED
        BY <3>1, <3>2
    <2>4. Bare' = TRUE
      BY <1>1, <1>2, <2>1 DEF Bare
    <2>5. \E span \in LogSpans : recorded' = (recorded + span) % AccMod
      BY <2>1 DEF LogSpans
    <2> QED
      BY <1>1, <2>1, <2>3, <2>4, <2>5 DEF Framing!End
  <1>3. CASE ~(EndsMinute(next) /\ ~has_length)
    <2>1. UNCHANGED <<ended, recorded>>
      BY <1>3, Zenon DEF GetNewline
    <2> QED
      BY <1>1, <2>1 DEF Bare, Framing!vars
  <1> QED
    BY <1>2, <1>3

(***************************************************************************)
(* The minute that check_handle_new_minute() hands to decode_time() is the *)
(* minute that was in the log.                                             *)
(***************************************************************************)
LEMMA DeliverIsDeliver ==
  ASSUME IInv, Stage, NEW m \in 1 .. BUFLEN \cup {-1},
         End, ~was_toolong, check_handle_new_minute(m), UNCHANGED Unhandled,
         ended, m = Framing!Length, m # -1 => Framing!Holds(buffer)
  PROVE  Framing!Deliver
  <1>1. buffer \in [Positions -> {ebv_0, ebv_1}]
    BY DEF IInv, TypeOK, InputTypeOK
  <1>2. buffer \in [Framing!Positions -> BitValues \ {ebv_none}]
    BY <1>1 DEF Framing!Positions, Positions, BitValues, ebv_0, ebv_1, ebv_none
  <1>3. /\ decoded' = Call(m)
        /\ heard' = Framing!Silence /\ count' = 0 /\ recorded' = 0 /\ ~ended'
    BY DeliverMinute
  <1>4. acc_minlen = recorded
    BY DEF IInv, Timed
  <1>5. decoded' = [minlen |-> Framing!Length, acc_minlen |-> recorded,
                    buffer |-> buffer]
    BY <1>3, <1>4 DEF Call
  <1>6. ended' = FALSE /\ Bare' = FALSE
    BY <1>3, StageFrame DEF Bare
  <1> QED
    BY <1>2, <1>3, <1>5, <1>6 DEF Framing!Deliver

LEMMA StageFraming ==
  ASSUME IInv, Stage
  PROVE  Framing!Deliver \/ UNCHANGED Framing!vars
  <1>1. /\ BUFLEN \in Nat /\ AtEnd /\ minlen \in -1 .. BUFLEN /\ ml_bitpos \in Positions
        /\ decoded' = decoded => UNCHANGED <<recorded, has_length, ended>>
    BY InputAssumption, StageFrame DEF IInv, TypeOK, MainloopTypeOK
  <1>2. UNCHANGED <<heard, count, decoded>> => UNCHANGED Framing!vars
    BY <1>1 DEF Framing!vars, Bare
  <1>3. CASE NextBit \/ SetMinlen
    BY <1>2, <1>3 DEF NextBit, next_bit, SetMinlen, historyVars
  <1>4. CASE TooLong
    <2>1. pc = "too_long" /\ UNCHANGED Unhandled /\ ~was_toolong
      BY <1>1, <1>4 DEF TooLong, AtEnd
    <2>2. CASE minlen = -1 /\ End
      <3>1. check_handle_new_minute(-1) /\ ended /\ count = BUFLEN + 1
        BY <1>1, <1>4, <2>1, <2>2 DEF TooLong, AtEnd
      <3>2. Framing!Length = -1 /\ -1 \in 1 .. BUFLEN \cup {-1}
        BY <1>1, <3>1 DEF Framing!Length
      <3> QED
        BY <2>1, <2>2, <3>1, <3>2, DeliverIsDeliver
    <2>3. CASE ~(minlen = -1 /\ End)
      <3>1. UNCHANGED <<heard, count, decoded>>
        BY <1>4, <2>3 DEF TooLong, check_handle_new_minute, End
      <3> QED
        BY <1>2, <3>1
    <2> QED
      BY <2>2, <2>3
  <1>5. CASE NewMinute
    <2>1. /\ pc = "new_minute" /\ UNCHANGED Unhandled
          /\ check_handle_new_minute(minlen)
      BY <1>5 DEF NewMinute
    <2>2. CASE End /\ ~was_toolong
      <3>1. minlen = ml_bitpos + 1 /\ ended /\ Sized(minlen)
        BY <1>1, <2>1, <2>2 DEF AtEnd
      <3>2. minlen \in 1 .. BUFLEN /\ Framing!Holds(buffer)
        BY <1>1, <3>1 DEF Sized, Positions
      <3>3. Framing!Length = minlen
        BY <3>1 DEF Sized
      <3> QED
        BY <2>1, <2>2, <3>1, <3>2, <3>3, DeliverIsDeliver
    <2>3. CASE ~(End /\ ~was_toolong)
      <3>1. UNCHANGED <<heard, count, decoded>>
        BY <2>1, <2>3 DEF check_handle_new_minute, End
      <3> QED
        BY <1>2, <3>1
    <2> QED
      BY <2>2, <2>3
  <1> QED
    BY <1>3, <1>4, <1>5 DEF Stage

(***************************************************************************)
(* Whatever is in the log, with or without the lengths of the minutes,     *)
(* however many bits they have and wherever it was cut off and restarted,  *)
(* decode_time() gets every minute once, with its number of bits, the time *)
(* the log tells and its bits in place; a bare newline after less than two *)
(* bits counts as one more.                                                *)
(***************************************************************************)
THEOREM ImplementsFraming == Spec => FramingSpec
  <1>1. IInv /\ [Next]_fileVars => [Framing!Next]_(Framing!vars)
    <2> SUFFICES ASSUME IInv, [Next]_fileVars
                 PROVE  Framing!Next \/ UNCHANGED Framing!vars
      OBVIOUS
    <2>1. CASE GetBitChar
      BY <2>1, GetBitHears DEF Framing!Next
    <2>2. CASE GetLength \/ GetCutoff \/ GetEOF \/ TakePosition
      <3>1. logVars' = logVars /\ decoded' = decoded
            /\ historyVars' = historyVars
        <4>1. CASE GetLength
          BY <4>1, Zenon DEF GetLength
        <4>2. CASE GetCutoff
          BY <4>2, Zenon DEF GetCutoff
        <4>3. CASE GetEOF
          BY <4>3, Zenon DEF GetEOF
        <4>4. CASE TakePosition
          BY <4>4, Zenon DEF TakePosition
        <4> QED
          BY <2>2, <4>1, <4>2, <4>3, <4>4
      <3>2. UNCHANGED <<heard, count, decoded, recorded, ended, has_length>>
        BY <3>1, SMT DEF logVars, historyVars
      <3>3. Bare' = Bare
        BY <3>2, SMT DEF Bare
      <3> QED
        BY <3>2, <3>3, SMT DEF Framing!vars
    <2>3. CASE GetNewline
      BY <2>3, NewlineFraming DEF Framing!Next
    <2>4. CASE Stage
      BY <2>4, StageFraming DEF Framing!Next
    <2>5. CASE UNCHANGED fileVars
      BY <2>5 DEF fileVars, vars, historyVars, logVars, Bare, Framing!vars
    <2> QED
      BY <2>1, <2>2, <2>3, <2>4, <2>5 DEF Next
  <1> QED
    BY <1>1, InitFraming, SpecIInv, PTL DEF Spec, FramingSpec, Framing!Spec
=============================================================================
