-------------------------- MODULE ThirdPartyProofs --------------------------
(***************************************************************************)
(* Proofs about ThirdParty, for any lossy seconds and any number of faults.*)
(*                                                                         *)
(* The types need that second 1 precedes second 8 in the receiver's minute.*)
(* ShownInTime needs that the minutes of this cycle that were received in  *)
(* the right place come before the present one, so that the last of them   *)
(* is the minute that ends; and that when there is one, the decoder is     *)
(* initialised.  ShownRight needs what the buffer holds in the middle of   *)
(* such a cycle (ShowInv), and that the place of a bit is its rank (RankIs)*)
(***************************************************************************)
EXTENDS ThirdParty, FiniteSetTheorems, TLAPS

\* Between the two bits of type, the first is known.
TypeInv == tm_min = 0 /\ init_min < 2 /\ bitpos \in 2 .. 8 => tpstat \in {0, 2}

\* The minutes of this cycle that have ended; at its very start, the last one.
CycleInv ==
  /\ got # {} => init_min = 0
  /\ framed => init_min < 2
  /\ minute = 0 /\ second > 0 => got = {}
  /\ minute = 1 => got \subseteq {0}
  /\ minute = 2 => got \subseteq {0, 1}

IInv == TypeOK /\ TypeInv /\ CycleInv

-----------------------------------------------------------------------------
LEMMA BitsOf ==
  /\ Zero \in Bits /\ Old \in Bits
  /\ \A m \in Minutes, s \in Seconds : BitOf(m, s) \in Bits
  <1>1. Zero \in Bits /\ Old \in Bits
    BY DEF Bits
  <1>2. ASSUME NEW m \in Minutes, NEW s \in Seconds PROVE BitOf(m, s) \in Bits
    BY DEF Bits
  <1> QED
    BY <1>1, <1>2

LEMMA AgedType ==
  ASSUME TypeOK
  PROVE  Aged \in [Places -> Bits]
  <1>1. \A i \in Places : tpbuf[i] \in Bits
    BY Zenon DEF TypeOK
  <1> QED
    BY <1>1, BitsOf, Zenon DEF Aged

\* The bit that is received becomes part of the buffer, or of its type.
LEMMA FillType ==
  ASSUME TypeOK, TypeInv, init_min < 2,
         NEW buf \in [Places -> Bits], NEW bit_lost \in BOOLEAN,
         fill_thirdparty_buffer(buf, bit_lost)
  PROVE  /\ tpbuf' \in [Places -> Bits]
         /\ tpstat' \in 0 .. 3
         /\ tptype' \in {"unknown", "weather", "alarm"}
         /\ tm_min = 0 /\ bitpos \in 1 .. 7 => tpstat' \in {0, 2}
  <1>1. BitOf(minute, second) \in Bits
    BY BitsOf, Zenon DEF TypeOK
  <1>2. \A i \in Places : buf[i] \in Bits
    OBVIOUS
  <1>3. tpbuf' \in [Places -> Bits]
    BY <1>1, <1>2, BitsOf, Zenon DEF fill_thirdparty_buffer
  <1>4. BitVal(bit_lost) \in {0, 1}
    BY DEF BitVal, TypeOK
  <1>5. tptype' \in {"unknown", "weather", "alarm"}
    BY DEF fill_thirdparty_buffer, TypeOK, Type
  <1>6. CASE tm_min = 0 /\ bitpos = 1
    <2>1. tpstat' \in {0, 2}
      BY <1>4, <1>6 DEF fill_thirdparty_buffer
    <2> QED
      BY <2>1, <1>3, <1>5
  <1>7. CASE tm_min = 0 /\ bitpos = 8
    <2>1. tpstat \in {0, 2}
      BY <1>7 DEF TypeInv
    <2>2. tpstat' \in 0 .. 3
      BY <1>7, <2>1 DEF fill_thirdparty_buffer
    <2> QED
      BY <1>3, <1>5, <1>7, <2>2
  <1>8. CASE ~(tm_min = 0 /\ bitpos \in {1, 8})
    <2>1. tpstat' = tpstat
      BY <1>8 DEF fill_thirdparty_buffer
    <2> QED
      BY <1>3, <1>5, <1>8, <2>1 DEF TypeOK, TypeInv
  <1> QED
    BY <1>6, <1>7, <1>8

\* HandleMinute starts a minute of the receiver.
LEMMA HandleType ==
  ASSUME TypeOK, NEW min \in Minutes, HandleMinute(min)
  PROVE  /\ tm_min' \in Minutes /\ init_min' \in 0 .. 2 /\ bitpos' = 0
         /\ shown' \in BOOLEAN
         /\ init_min' < 2
         /\ init_min < 2 => init_min' = 0
  BY DEF HandleMinute, TypeOK, Minutes

LEMMA MinuteTypes ==
  ASSUME TypeOK
  PROVE  /\ (minute + 1) % 3 \in Minutes
         /\ AddMinutes(1) \in Minutes
  BY DEF TypeOK, Minutes, AddMinutes

-----------------------------------------------------------------------------
(***************************************************************************)
(* The actions.                                                            *)
(***************************************************************************)
LEMMA InitIInv == Init => IInv
  <1> SUFFICES ASSUME Init PROVE IInv
    OBVIOUS
  <1>1. tpbuf \in [Places -> Bits]
    BY BitsOf, Zenon DEF Init
  <1>2. TypeOK
    <2>1. /\ minute \in Minutes /\ second \in Seconds /\ bitpos \in Seconds
          /\ tm_min \in Minutes /\ init_min \in 0 .. 2 /\ tpstat \in 0 .. 3
      BY DEF Init, Seconds, LastSecond, Minutes
    <2>2. faults \in 0 .. MaxFaults
      BY ThirdPartyAssumption DEF Init
    <2>3. /\ shown \in BOOLEAN /\ framed \in BOOLEAN
          /\ tptype \in {"unknown", "weather", "alarm"}
          /\ got \subseteq Minutes /\ lost \subseteq Minutes \X Lossy
          /\ type_sent \in [{1, 8} -> {0, 1}]
      BY Zenon DEF Init
    <2> QED
      BY <1>1, <2>1, <2>2, <2>3, Zenon DEF TypeOK
  <1> QED
    BY <1>2 DEF IInv, Init, TypeInv, CycleInv

LEMMA SecondIInv == IInv /\ Second => IInv'
  <1> SUFFICES ASSUME IInv, Second PROVE IInv'
    OBVIOUS
  <1> USE DEF IInv
  <1>1. /\ second' \in Seconds /\ bitpos' \in Seconds
        /\ bitpos' \in 2 .. 8 => bitpos \in 1 .. 7 /\ bitpos' = bitpos + 1
        /\ second' > 0
    BY DEF Second, TypeOK, Later, Seconds, LastSecond
  <1>2. PICK bit_lost \in BOOLEAN :
          /\ bit_lost => second \in Lossy /\ faults < MaxFaults
          /\ faults' = IF bit_lost THEN faults + 1 ELSE faults
          /\ lost' = (IF NewCycle THEN {} ELSE lost)
                       \cup (IF bit_lost THEN {<<minute, second>>} ELSE {})
          /\ \E buf \in {IF NewCycle THEN Aged ELSE tpbuf} :
               IF init_min < 2
                 THEN fill_thirdparty_buffer(buf, bit_lost)
                 ELSE tpbuf' = buf /\ UNCHANGED <<tpstat, tptype>>
    BY DEF Second
  <1>3. PICK buf \in [Places -> Bits] :
               IF init_min < 2
                 THEN fill_thirdparty_buffer(buf, bit_lost)
                 ELSE tpbuf' = buf /\ UNCHANGED <<tpstat, tptype>>
    BY <1>2, AgedType, Zenon DEF TypeOK
  <1>4. /\ tpbuf' \in [Places -> Bits]
        /\ tpstat' \in 0 .. 3
        /\ tptype' \in {"unknown", "weather", "alarm"}
        /\ init_min < 2 /\ tm_min = 0 /\ bitpos \in 1 .. 7 => tpstat' \in {0, 2}
    <2>1. CASE init_min < 2
      BY <1>3, <2>1, FillType
    <2>2. CASE ~(init_min < 2)
      BY <1>3, <2>2 DEF TypeOK
    <2> QED
      BY <2>1, <2>2
  <1>5. faults' \in 0 .. MaxFaults
    BY <1>2, ThirdPartyAssumption DEF TypeOK
  <1>6. lost' \subseteq Minutes \X Lossy
    BY <1>2 DEF TypeOK
  <1>7. type_sent' \in [{1, 8} -> {0, 1}]
    BY DEF Second, TypeOK
  <1>8. UNCHANGED <<minute, tm_min, init_min, framed>> /\ shown' = FALSE
    BY DEF Second, decodedVars
  <1>9. got' = (IF NewCycle THEN {} ELSE got)
    BY DEF Second
  <1>10. TypeOK'
    BY <1>1, <1>4, <1>5, <1>6, <1>7, <1>8, <1>9 DEF TypeOK
  <1>11. TypeInv'
    BY <1>1, <1>4, <1>8 DEF TypeInv
  <1>12. CycleInv'
    BY <1>1, <1>8, <1>9 DEF CycleInv, NewCycle, TypeOK, Seconds, LastSecond
  <1> QED
    BY <1>10, <1>11, <1>12

\* Whatever the decoder makes of the minute.
LEMMA NoticedIInv ==
  ASSUME IInv, NoticeEnd, faults' \in 0 .. MaxFaults,
         NEW min \in Minutes, HandleMinute(min)
  PROVE  IInv'
  <1> USE DEF IInv
  <1>2. /\ tm_min' \in Minutes /\ init_min' \in 0 .. 2 /\ bitpos' = 0
        /\ shown' \in BOOLEAN
        /\ init_min' < 2
        /\ init_min < 2 => init_min' = 0
    BY HandleType
  <1>3. /\ second = LastSecond /\ second' = 0
        /\ minute' = (minute + 1) % 3 /\ framed' = TRUE
        /\ UNCHANGED <<type_sent, tpbuf, tpstat, tptype, lost>>
        /\ got' = IF framed /\ tm_min = minute THEN got \cup {minute} ELSE got
    BY DEF NoticeEnd, SendMinute, bufferVars
  <1>4. got' \subseteq Minutes
    BY <1>3 DEF TypeOK
  <1>5. TypeOK'
    BY <1>2, <1>3, <1>4, MinuteTypes DEF TypeOK, Seconds, LastSecond
  <1>6. TypeInv'
    BY <1>2 DEF TypeInv
  <1>7. got' # {} => init_min' = 0
    BY <1>2, <1>3 DEF CycleInv
  <1>8. /\ minute' = 1 => got' \subseteq {0}
        /\ minute' = 2 => got' \subseteq {0, 1}
    <2>1. CASE minute = 0
      BY <2>1, <1>3 DEF CycleInv, LastSecond
    <2>2. CASE minute = 1
      BY <2>2, <1>3 DEF CycleInv
    <2>3. CASE minute = 2
      BY <2>3, <1>3
    <2> QED
      BY <2>1, <2>2, <2>3 DEF TypeOK, Minutes
  <1>9. CycleInv'
    BY <1>2, <1>3, <1>7, <1>8 DEF CycleInv
  <1> QED
    BY <1>5, <1>6, <1>9

LEMMA EndOfMinuteIInv == IInv /\ EndOfMinute => IInv'
  <1> SUFFICES ASSUME IInv, EndOfMinute PROVE IInv'
    OBVIOUS
  <1>1. TypeOK
    BY DEF IInv
  <1>2. PICK min \in Minutes : HandleMinute(min)
    BY <1>1, MinuteTypes DEF EndOfMinute
  <1>3. NoticeEnd /\ faults' \in 0 .. MaxFaults
    BY <1>1 DEF EndOfMinute, TypeOK
  <1> QED
    BY <1>2, <1>3, NoticedIInv

LEMMA StaleMinuteIInv == IInv /\ StaleMinute => IInv'
  <1> SUFFICES ASSUME IInv, StaleMinute PROVE IInv'
    OBVIOUS
  <1>1. PICK min \in Minutes : HandleMinute(min)
    BY DEF StaleMinute
  <1>2. NoticeEnd /\ faults' \in 0 .. MaxFaults
    BY ThirdPartyAssumption DEF StaleMinute, IInv, TypeOK
  <1> QED
    BY <1>1, <1>2, NoticedIInv

LEMMA MissedEndIInv == IInv /\ MissedEnd => IInv'
  <1> SUFFICES ASSUME IInv, MissedEnd PROVE IInv'
    OBVIOUS
  <1> USE DEF IInv
  <1>1. /\ second = LastSecond /\ second' = 0
        /\ minute' = (minute + 1) % 3 /\ framed' = FALSE /\ shown' = FALSE
        /\ UNCHANGED <<type_sent, bitpos, tm_min, init_min, tpbuf, tpstat, tptype,
                       got, lost>>
        /\ faults < MaxFaults /\ faults' = faults + 1
    BY DEF MissedEnd, SendMinute, bufferVars, decodedVars
  <1>a. faults' \in 0 .. MaxFaults
    BY <1>1, ThirdPartyAssumption DEF TypeOK
  <1>2. TypeOK'
    <2>1. second' \in Seconds
      BY <1>1 DEF Seconds, LastSecond
    <2>2. minute' \in Minutes
      BY <1>1, MinuteTypes DEF TypeOK
    <2> QED
      BY <1>1, <1>a, <2>1, <2>2, Zenon DEF TypeOK
  <1>3. TypeInv'
    BY <1>1 DEF TypeInv
  <1>4. /\ minute' = 1 => got \subseteq {0}
        /\ minute' = 2 => got \subseteq {0, 1}
    BY <1>1 DEF CycleInv, TypeOK, Minutes, LastSecond
  <1>5. CycleInv'
    BY <1>1, <1>4 DEF CycleInv
  <1> QED
    BY <1>2, <1>3, <1>5

LEMMA FalseEndIInv == IInv /\ FalseEnd => IInv'
  <1> SUFFICES ASSUME IInv, FalseEnd PROVE IInv'
    OBVIOUS
  <1> USE DEF IInv
  <1>1. PICK min \in Minutes : HandleMinute(min)
    BY MinuteTypes DEF FalseEnd
  <1>2. /\ tm_min' \in Minutes /\ init_min' \in 0 .. 2 /\ bitpos' = 0
        /\ shown' \in BOOLEAN
        /\ init_min' < 2
        /\ init_min < 2 => init_min' = 0
    BY <1>1, HandleType
  <1>3. /\ UNCHANGED <<minute, second, type_sent, tpbuf, tpstat, tptype, got, lost>>
        /\ framed' = FALSE
        /\ faults < MaxFaults /\ faults' = faults + 1
    BY DEF FalseEnd, senderVars, bufferVars
  <1>a. faults' \in 0 .. MaxFaults
    BY <1>3, ThirdPartyAssumption DEF TypeOK
  <1>4. TypeOK'
    <2>1. bitpos' \in Seconds
      BY <1>2 DEF Seconds, LastSecond
    <2> QED
      BY <1>2, <1>3, <1>a, <2>1, Zenon DEF TypeOK
  <1>5. TypeInv'
    BY <1>2 DEF TypeInv
  <1>6. CycleInv'
    BY <1>2, <1>3 DEF CycleInv
  <1> QED
    BY <1>4, <1>5, <1>6

(***************************************************************************)
(* The inductive invariant: the first bit of type precedes the second, and *)
(* the minutes received in the right place precede the present one.        *)
(***************************************************************************)
THEOREM Invariant == Spec => []IInv
  <1>1. IInv /\ UNCHANGED vars => IInv'
    BY DEF IInv, TypeOK, TypeInv, CycleInv, vars, senderVars, bufferVars,
           decodedVars
  <1>2. IInv /\ [Next]_vars => IInv'
    BY <1>1, SecondIInv, EndOfMinuteIInv, StaleMinuteIInv, MissedEndIInv,
       FalseEndIInv DEF Next
  <1> QED
    BY <1>2, InitIInv, PTL DEF Spec

(***************************************************************************)
(* Every variable has its type; the type bits never add up to more than 3. *)
(***************************************************************************)
THEOREM TypeCorrect == Spec => []TypeOK
  <1>1. IInv => TypeOK
    BY DEF IInv
  <1> QED
    BY <1>1, Invariant, PTL

(***************************************************************************)
(* Three minutes received at their time are shown as soon as the last one  *)
(* ends, however many faults came before, unless that minute takes its     *)
(* time from the bits of an earlier one in the buffer.                     *)
(***************************************************************************)
THEOREM InTime == Spec => ShownInTime
  <1>1. ASSUME IInv, EndOfMinute, minute = 2, got' = Minutes
        PROVE  shown'
    <2>1. 2 \notin got
      BY <1>1 DEF IInv, CycleInv
    <2>2. framed /\ tm_min = 2
      BY <1>1, <2>1 DEF EndOfMinute, NoticeEnd, Minutes
    <2>3. 0 \in got
      BY <1>1 DEF EndOfMinute, NoticeEnd, Minutes
    <2>4. init_min = 0
      BY <1>1, <2>3 DEF IInv, CycleInv
    <2>5. HandleMinute(0)
      BY <1>1, <2>2 DEF EndOfMinute, AddMinutes
    <2> QED
      BY <2>4, <2>5 DEF HandleMinute
  \* No other step ends a minute of the sender and adds it to those received.
  <1>2. ASSUME IInv, [Next]_vars, SendMinute, minute = 2, got' = Minutes
        PROVE  EndOfMinute \/ StaleMinute
    <2>1. 2 \notin got /\ got # got'
      BY <1>2 DEF IInv, CycleInv, Minutes
    <2>2. second = LastSecond /\ second' = 0
      BY <1>2 DEF SendMinute
    <2>3. ~Second
      BY <1>2, <2>2 DEF Second, Later, LastSecond
    <2>4. ~MissedEnd /\ ~FalseEnd /\ ~UNCHANGED vars
      BY <2>1 DEF MissedEnd, FalseEnd, vars
    <2> QED
      BY <1>2, <2>3, <2>4 DEF Next
  <1>3. IInv /\ [Next]_vars =>
          [(SendMinute /\ minute = 2 /\ got' = Minutes) =>
             shown' \/ StaleMinute]_vars
    BY <1>1, <1>2
  <1> QED
    BY <1>3, Invariant, PTL DEF Spec, ShownInTime

-----------------------------------------------------------------------------
(***************************************************************************)
(* The places of the bits of data.                                         *)
(***************************************************************************)
PlaceOf(m, s) == IF m = 0 THEN IF s < 8 THEN s - 2 ELSE s - 3
                 ELSE IF m = 1 THEN s + 11 ELSE s + 25

\* The seconds of a cycle.
Time(m, s) == 15 * m + s

\* The bit of data that comes as the i-th.
DataBit(i) == IF i <= 6 THEN <<0, i + 1>> ELSE IF i <= 12 THEN <<0, i + 2>>
              ELSE IF i <= 26 THEN <<1, i - 12>> ELSE <<2, i - 26>>

LEMMA PlaceRange ==
  ASSUME NEW m \in Minutes, NEW s \in Seconds, IsData(m, s)
  PROVE  PlaceOf(m, s) \in Places
  BY DEF PlaceOf, Places, TPBUFLEN, IsData, Minutes, Seconds, LastSecond

\* The places are in the order in which the bits are sent.
LEMMA PlaceOrder ==
  ASSUME NEW m \in Minutes, NEW s \in Seconds, IsData(m, s),
         NEW k \in Minutes, NEW u \in Seconds, IsData(k, u)
  PROVE  /\ Time(k, u) < Time(m, s) <=> PlaceOf(k, u) < PlaceOf(m, s)
         /\ Time(k, u) = Time(m, s) => k = m /\ u = s
         /\ PlaceOf(k, u) = PlaceOf(m, s) => k = m /\ u = s
  BY DEF PlaceOf, IsData, Minutes, Seconds, LastSecond, Time

LEMMA DataBitPlace ==
  ASSUME NEW i \in 1 .. TPBUFLEN
  PROVE  \E m \in Minutes, s \in Seconds :
           DataBit(i) = <<m, s>> /\ IsData(m, s) /\ PlaceOf(m, s) = i - 1
  <1>1. i \in 1 .. 40
    BY DEF TPBUFLEN
  <1>2. CASE i <= 6
    <2>1. DataBit(i) = <<0, i + 1>>
      BY <1>2 DEF DataBit
    <2>2. /\ 0 \in Minutes /\ i + 1 \in Seconds /\ IsData(0, i + 1)
          /\ PlaceOf(0, i + 1) = i - 1
      BY <1>1, <1>2 DEF PlaceOf, IsData, Minutes, Seconds, LastSecond
    <2> QED
      BY <2>1, <2>2
  <1>3. CASE ~(i <= 6) /\ i <= 12
    <2>1. DataBit(i) = <<0, i + 2>>
      BY <1>3 DEF DataBit
    <2>2. /\ 0 \in Minutes /\ i + 2 \in Seconds /\ IsData(0, i + 2)
          /\ PlaceOf(0, i + 2) = i - 1
      BY <1>1, <1>3 DEF PlaceOf, IsData, Minutes, Seconds, LastSecond
    <2> QED
      BY <2>1, <2>2
  <1>4. CASE ~(i <= 12) /\ i <= 26
    <2>1. DataBit(i) = <<1, i - 12>>
      BY <1>1, <1>4 DEF DataBit
    <2>2. /\ 1 \in Minutes /\ i - 12 \in Seconds /\ IsData(1, i - 12)
          /\ PlaceOf(1, i - 12) = i - 1
      BY <1>1, <1>4 DEF PlaceOf, IsData, Minutes, Seconds, LastSecond
    <2> QED
      BY <2>1, <2>2
  <1>5. CASE ~(i <= 26)
    <2>1. DataBit(i) = <<2, i - 26>>
      BY <1>1, <1>5 DEF DataBit
    <2>2. /\ 2 \in Minutes /\ i - 26 \in Seconds /\ IsData(2, i - 26)
          /\ PlaceOf(2, i - 26) = i - 1
      BY <1>1, <1>5 DEF PlaceOf, IsData, Minutes, Seconds, LastSecond
    <2> QED
      BY <2>1, <2>2
  <1> QED
    BY <1>1, <1>2, <1>3, <1>4, <1>5

(***************************************************************************)
(* A bit of data has the place of its rank among the bits of data: the     *)
(* bits before it are counted by their places.                             *)
(***************************************************************************)
LEMMA RankIs ==
  ASSUME NEW m \in Minutes, NEW s \in Seconds, IsData(m, s)
  PROVE  Rank(m, s) = PlaceOf(m, s)
  <1> DEFINE n == PlaceOf(m, s)
             S == {b \in Minutes \X Seconds : /\ IsData(b[1], b[2])
                                              /\ 15 * b[1] + b[2] < 15 * m + s}
             f == [i \in 1 .. n |-> DataBit(i)]
  <1>1. n \in 0 .. TPBUFLEN - 1
    BY PlaceRange DEF Places
  <1>2. n \in Nat
    BY <1>1 DEF TPBUFLEN
  <1> HIDE DEF n
  <1>3. ASSUME NEW i \in 1 .. n
        PROVE  \E k \in Minutes, u \in Seconds :
                 /\ DataBit(i) = <<k, u>> /\ <<k, u>> \in S
                 /\ PlaceOf(k, u) = i - 1
    <2>1. i \in 1 .. TPBUFLEN
      BY <1>1, <1>3 DEF TPBUFLEN
    <2>2. PICK k \in Minutes, u \in Seconds :
            DataBit(i) = <<k, u>> /\ IsData(k, u) /\ PlaceOf(k, u) = i - 1
      BY <2>1, DataBitPlace
    <2>3. PlaceOf(k, u) < PlaceOf(m, s)
      BY <1>2, <1>3, <2>2 DEF n
    <2>4. Time(k, u) < Time(m, s)
      BY <2>2, <2>3, PlaceOrder
    <2>5. <<k, u>> \in S
      BY <2>2, <2>4 DEF Time
    <2> QED
      BY <2>2, <2>5
  <1>4. ASSUME NEW b \in S
        PROVE  \E i \in 1 .. n : DataBit(i) = b
    <2>1. PICK k \in Minutes, u \in Seconds :
            b = <<k, u>> /\ IsData(k, u) /\ Time(k, u) < Time(m, s)
      BY <1>4 DEF Time
    <2>2. PlaceOf(k, u) < n /\ PlaceOf(k, u) \in Places
      BY <2>1, PlaceOrder, PlaceRange DEF n
    <2> DEFINE i == PlaceOf(k, u) + 1
    <2>3. i \in 1 .. n /\ i \in 1 .. TPBUFLEN
      BY <1>1, <2>2 DEF Places, TPBUFLEN
    <2>4. PICK k2 \in Minutes, u2 \in Seconds :
            DataBit(i) = <<k2, u2>> /\ IsData(k2, u2) /\ PlaceOf(k2, u2) = i - 1
      BY <2>3, DataBitPlace
    <2>5. PlaceOf(k2, u2) = PlaceOf(k, u)
      BY <2>2, <2>4 DEF Places, TPBUFLEN
    <2>6. k2 = k /\ u2 = u
      BY <2>1, <2>4, <2>5, PlaceOrder
    <2> QED
      BY <2>1, <2>3, <2>4, <2>6
  <1>5. f \in Bijection(1 .. n, S)
    <2>1. f \in [1 .. n -> S]
      BY <1>3
    <2>2. ASSUME NEW i \in 1 .. n, NEW j \in 1 .. n, f[i] = f[j]
          PROVE  i = j
      <3>1. DataBit(i) = DataBit(j)
        BY <2>2
      <3>2. PICK k \in Minutes, u \in Seconds :
              DataBit(i) = <<k, u>> /\ PlaceOf(k, u) = i - 1
        BY <1>3
      <3>3. PICK k2 \in Minutes, u2 \in Seconds :
              DataBit(j) = <<k2, u2>> /\ PlaceOf(k2, u2) = j - 1
        BY <1>3
      <3>a. <<k, u>> = <<k2, u2>>
        BY <3>1, <3>2, <3>3, Zenon
      <3>4. k = k2 /\ u = u2
        BY <3>a
      <3>5. i - 1 = j - 1
        BY <3>2, <3>3, <3>4
      <3> QED
        BY <3>5
    <2>3. \A b \in S : \E i \in 1 .. n : f[i] = b
      BY <1>4
    <2> QED
      BY <2>1, <2>2, <2>3 DEF Bijection, Injection, Surjection, IsInjective
  <1>6. ExistsBijection(1 .. n, S)
    BY <1>5 DEF ExistsBijection
  <1> HIDE DEF S
  <1>7. Cardinality(S) = n
    BY <1>2, <1>6, FS_CountingElements
  <1> QED
    BY <1>7 DEF S, n, Rank

-----------------------------------------------------------------------------
(***************************************************************************)
(* What the buffer holds during a cycle whose minutes so far were received *)
(* in the right place.                                                     *)
(***************************************************************************)
Received == framed /\ tm_min = minute /\ \A m \in Minutes : m < minute => m \in got

BitRight(m, s) ==
  tpbuf[PlaceOf(m, s)] = IF <<m, s>> \in lost THEN Zero ELSE BitOf(m, s)

TypeRight == tptype = Type(2 * TypeBit(1) + TypeBit(8))

\* In a minute received from its first second, the seconds agree.
Aligned == framed => bitpos = second

\* The bits that were lost have been sent.
LostInv == NewCycle \/ \A b \in lost : Time(b[1], b[2]) < Time(minute, second)

\* The bits of data sent so far are in the buffer.
BufInv ==
  Received => \A m \in Minutes, s \in Seconds :
    IsData(m, s) /\ Time(m, s) < Time(minute, second) => BitRight(m, s)

\* The first bit of type is known until the second comes, and then the type.
StatInv == Received /\ minute = 0 /\ second \in 2 .. 8 => tpstat = 2 * TypeBit(1)
TypeShown == Received /\ (minute > 0 \/ second > 8) => TypeRight

\* When a new cycle begins, all of the last one is there.
CycleEnd ==
  NewCycle /\ got = Minutes =>
    /\ \A m \in Minutes, s \in Seconds : IsData(m, s) => BitRight(m, s)
    /\ TypeRight

ShowInv == Aligned /\ LostInv /\ BufInv /\ StatInv /\ TypeShown /\ CycleEnd

\* The place of the bit that is received, when the receiver is in step.
LEMMA PlaceIs ==
  ASSUME minute \in Minutes, second \in Seconds, bitpos = second,
         NEW i \in Places
  PROVE  i \in Place(minute) <=> IsData(minute, second) /\ i = PlaceOf(minute, second)
  <1>1. CASE minute = 0
    <2>1. CASE second \in 2 .. 7
      <3>1. Place(minute) = {bitpos - 2}
        BY <1>1, <2>1 DEF Place
      <3>2. IsData(minute, second) /\ PlaceOf(minute, second) = second - 2
        BY <1>1, <2>1 DEF PlaceOf, IsData
      <3> QED
        BY <3>1, <3>2
    <2>2. CASE second \in 9 .. 14
      <3>1. Place(minute) = {bitpos - 3}
        BY <1>1, <2>2 DEF Place
      <3>2. IsData(minute, second) /\ PlaceOf(minute, second) = second - 3
        BY <1>1, <2>2 DEF PlaceOf, IsData
      <3> QED
        BY <3>1, <3>2
    <2>3. CASE ~(second \in 2 .. 7) /\ ~(second \in 9 .. 14)
      <3>1. Place(minute) = {}
        BY <1>1, <2>3 DEF Place
      <3>2. ~IsData(minute, second)
        BY <1>1, <2>3 DEF IsData, Seconds, LastSecond
      <3> QED
        BY <3>1, <3>2
    <2> QED
      BY <2>1, <2>2, <2>3
  <1>2. CASE minute \in {1, 2} /\ second \in 1 .. 14
    <2>1. IsData(minute, second)
      BY <1>2 DEF IsData
    <2>2. CASE minute = 1
      <3>1. Place(minute) = {bitpos + 11} /\ PlaceOf(minute, second) = second + 11
        BY <1>2, <2>2 DEF Place, PlaceOf
      <3> QED
        BY <2>1, <3>1
    <2>3. CASE minute = 2
      <3>1. Place(minute) = {bitpos + 25} /\ PlaceOf(minute, second) = second + 25
        BY <1>2, <2>3 DEF Place, PlaceOf
      <3> QED
        BY <2>1, <3>1
    <2> QED
      BY <1>2, <2>2, <2>3
  <1>3. CASE minute \in {1, 2} /\ ~(second \in 1 .. 14)
    <2>1. Place(minute) = {}
      BY <1>3 DEF Place
    <2>2. ~IsData(minute, second)
      BY <1>3 DEF IsData
    <2> QED
      BY <2>1, <2>2
  <1> QED
    BY <1>1, <1>2, <1>3 DEF Minutes

LEMMA InitShowInv == Init => ShowInv
  BY DEF Init, ShowInv, Aligned, LostInv, BufInv, StatInv, TypeShown, CycleEnd,
         Received, Minutes

-----------------------------------------------------------------------------
(***************************************************************************)
(* A second.  What it does to the bit that is sent in it, and to others.   *)
(***************************************************************************)
LEMMA SecondStep ==
  ASSUME IInv, ShowInv, Second, Received'
  PROVE  /\ Received
         /\ bitpos = second /\ second \in 0 .. 14 /\ second' = second + 1
         /\ minute' = minute
         /\ \E bit_lost \in BOOLEAN :
              /\ bit_lost => second \in 1 .. 14
              /\ lost' = (IF NewCycle THEN {} ELSE lost)
                           \cup (IF bit_lost THEN {<<minute, second>>} ELSE {})
              /\ ~NewCycle => fill_thirdparty_buffer(tpbuf, bit_lost)
  <1>1. /\ second < LastSecond \/ bitpos < LastSecond
        /\ second' = Later(second)
        /\ minute' = minute /\ framed' = framed /\ tm_min' = tm_min
        /\ got' = IF NewCycle THEN {} ELSE got
    BY DEF Second, decodedVars
  <1>2. Received
    BY <1>1 DEF Received
  <1>3. bitpos = second /\ init_min < 2
    BY <1>2 DEF ShowInv, Aligned, Received, IInv, CycleInv
  <1>4. second \in 0 .. 14 /\ second' = second + 1
    BY <1>1, <1>3 DEF IInv, TypeOK, Seconds, LastSecond, Later
  <1>5. PICK bit_lost \in BOOLEAN :
          /\ bit_lost => second \in Lossy
          /\ lost' = (IF NewCycle THEN {} ELSE lost)
                       \cup (IF bit_lost THEN {<<minute, second>>} ELSE {})
          /\ \E buf \in {IF NewCycle THEN Aged ELSE tpbuf} :
               IF init_min < 2
                 THEN fill_thirdparty_buffer(buf, bit_lost)
                 ELSE tpbuf' = buf /\ UNCHANGED <<tpstat, tptype>>
    BY DEF Second
  <1>6. ~NewCycle => fill_thirdparty_buffer(tpbuf, bit_lost)
    BY <1>3, <1>5
  <1>7. bit_lost => second \in 1 .. 14
    BY <1>5, ThirdPartyAssumption
  <1> QED
    BY <1>1, <1>2, <1>3, <1>4, <1>5, <1>6, <1>7

\* The present bit has not been lost before; the other ones do not change.
LEMMA LostStep ==
  ASSUME TypeOK, LostInv, ~NewCycle, NEW bit_lost \in BOOLEAN,
         lost' = lost \cup (IF bit_lost THEN {<<minute, second>>} ELSE {})
  PROVE  /\ <<minute, second>> \in lost' <=> bit_lost
         /\ \A m \in Minutes, s \in Seconds :
              ~(m = minute /\ s = second) => (<<m, s>> \in lost' <=> <<m, s>> \in lost)
  <1>1. ASSUME <<minute, second>> \in lost PROVE FALSE
    <2>1. \A b \in lost : Time(b[1], b[2]) < Time(minute, second)
      BY DEF LostInv
    <2> DEFINE b == <<minute, second>>
    <2>2. b[1] = minute /\ b[2] = second
      OBVIOUS
    <2>3. b \in lost
      BY <1>1
    <2> HIDE DEF b
    <2>4. Time(minute, second) < Time(minute, second)
      BY <2>1, <2>2, <2>3
    <2> QED
      BY <2>4 DEF Time, TypeOK, Minutes, Seconds, LastSecond
  <1>2. ASSUME NEW m \in Minutes, NEW s \in Seconds, ~(m = minute /\ s = second)
        PROVE  <<m, s>> \in lost' <=> <<m, s>> \in lost
    <2>1. <<m, s>> # <<minute, second>>
      BY <1>2
    <2> QED
      BY <2>1, Zenon
  <1> QED
    BY <1>1, <1>2

LEMMA SecondLost ==
  ASSUME IInv, ShowInv, Second
  PROVE  LostInv'
  <1>1. PICK bit_lost \in BOOLEAN :
          /\ bit_lost => second \in Lossy
          /\ lost' = (IF NewCycle THEN {} ELSE lost)
                       \cup (IF bit_lost THEN {<<minute, second>>} ELSE {})
    BY DEF Second
  <1>2. minute' = minute /\ second' = Later(second)
    BY DEF Second
  <1>3. bit_lost => second \in 1 .. 14
    BY <1>1, ThirdPartyAssumption
  <1>4. /\ minute \in 0 .. 2 /\ second \in 0 .. 15
        /\ Time(minute, second)' >= Time(minute, second)
        /\ bit_lost => Time(minute, second)' > Time(minute, second)
    BY <1>2, <1>3 DEF IInv, TypeOK, Minutes, Seconds, LastSecond, Later, Time
  <1>5. ASSUME NEW b \in lost' PROVE Time(b[1], b[2]) < Time(minute, second)'
    <2>1. CASE b \in lost /\ ~NewCycle
      <3>1. b \in Minutes \X Lossy
        BY <2>1 DEF IInv, TypeOK
      <3>2. b[1] \in 0 .. 2 /\ b[2] \in 1 .. 14
        BY <3>1, ThirdPartyAssumption DEF Minutes
      <3>3. Time(b[1], b[2]) < Time(minute, second)
        BY <2>1 DEF ShowInv, LostInv
      <3> QED
        BY <1>2, <1>4, <3>2, <3>3 DEF Time, Later, LastSecond
    <2>2. CASE b = <<minute, second>> /\ bit_lost
      <3>1. b[1] = minute /\ b[2] = second
        BY <2>2
      <3> QED
        BY <1>4, <2>2, <3>1
    <2> QED
      BY <1>1, <2>1, <2>2
  <1> QED
    BY <1>5 DEF LostInv

LEMMA SecondBuf ==
  ASSUME IInv, ShowInv, Second
  PROVE  BufInv'
  <1> SUFFICES ASSUME Received',
                      NEW m \in Minutes, NEW s \in Seconds, IsData(m, s),
                      Time(m, s) < Time(minute, second)'
               PROVE  BitRight(m, s)'
    BY DEF BufInv, IsData, Time
  <1>1. /\ Received
        /\ bitpos = second /\ second \in 0 .. 14 /\ second' = second + 1
        /\ minute' = minute
    BY SecondStep
  <1>2. Time(minute, second)' = Time(minute, second) + 1
    BY <1>1 DEF Time, IInv, TypeOK, Minutes
  <1>3. /\ minute \in Minutes /\ second \in Seconds /\ tm_min = minute
    BY <1>1 DEF IInv, TypeOK, Received
  <1>4. ~NewCycle
    BY <1>1, <1>2, <1>3 DEF NewCycle, Time, IsData, Minutes, Seconds, LastSecond
  <1>5. PICK bit_lost \in BOOLEAN :
          /\ lost' = lost \cup (IF bit_lost THEN {<<minute, second>>} ELSE {})
          /\ fill_thirdparty_buffer(tpbuf, bit_lost)
    BY <1>4, SecondStep
  <1>6. /\ <<minute, second>> \in lost' <=> bit_lost
        /\ ~(m = minute /\ s = second) => (<<m, s>> \in lost' <=> <<m, s>> \in lost)
    BY <1>4, <1>5, LostStep DEF IInv, ShowInv
  <1> DEFINE p == PlaceOf(m, s)
  <1>7. p \in Places
    BY PlaceRange
  <1>8. p \in Place(tm_min) <=> IsData(minute, second) /\ p = PlaceOf(minute, second)
    BY <1>1, <1>3, <1>7, PlaceIs
  <1>9. BitRight(m, s)' <=>
          tpbuf'[p] = IF <<m, s>> \in lost' THEN Zero ELSE BitOf(m, s)
    BY DEF BitRight, PlaceOf, Zero, BitOf
  <1>10. tpbuf'[p] = IF p \notin Place(tm_min) THEN tpbuf[p]
                     ELSE IF bit_lost THEN Zero ELSE BitOf(minute, second)
    BY <1>5, <1>7, Zenon DEF fill_thirdparty_buffer
  <1>11. CASE m = minute /\ s = second
    <2>1. p \in Place(tm_min)
      BY <1>8, <1>11
    <2>2. tpbuf'[p] = IF bit_lost THEN Zero ELSE BitOf(m, s)
      BY <1>10, <1>11, <2>1, Zenon
    <2>3. <<m, s>> \in lost' <=> bit_lost
      BY <1>6, <1>11, Zenon
    <2> QED
      BY <1>9, <2>2, <2>3, Zenon
  <1>12. CASE ~(m = minute /\ s = second)
    <2>1. Time(m, s) # Time(minute, second)
      <3>1. CASE s = 15
        BY <3>1 DEF IsData
      <3>2. CASE s # 15
        BY <1>1, <1>3, <1>12, <3>2 DEF Time, Minutes, Seconds, LastSecond
      <3> QED
        BY <3>1, <3>2
    <2>2. Time(m, s) < Time(minute, second)
      BY <1>2, <1>3, <2>1 DEF Time, Minutes, Seconds, LastSecond
    <2>3. BitRight(m, s)
      BY <1>1, <2>2 DEF ShowInv, BufInv
    <2>4. p \notin Place(tm_min)
      <3> SUFFICES ASSUME IsData(minute, second), p = PlaceOf(minute, second)
                   PROVE  FALSE
        BY <1>8
      <3> QED
        BY <1>3, <1>12, PlaceOrder
    <2>5. tpbuf'[p] = tpbuf[p]
      BY <1>10, <2>4, Zenon
    <2>6. <<m, s>> \in lost' <=> <<m, s>> \in lost
      BY <1>6, <1>12, Zenon
    <2> QED
      BY <1>9, <2>3, <2>5, <2>6, Zenon DEF BitRight
  <1> QED
    BY <1>11, <1>12

\* What Second does to the bits of type.
LEMMA SecondType ==
  ASSUME IInv, ShowInv, Second
  PROVE  StatInv' /\ TypeShown'
  <1> SUFFICES ASSUME Received' PROVE StatInv' /\ TypeShown'
    BY DEF StatInv, TypeShown
  <1>1. /\ Received
        /\ bitpos = second /\ second \in 0 .. 14 /\ second' = second + 1
        /\ minute' = minute
    BY SecondStep
  <1>2. minute \in Minutes /\ second \in Seconds /\ tm_min = minute /\ TypeOK
    BY <1>1 DEF IInv, TypeOK, Received
  <1>3. CASE NewCycle
    BY <1>1, <1>3 DEF NewCycle, StatInv, TypeShown
  <1>4. CASE ~NewCycle
    <2>1. PICK bit_lost \in BOOLEAN :
            /\ lost' = lost \cup (IF bit_lost THEN {<<minute, second>>} ELSE {})
            /\ fill_thirdparty_buffer(tpbuf, bit_lost)
      BY <1>4, SecondStep
    <2>2. type_sent' = type_sent
      BY <1>4 DEF Second
    <2>3. /\ <<minute, second>> \in lost' <=> bit_lost
          /\ \A m \in Minutes, s \in Seconds :
               ~(m = minute /\ s = second) =>
                 (<<m, s>> \in lost' <=> <<m, s>> \in lost)
      BY <1>2, <1>4, <2>1, LostStep DEF ShowInv
    <2>4. ASSUME NEW s \in {1, 8}, ~(minute = 0 /\ second = s)
          PROVE  TypeBit(s)' = TypeBit(s)
      <3>1. 0 \in Minutes /\ s \in Seconds
        BY DEF Minutes, Seconds, LastSecond
      <3>2. <<0, s>> \in lost' <=> <<0, s>> \in lost
        BY <2>3, <2>4, <3>1
      <3> QED
        BY <2>2, <3>2 DEF TypeBit
    <2>5. ASSUME NEW s \in {1, 8}, minute = 0, second = s
          PROVE  TypeBit(s)' = BitVal(bit_lost)
      <3>1. <<0, s>> \in lost' <=> bit_lost
        BY <2>3, <2>5
      <3> QED
        BY <2>2, <2>5, <3>1 DEF TypeBit, BitVal
    <2>6. TypeBit(1) \in {0, 1} /\ TypeBit(8) \in {0, 1}
      BY <1>2 DEF TypeBit, TypeOK
    <2>7. CASE minute = 0 /\ second = 1
      <3>1. tpstat' = 2 * BitVal(bit_lost)
        BY <1>1, <1>2, <2>1, <2>7 DEF fill_thirdparty_buffer
      <3>2. TypeBit(1)' = BitVal(bit_lost)
        BY <2>5, <2>7
      <3>3. StatInv'
        BY <3>1, <3>2 DEF StatInv
      <3> QED
        BY <1>1, <2>7, <3>3 DEF TypeShown
    <2>8. CASE minute = 0 /\ second = 8
      <3>1. tpstat = 2 * TypeBit(1)
        BY <1>1, <2>8 DEF ShowInv, StatInv
      <3>2. tptype' = Type(IF BitVal(bit_lost) = 1 THEN tpstat + 1 ELSE tpstat)
        BY <1>1, <1>2, <2>1, <2>8 DEF fill_thirdparty_buffer
      <3>3. TypeBit(1)' = TypeBit(1)
        BY <2>4, <2>8
      <3>4. TypeBit(8)' = BitVal(bit_lost)
        BY <2>5, <2>8
      <3>5. BitVal(bit_lost) \in {0, 1}
        BY <1>2 DEF BitVal, TypeOK
      <3>6. (IF BitVal(bit_lost) = 1 THEN tpstat + 1 ELSE tpstat)
              = 2 * TypeBit(1)' + TypeBit(8)'
        BY <2>6, <3>1, <3>3, <3>4, <3>5
      <3>7. TypeRight'
        BY <3>2, <3>6 DEF TypeRight, Type
      <3> QED
        BY <1>1, <2>8, <3>7 DEF StatInv, TypeShown
    <2>9. CASE ~(minute = 0 /\ second \in {1, 8})
      <3>1. tpstat' = tpstat /\ tptype' = tptype
        BY <1>1, <1>2, <2>1, <2>9 DEF fill_thirdparty_buffer
      <3>2. TypeBit(1)' = TypeBit(1) /\ TypeBit(8)' = TypeBit(8)
        BY <2>4, <2>9
      <3>3. StatInv'
        <4> SUFFICES ASSUME minute' = 0, second' \in 2 .. 8
                     PROVE  tpstat' = 2 * TypeBit(1)'
          BY DEF StatInv
        <4>1. minute = 0 /\ second \in 2 .. 7
          BY <1>1, <2>9
        <4>2. tpstat = 2 * TypeBit(1)
          BY <1>1, <4>1 DEF ShowInv, StatInv
        <4> QED
          BY <3>1, <3>2, <4>2
      <3>4. TypeShown'
        <4> SUFFICES ASSUME minute' > 0 \/ second' > 8
                     PROVE  TypeRight'
          BY DEF TypeShown
        <4>1. minute > 0 \/ second > 8
          BY <1>1, <1>2, <2>9 DEF Minutes
        <4>2. TypeRight
          BY <1>1, <4>1 DEF ShowInv, TypeShown
        <4> QED
          BY <3>1, <3>2, <4>2 DEF TypeRight, Type
      <3> QED
        BY <3>3, <3>4
    <2> QED
      BY <1>2, <2>7, <2>8, <2>9
  <1> QED
    BY <1>3, <1>4

LEMMA SecondShowInv == IInv /\ ShowInv /\ Second => ShowInv'
  <1> SUFFICES ASSUME IInv, ShowInv, Second PROVE ShowInv'
    OBVIOUS
  <1>1. Aligned'
    <2>1. framed' = framed /\ second' = Later(second) /\ bitpos' = Later(bitpos)
      BY DEF Second
    <2> QED
      BY <2>1 DEF ShowInv, Aligned
  <1>2. CycleEnd'
    <2>1. second' = Later(second) /\ second \in Seconds
      BY DEF Second, IInv, TypeOK
    <2>2. second' # 0
      BY <2>1 DEF Later, Seconds, LastSecond
    <2> QED
      BY <2>2 DEF CycleEnd, NewCycle
  <1> QED
    BY <1>1, <1>2, SecondLost, SecondBuf, SecondType DEF ShowInv

-----------------------------------------------------------------------------
(***************************************************************************)
(* The ends of minutes.                                                    *)
(***************************************************************************)
\* What is in the buffer stays there, and goes on being right or wrong.
LEMMA BufferStays ==
  ASSUME UNCHANGED <<type_sent, tpbuf, tptype, lost>>
  PROVE  /\ TypeRight' <=> TypeRight
         /\ \A m \in Minutes, s \in Seconds : BitRight(m, s)' <=> BitRight(m, s)
  BY DEF TypeRight, Type, TypeBit, BitRight, BitOf, Zero, PlaceOf

\* The time of the sender goes on, and a cycle ends with its third minute.
LEMMA SendMinuteTime ==
  ASSUME TypeOK, SendMinute
  PROVE  /\ second = 15 /\ second' = 0
         /\ minute' \in Minutes
         /\ minute' = 0 => minute = 2 /\ NewCycle'
         /\ minute' # 0 => /\ minute' = minute + 1
                           /\ Time(minute, second)' = Time(minute, second)
  BY DEF SendMinute, TypeOK, Minutes, LastSecond, Time, NewCycle

LEMMA SendMinuteLost ==
  ASSUME TypeOK, LostInv, SendMinute, lost' = lost
  PROVE  LostInv'
  <1>1. CASE minute' = 0
    BY <1>1, SendMinuteTime DEF LostInv
  <1>2. CASE minute' # 0
    <2>1. ~NewCycle
      BY SendMinuteTime DEF NewCycle
    <2>2. \A b \in lost : Time(b[1], b[2]) < Time(minute, second)
      BY <2>1 DEF LostInv
    <2>3. Time(minute, second)' = Time(minute, second)
      BY <1>2, SendMinuteTime
    <2>4. \A b \in lost' : Time(b[1], b[2]) < Time(minute, second)'
      BY <2>2, <2>3
    <2> QED
      BY <2>4 DEF LostInv, Time
  <1> QED
    BY <1>1, <1>2

LEMMA NoticedShowInv ==
  ASSUME IInv, ShowInv, NoticeEnd, bitpos' = 0
  PROVE  ShowInv'
  <1>1. /\ SendMinute /\ framed' = TRUE
        /\ got' = IF framed /\ tm_min = minute THEN got \cup {minute} ELSE got
        /\ UNCHANGED <<type_sent, tpbuf, tpstat, tptype, lost>>
    BY DEF NoticeEnd, SendMinute, bufferVars
  <1>2. bitpos' = 0
    OBVIOUS
  <1>3. TypeOK /\ minute \in 0 .. 2
    BY DEF IInv, TypeOK, Minutes
  <1>4. /\ second = 15 /\ second' = 0
        /\ minute' \in Minutes
        /\ minute' = 0 => minute = 2 /\ NewCycle'
        /\ minute' # 0 => /\ minute' = minute + 1
                          /\ Time(minute, second)' = Time(minute, second)
    BY <1>1, <1>3, SendMinuteTime
  <1>5. minute \notin got
    BY <1>3, <1>4 DEF IInv, CycleInv
  \* This minute counts among those received only if the ones before it do.
  <1>6. ASSUME minute \in got', \A m \in Minutes : m < minute => m \in got'
        PROVE  Received
    <2>1. framed /\ tm_min = minute /\ got' = got \cup {minute}
      BY <1>1, <1>5, <1>6
    <2>2. \A m \in Minutes : m < minute => m \in got
      BY <1>3, <1>6, <2>1 DEF Minutes
    <2> QED
      BY <2>1, <2>2 DEF Received
  <1>7. ASSUME Received', minute' # 0
        PROVE  Received
    <2>1. \A m \in Minutes : m < minute' => m \in got'
      BY <1>7 DEF Received
    <2>2. minute \in got' /\ \A m \in Minutes : m < minute => m \in got'
      BY <1>3, <1>4, <1>7, <2>1 DEF Minutes
    <2> QED
      BY <1>6, <2>2
  <1>8. Aligned'
    BY <1>2, <1>4 DEF Aligned
  <1>9. LostInv'
    BY <1>1, <1>3, SendMinuteLost DEF ShowInv
  <1>10. BufInv'
    <2> SUFFICES ASSUME Received',
                        NEW m \in Minutes, NEW s \in Seconds, IsData(m, s),
                        Time(m, s) < Time(minute, second)'
                 PROVE  BitRight(m, s)'
      BY DEF BufInv, IsData, Time
    <2>a. Time(m, s) > 0
      BY DEF Time, IsData, Minutes
    <2>1. minute' # 0
      <3> SUFFICES ASSUME minute' = 0 PROVE FALSE
        OBVIOUS
      <3>1. Time(minute, second)' = 0
        BY <1>4 DEF Time
      <3>2. Time(m, s) \in Int
        BY DEF Time, Minutes, Seconds, LastSecond
      <3> QED
        BY <2>a, <3>1, <3>2
    <2>2. BitRight(m, s)
      BY <1>4, <1>7, <2>1 DEF ShowInv, BufInv
    <2> QED
      BY <1>1, <2>2, BufferStays
  <1>11. StatInv'
    BY <1>4 DEF StatInv
  <1>12. TypeShown'
    <2> SUFFICES ASSUME Received', minute' > 0 \/ second' > 8 PROVE TypeRight'
      BY DEF TypeShown
    <2>1. minute' # 0
      BY <1>4
    <2>2. TypeRight
      BY <1>4, <1>7, <2>1 DEF ShowInv, TypeShown
    <2> QED
      BY <1>1, <2>2, BufferStays
  <1>13. CycleEnd'
    <2> SUFFICES ASSUME NewCycle', got' = Minutes
                 PROVE  /\ \A m \in Minutes, s \in Seconds :
                             IsData(m, s) => BitRight(m, s)'
                        /\ TypeRight'
      BY DEF CycleEnd, IsData
    <2>1. minute = 2
      BY <1>4 DEF NewCycle
    <2>2. Received
      BY <1>3, <1>6 DEF Minutes
    <2>3. TypeRight
      BY <1>4, <2>2 DEF ShowInv, TypeShown
    <2>4. ASSUME NEW m \in Minutes, NEW s \in Seconds, IsData(m, s)
          PROVE  BitRight(m, s)
      <3>1. Time(m, s) < Time(minute, second)
        BY <1>4, <2>1, <2>4 DEF Time, IsData, Minutes
      <3> QED
        BY <2>2, <2>4, <3>1 DEF ShowInv, BufInv
    <2> QED
      BY <1>1, <2>3, <2>4, BufferStays
  <1> QED
    BY <1>8, <1>9, <1>10, <1>11, <1>12, <1>13 DEF ShowInv

LEMMA MissedEndShowInv == IInv /\ ShowInv /\ MissedEnd => ShowInv'
  <1> SUFFICES ASSUME IInv, ShowInv, MissedEnd PROVE ShowInv'
    OBVIOUS
  <1>1. SendMinute /\ framed' = FALSE /\ got' = got /\ lost' = lost
    BY DEF MissedEnd
  <1>2. LostInv'
    BY <1>1, SendMinuteLost DEF ShowInv, IInv
  <1>3. CycleEnd'
    <2> SUFFICES ASSUME NewCycle', got' = Minutes PROVE FALSE
      BY DEF CycleEnd
    <2>1. minute = 2
      BY <1>1, SendMinuteTime DEF NewCycle, IInv
    <2>2. 2 \notin got
      BY <2>1 DEF IInv, CycleInv
    <2> QED
      BY <1>1, <2>2 DEF Minutes
  <1> QED
    BY <1>1, <1>2, <1>3 DEF ShowInv, Aligned, BufInv, StatInv, TypeShown, Received

LEMMA FalseEndShowInv == IInv /\ ShowInv /\ FalseEnd => ShowInv'
  <1> SUFFICES ASSUME IInv, ShowInv, FalseEnd PROVE ShowInv'
    OBVIOUS
  <1>1. /\ framed' = FALSE
        /\ UNCHANGED <<minute, second, type_sent, tpbuf, tpstat, tptype, got, lost>>
    BY DEF FalseEnd, senderVars, bufferVars
  <1>2. LostInv'
    BY <1>1 DEF ShowInv, LostInv, NewCycle, Time
  <1>3. CycleEnd'
    <2> SUFFICES ASSUME NewCycle', got' = Minutes
                 PROVE  /\ \A m \in Minutes, s \in Seconds :
                             IsData(m, s) => BitRight(m, s)'
                        /\ TypeRight'
      BY DEF CycleEnd, IsData
    <2>1. /\ \A m \in Minutes, s \in Seconds : IsData(m, s) => BitRight(m, s)
          /\ TypeRight
      BY <1>1 DEF ShowInv, CycleEnd, NewCycle
    <2> QED
      BY <1>1, <2>1, BufferStays
  <1> QED
    BY <1>1, <1>2, <1>3 DEF ShowInv, Aligned, BufInv, StatInv, TypeShown, Received

(***************************************************************************)
(* What the buffer holds, together with the invariant above, is inductive. *)
(***************************************************************************)
THEOREM BufferFilled == Spec => []ShowInv
  <1>1. ShowInv /\ UNCHANGED vars => ShowInv'
    <2> SUFFICES ASSUME ShowInv, UNCHANGED vars PROVE ShowInv'
      OBVIOUS
    <2>1. UNCHANGED <<minute, second, bitpos, tm_min, framed, type_sent, tpbuf,
                      tpstat, tptype, got, lost>>
      BY DEF vars, senderVars, decodedVars, bufferVars
    <2>2. TypeBit(1)' = TypeBit(1)
      BY <2>1 DEF TypeBit
    <2>3. Aligned' /\ LostInv' /\ StatInv'
      BY <2>1, <2>2 DEF ShowInv, Aligned, LostInv, StatInv, Received, NewCycle, Time
    <2>4. TypeShown'
      BY <2>1, BufferStays DEF ShowInv, TypeShown, Received
    <2>5. CycleEnd'
      <3> SUFFICES ASSUME NewCycle', got' = Minutes
                   PROVE  /\ \A m \in Minutes, s \in Seconds :
                               IsData(m, s) => BitRight(m, s)'
                          /\ TypeRight'
        BY DEF CycleEnd, IsData
      <3>1. /\ \A m \in Minutes, s \in Seconds : IsData(m, s) => BitRight(m, s)
            /\ TypeRight
        BY <2>1 DEF ShowInv, CycleEnd, NewCycle
      <3> QED
        BY <2>1, <3>1, BufferStays
    <2>6. BufInv'
      <3> SUFFICES ASSUME Received',
                          NEW m \in Minutes, NEW s \in Seconds, IsData(m, s),
                          Time(m, s) < Time(minute, second)'
                   PROVE  BitRight(m, s)'
        BY DEF BufInv, IsData, Time
      <3>1. Received /\ Time(m, s) < Time(minute, second)
        BY <2>1 DEF Received, Time
      <3>2. BitRight(m, s)
        BY <3>1 DEF ShowInv, BufInv
      <3> QED
        BY <2>1, <3>2, BufferStays
    <2> QED
      BY <2>3, <2>4, <2>5, <2>6 DEF ShowInv
  <1>2. IInv /\ ShowInv /\ [Next]_vars => ShowInv'
    <2>1. EndOfMinute \/ StaleMinute => NoticeEnd /\ bitpos' = 0
      BY DEF EndOfMinute, StaleMinute, HandleMinute
    <2> QED
      BY <1>1, <2>1, SecondShowInv, NoticedShowInv, MissedEndShowInv,
         FalseEndShowInv DEF Next
  <1> QED
    BY <1>2, InitShowInv, Invariant, PTL DEF Spec

(***************************************************************************)
(* Whatever bits are lost and whatever faults came before: when the        *)
(* contents are shown after three minutes that were received with the      *)
(* right time, the n-th place of the buffer holds the n-th bit of data     *)
(* that was sent in them, 0 for one that was lost, and the type is what    *)
(* the two bits of type say.  Hence fill_thirdparty_buffer() leaves out    *)
(* just the two bits of type and uses every place of the buffer once.      *)
(***************************************************************************)
THEOREM ShowsWhatWasSent == Spec => []ShownRight
  <1>1. IInv /\ ShowInv => ShownRight
    <2> SUFFICES ASSUME IInv, ShowInv, NewCycle, got = Minutes
                 PROVE  /\ \A b \in Minutes \X Seconds : IsData(b[1], b[2]) =>
                             tpbuf[Rank(b[1], b[2])] =
                               IF b \in lost THEN Zero ELSE BitOf(b[1], b[2])
                        /\ tptype = CASE TypeBit(1) = 1 /\ TypeBit(8) = 1 -> "alarm"
                                      [] TypeBit(1) = 0 /\ TypeBit(8) = 0 -> "weather"
                                      [] OTHER -> "unknown"
      BY DEF ShownRight, NewCycle
    <2>1. /\ \A m \in Minutes, s \in Seconds : IsData(m, s) => BitRight(m, s)
          /\ TypeRight
      BY DEF ShowInv, CycleEnd
    <2>2. ASSUME NEW b \in Minutes \X Seconds, IsData(b[1], b[2])
          PROVE  tpbuf[Rank(b[1], b[2])] =
                   IF b \in lost THEN Zero ELSE BitOf(b[1], b[2])
      <3>1. b[1] \in Minutes /\ b[2] \in Seconds /\ b = <<b[1], b[2]>>
        OBVIOUS
      <3>2. Rank(b[1], b[2]) = PlaceOf(b[1], b[2])
        BY <2>2, <3>1, RankIs
      <3>3. BitRight(b[1], b[2])
        BY <2>1, <2>2, <3>1
      <3> QED
        BY <3>1, <3>2, <3>3, Zenon DEF BitRight
    <2>3. TypeBit(1) \in {0, 1} /\ TypeBit(8) \in {0, 1}
      BY DEF IInv, TypeOK, TypeBit
    <2>4. tptype = CASE TypeBit(1) = 1 /\ TypeBit(8) = 1 -> "alarm"
                     [] TypeBit(1) = 0 /\ TypeBit(8) = 0 -> "weather"
                     [] OTHER -> "unknown"
      BY <2>1, <2>3 DEF TypeRight, Type
    <2> QED
      BY <2>2, <2>4
  <1> QED
    BY <1>1, Invariant, BufferFilled, PTL
=============================================================================
