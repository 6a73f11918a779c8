------------------------ MODULE MinuteDecoderProofs ------------------------
(***************************************************************************)
(* Proofs about MinuteDecoder, for every length of the hour and the day,   *)
(* any number of minutes and any number of faults.                         *)
(*                                                                         *)
(* None of the properties is inductive: what decode_time() stamps, counts  *)
(* and announces depends on what it was given since the last full hour.    *)
(* IInv adds what a decoder still holds of it.  Each action is the         *)
(* handling of one piece of signal with some length, some state left by    *)
(* the pieces before and some bits (Arrives), and the proof that a step    *)
(* keeps a part of IInv starts from one of the summaries of such a step:   *)
(*   Steps          every action but MissMarker is an arrival              *)
(*   NextOnTime     what a minute does to a decoder that is on time        *)
(*   ResultFacts    what decode_time() returns for it                      *)
(*   FlawlessPass,  what a minute without error does to the time,          *)
(*   FlawlessFacts  and when it is stamped                                 *)
(*   OffsetFacts    the offset after it                                    *)
(*   CountFacts     the announcements counted and made                     *)
(*   SettableFacts  when setclock_ok() lets it through                     *)
(***************************************************************************)
EXTENDS MinuteDecoder, WellFoundedInduction, TLAPS

(***************************************************************************)
(* The legal time is a time, and what is announced for the end of the hour *)
(* can happen there.  No hour has both announcements.                      *)
(***************************************************************************)
Legal ==
  /\ truth.tm_hour \in 0 .. HoursPerDay - 1
  /\ dst_due  => MayChange(truth)
  /\ leap_due => MayLeap(truth)
  /\ valid <= truth.tm_min

(***************************************************************************)
(* The first call is the only one with init_min = 2; what it leaves out is *)
(* still as it was initialised.  A decoder on time has whole minutes.      *)
(***************************************************************************)
Begin ==
  /\ init_min = 2 => ~steady /\ ~fresh /\ good = 0 /\ leap_count = 0 /\ dst_count = 0
  /\ good > 0 => init_min < 2
  /\ good > 1 => init_min = 0
  /\ phase > 0 => ~steady /\ good = 0

(***************************************************************************)
(* What decode_time() will make of the minutes of an outage up to now: the *)
(* time that an ideal receiver had at the last marker, found or missed.    *)
(***************************************************************************)
Now == AddMinutes(time, missed, dt_res.dst_announce)

Ahead ==
  steady => /\ SameMinute(Now, truth)
            /\ sure => SameHour(Now, truth)

\* An offset that is not right will be replaced by the next good minute.
OffsetSoonRight ==
  time.tm_isdst = truth.tm_isdst \/ olderr \/ time.tm_isdst = -1

(***************************************************************************)
(* A minute without errors is stamped, unless the decoder takes it for the *)
(* one with a leap second or does not expect that one.  Both need a minute *)
(* 0, in the decoder or in the signal, so three in a row cannot fail.      *)
(***************************************************************************)
Refused ==
  good > 0 /\ ~fresh =>
    /\ olderr
    /\ CASE good = 1 -> time.tm_min = 0 \/ truth.tm_min = 0
         [] good = 2 -> <<time.tm_min, truth.tm_min>> \in {<<0, 0>>, <<1, 0>>, <<0, 1>>}
         [] OTHER    -> time.tm_min = 0 /\ truth.tm_min = 0

Accepted ==
  good > 0 /\ fresh =>
    /\ SameTime(time, truth)
    /\ OffsetSoonRight
    /\ good > 1 /\ truth.tm_min > 0 => time = truth

(***************************************************************************)
(* The announcements of this hour are counted from its first minute on; a  *)
(* decoder that was not on time there may have one too many, of one kind.  *)
(***************************************************************************)
Expected(due) == IF due THEN truth.tm_min ELSE 0

CountsFrom0 ==
  ~fresh /\ time.tm_min = 0 => leap_count = 0 /\ dst_count = 0

Counts ==
  good >= 2 + truth.tm_min =>
    LET extra_dst  == dst_count - Expected(dst_due)
        extra_leap == leap_count - Expected(leap_due)
    IN  /\ extra_dst \in {0, 1} /\ extra_leap \in {0, 1}
        /\ extra_dst + extra_leap < 2
        /\ good >= 3 + truth.tm_min => extra_dst + extra_leap = 0
        /\ truth.tm_min > 0 =>
             /\ dt_res.dst_announce <=> 2 * dst_count > minute_count
             /\ dt_res.leap_announce <=> 2 * leap_count > minute_count

(***************************************************************************)
(* After a good hour the full hour is right as well: at once, or, with one *)
(* announcement too many, in the minute that follows.                      *)
(***************************************************************************)
FullHour ==
  good >= MinutesPerHour + 2 =>
    /\ SameTime(time, truth)
    /\ OffsetSoonRight
    /\ (fresh /\ time.tm_isdst = truth.tm_isdst) \/ olderr
    /\ good = MinutesPerHour + 3 => time = truth /\ settable

IInv == /\ TypeOK /\ Legal /\ Begin /\ Ahead /\ SettableRight
        /\ Refused /\ Accepted /\ CountsFrom0 /\ Counts /\ FullHour

-----------------------------------------------------------------------------
(***************************************************************************)
(* A set of natural numbers has a least one, which is how the facts about  *)
(* all numbers of minutes are proved: there is no least counterexample.    *)
(***************************************************************************)
LEMMA Least ==
  ASSUME NEW S, S \subseteq Nat, S # {}
  PROVE  \E x \in S : \A y \in S : x <= y
  <1> DEFINE Before == {pair \in Nat \X Nat : pair[1] < pair[2]}
  <1>1. IsWellFoundedOn(Before, Nat)
    BY NatLessThanWellFounded DEF OpToRel
  <1>2. \E x \in S : \A y \in S : ~(<<y, x>> \in Before)
    <2> HIDE DEF Before
    <2> QED
      BY <1>1, WFMin
  <1>3. \A x, y \in S : ~(<<y, x>> \in Before) => x <= y
    OBVIOUS
  <1> QED
    BY <1>2, <1>3

(***************************************************************************)
(* The recursion of AddMinutes(), for any number of minutes.               *)
(***************************************************************************)
Recursion(f, n, t, c) ==
  f = [i \in 0 .. n |-> IF i = 0 THEN t ELSE add_minute(f[i - 1], c)]

LEMMA RecursionExists ==
  ASSUME NEW t, NEW c, NEW n \in Nat
  PROVE  \E f : Recursion(f, n, t, c)
  <1> DEFINE Open == {i \in Nat : ~\E f : Recursion(f, i, t, c)}
  <1>1. ASSUME Open # {}
        PROVE  FALSE
    <2>1. PICK m \in Open : \A i \in Open : m <= i
      <3> HIDE DEF Open
      <3>1. Open \subseteq Nat
        BY DEF Open
      <3> QED
        BY <1>1, <3>1, Least
    <2>2. m # 0
      <3> DEFINE f == [i \in 0 .. 0 |-> t]
      <3>1. Recursion(f, 0, t, c)
        BY DEF Recursion
      <3> QED
        BY <2>1, <3>1, Zenon
    <2>3. m - 1 \in Nat /\ m - 1 \notin Open
      BY <2>1, <2>2
    <2>4. PICK f : Recursion(f, m - 1, t, c)
      BY <2>3
    <2> DEFINE g == [i \in 0 .. m |-> IF i < m THEN f[i]
                                      ELSE add_minute(f[m - 1], c)]
    <2>5. ASSUME NEW i \in 0 .. m
          PROVE  g[i] = IF i = 0 THEN t ELSE add_minute(g[i - 1], c)
      <3>1. CASE i = 0
        BY <2>2, <2>3, <2>4, <3>1 DEF Recursion
      <3>2. CASE i # 0
        <4>1. i - 1 \in 0 .. m - 1
          BY <3>2
        <4>2. g[i - 1] = f[i - 1]
          BY <4>1, <2>3
        <4>3. CASE i = m
          BY <3>2, <4>2, <4>3
        <4>4. CASE i # m
          <5>1. i \in 0 .. m - 1 /\ i < m
            BY <4>4
          <5>2. f[i] = add_minute(f[i - 1], c)
            BY <2>4, <3>2, <5>1 DEF Recursion
          <5>3. g[i] = f[i]
            BY <5>1
          <5> HIDE DEF g
          <5> QED
            BY <3>2, <4>2, <5>2, <5>3
        <4> QED
          BY <4>3, <4>4
      <3> QED
        BY <3>1, <3>2
    <2>6. Recursion(g, m, t, c)
      <3>1. g = [i \in 0 .. m |-> g[i]]
        OBVIOUS
      <3> HIDE DEF g
      <3> QED
        BY <2>5, <3>1 DEF Recursion
    <2> QED
      BY <2>1, <2>6, Zenon
  <1> QED
    BY <1>1, Zenon

\* A longer recursion starts as a shorter one.
LEMMA RecursionUnique ==
  ASSUME NEW t, NEW c, NEW m \in Nat, NEW n \in Nat, m <= n, NEW f, NEW g,
         Recursion(f, m, t, c), Recursion(g, n, t, c)
  PROVE  \A i \in 0 .. m : f[i] = g[i]
  <1> DEFINE Differ == {i \in 0 .. m : f[i] # g[i]}
  <1>1. ASSUME Differ # {}
        PROVE  FALSE
    <2>1. PICK i \in Differ : \A j \in Differ : i <= j
      <3>1. Differ \subseteq Nat
        OBVIOUS
      <3> HIDE DEF Differ
      <3> QED
        BY <1>1, <3>1, Least
    <2>2. i # 0
      BY <2>1 DEF Recursion
    <2>3. i - 1 \in 0 .. m /\ i - 1 \notin Differ
      BY <2>1, <2>2
    <2>4. f[i - 1] = g[i - 1]
      BY <2>3
    <2>5. f[i] = add_minute(f[i - 1], c) /\ g[i] = add_minute(g[i - 1], c)
      BY <2>1, <2>2 DEF Recursion
    <2> QED
      BY <2>1, <2>4, <2>5
  <1> QED
    BY <1>1

LEMMA AddMinutesRecursion ==
  ASSUME NEW t, NEW c, NEW n \in Nat
  PROVE  /\ n = 0 => AddMinutes(t, n, c) = t
         /\ AddMinutes(t, n + 1, c) = add_minute(AddMinutes(t, n, c), c)
  <1> DEFINE After(m) == CHOOSE f : Recursion(f, m, t, c)
  <1>1. ASSUME NEW m \in Nat
        PROVE  Recursion(After(m), m, t, c) /\ AddMinutes(t, m, c) = After(m)[m]
    <2>1. Recursion(After(m), m, t, c)
      BY RecursionExists, Zenon
    <2>2. AddMinutes(t, m, c) = After(m)[m]
      BY DEF AddMinutes, Recursion
    <2> QED
      BY <2>1, <2>2
  <1> HIDE DEF After
  <1>2. n + 1 \in Nat /\ n <= n + 1 /\ n + 1 # 0 /\ (n + 1) - 1 = n
    OBVIOUS
  <1>3. n = 0 => After(n)[n] = t
    BY <1>1 DEF Recursion
  <1>4. After(n + 1)[n + 1] = add_minute(After(n + 1)[n], c)
    <2>1. Recursion(After(n + 1), n + 1, t, c) /\ n + 1 \in 0 .. n + 1
      BY <1>1, <1>2
    <2> QED
      BY <1>2, <2>1 DEF Recursion
  <1>5. After(n)[n] = After(n + 1)[n]
    <2>1. n \in 0 .. n
      OBVIOUS
    <2>2. Recursion(After(n), n, t, c) /\ Recursion(After(n + 1), n + 1, t, c)
      BY <1>1, <1>2
    <2> QED
      BY <1>2, <2>1, <2>2, RecursionUnique
  <1> QED
    BY <1>1, <1>2, <1>3, <1>4, <1>5

(***************************************************************************)
(* Division by a length that is a parameter, for less than two lengths.    *)
(***************************************************************************)
LEMMA Wrap ==
  ASSUME NEW n \in Nat \ {0}, NEW x \in 0 .. 2 * n - 1
  PROVE  /\ x % n = IF x < n THEN x ELSE x - n
         /\ x \div n = IF x < n THEN 0 ELSE 1
  <1>1. CASE x < n
    BY <1>1
  <1>2. CASE x >= n
    BY <1>2
  <1> QED
    BY <1>1, <1>2

(***************************************************************************)
(* increase_old_time() counts the minutes of a signal from marker to       *)
(* marker, in spite of jitter and a leap second.                           *)
(***************************************************************************)
LEMMA IncreaseWhole ==
  ASSUME NEW n \in Nat, n > 0, NEW acc \in 60000 * n - 499 .. 60000 * n + 1000
  PROVE  increase(acc) = n
  <1>1. acc \in Int /\ acc > 59000
    OBVIOUS
  <1>2. Combined(acc) = acc
    BY <1>1 DEF Combined
  <1>3. acc \div 60000 + (IF acc % 60000 > 59000 THEN 1 ELSE 0) = n
    <2>1. CASE acc < 60000 * n
      <3>1. acc \div 60000 = n - 1 /\ acc % 60000 > 59000
        BY <2>1, SMTT(40)
      <3> QED
        BY <3>1
    <2>2. CASE acc >= 60000 * n
      <3>1. acc \div 60000 = n /\ acc % 60000 <= 1000
        BY <2>2, SMTT(40)
      <3> QED
        BY <3>1
    <2> QED
      BY <1>1, <2>1, <2>2
  <1> QED
    BY <1>2, <1>3, SMT DEF increase

\* A piece of the signal that decode_time() is called with.
Piece(acc) == acc \in Int /\ 0 < acc

LEMMA IncreaseRange ==
  ASSUME acc_minlen_partial \in Nat, acc_minlen_partial < 60000,
         NEW acc, Piece(acc)
  PROVE  /\ increase(acc) \in Nat
         /\ PartialSum(acc) % 60000 \in Nat /\ PartialSum(acc) % 60000 < 60000
  <1>1. PartialSum(acc) \in Nat
    BY SMT DEF PartialSum, Piece
  <1>2. Combined(acc) \in Nat
    BY SMT DEF Combined, PartialSum, Piece
  <1>3. ASSUME NEW d \in Nat
        PROVE  d \div 60000 + (IF d % 60000 > 59000 THEN 1 ELSE 0) \in Nat
    BY <1>3, SMT
  <1> QED
    BY <1>1, <1>2, <1>3, SMT DEF increase

(***************************************************************************)
(* add_minute() keeps a time a time, and turns over its minutes.           *)
(***************************************************************************)
NextMinute(m) == IF m + 1 < MinutesPerHour THEN m + 1 ELSE 0

ShiftedHour(t, c) ==
  t.tm_hour + 1 + (IF c /\ t.tm_isdst = 1 THEN -1
                   ELSE IF c /\ t.tm_isdst = 0 THEN 1 ELSE 0)

\* One minute after t, with the offset dst, if c says that the offset changes.
Later(t, c, dst) ==
  LET wraps == t.tm_min + 1 >= MinutesPerHour
      hour  == ShiftedHour(t, c)
  IN  [tm_min |-> NextMinute(t.tm_min),
       tm_hour |-> IF ~wraps THEN t.tm_hour
                   ELSE IF hour = HoursPerDay THEN 0 ELSE hour,
       day |-> IF wraps /\ hour = HoursPerDay THEN t.day + 1 ELSE t.day,
       tm_isdst |-> dst]

LEMMA AddMinuteParts ==
  ASSUME NEW t \in Time, NEW c \in BOOLEAN
  PROVE  add_minute(t, c) = Later(t, c, t.tm_isdst)
  <1> DEFINE shift == CASE c /\ t.tm_isdst = 1 -> -1
                        [] c /\ t.tm_isdst = 0 -> 1
                        [] OTHER                -> 0
             hour == t.tm_hour + shift + 1
  <1>1. t = [tm_min |-> t.tm_min, tm_hour |-> t.tm_hour, day |-> t.day,
             tm_isdst |-> t.tm_isdst]
    BY DEF Time
  <1>2. t.tm_min \in Nat /\ t.tm_hour \in Int /\ t.day \in Nat
    BY ClockAssumption DEF Time
  <1>3. shift = IF c /\ t.tm_isdst = 1 THEN -1
                ELSE IF c /\ t.tm_isdst = 0 THEN 1 ELSE 0
    <2>1. CASE c /\ t.tm_isdst = 1
      <3>1. t.tm_isdst # 0
        BY <2>1
      <3>2. shift = -1
        BY <2>1, <3>1, Zenon
      <3> QED
        BY <2>1, <3>2, Zenon
    <2>2. CASE c /\ t.tm_isdst = 0
      <3>1. t.tm_isdst # 1
        BY <2>2
      <3>2. shift = 1
        BY <2>2, <3>1, Zenon
      <3> QED
        BY <2>2, <3>1, <3>2, Zenon
    <2>3. CASE ~(c /\ t.tm_isdst = 1) /\ ~(c /\ t.tm_isdst = 0)
      BY <2>3, Zenon
    <2> QED
      BY <2>1, <2>2, <2>3
  <1>4. hour = ShiftedHour(t, c)
    BY <1>2, <1>3 DEF ShiftedHour
  <1>5. add_minute(t, c) =
          IF t.tm_min + 1 < MinutesPerHour
            THEN [t EXCEPT !.tm_min = @ + 1]
            ELSE [t EXCEPT !.tm_min = 0,
                           !.tm_hour = IF hour = HoursPerDay THEN 0 ELSE hour,
                           !.day = IF hour = HoursPerDay THEN @ + 1 ELSE @]
    BY Zenon DEF add_minute
  <1> HIDE DEF hour, shift
  <1>6. CASE t.tm_min + 1 < MinutesPerHour
    <2>1. add_minute(t, c) = [t EXCEPT !.tm_min = t.tm_min + 1]
      BY <1>5, <1>6
    <2>2. ~(t.tm_min + 1 >= MinutesPerHour)
      BY <1>2, <1>6, ClockAssumption
    <2> QED
      BY <1>1, <1>6, <2>1, <2>2, Zenon DEF Later, NextMinute
  <1>7. CASE ~(t.tm_min + 1 < MinutesPerHour)
    <2>1. add_minute(t, c) =
            [t EXCEPT !.tm_min = 0,
                      !.tm_hour = IF hour = HoursPerDay THEN 0 ELSE hour,
                      !.day = IF hour = HoursPerDay THEN t.day + 1 ELSE t.day]
      BY <1>5, <1>7
    <2>2. t.tm_min + 1 >= MinutesPerHour
      BY <1>2, <1>7, ClockAssumption
    <2> QED
      BY <1>1, <1>4, <1>7, <2>1, <2>2 DEF Later, NextMinute
  <1> QED
    BY <1>6, <1>7

-----------------------------------------------------------------------------
(***************************************************************************)
(* The intermediate results of decode_time() in this minute.               *)
(***************************************************************************)
Old(acc) == IF init_min = 2 THEN [time EXCEPT !.tm_isdst = -1]
            ELSE OldTime(init_min, acc)

Valid(sane) == IF sane THEN (minute_count + 1) % MinutesPerHour
               ELSE minute_count

Taken(minlen, acc, b) == Takes(init_min, acc, Sane(minlen, b))

Calc(minlen, acc, b) ==
  CalculateFlags(Sane(minlen, b), Taken(minlen, acc, b), b)

Leap(minlen, acc, b) ==
  IF init_min = 2 THEN NoLeap(Calc(minlen, acc, b), minlen)
  ELSE handle_leap_second(Calc(minlen, acc, b), minlen, b, Old(acc),
                          Valid(Sane(minlen, b)))

Dst(minlen, acc, b) ==
  IF init_min = 2 THEN NoDST(Leap(minlen, acc, b).flags, b)
  ELSE handle_dst(Leap(minlen, acc, b).flags, b, Old(acc),
                  Valid(Sane(minlen, b)))

GroupResult(minlen, acc, b, ok, jumped) ==
  GroupStatus(ok, Taken(minlen, acc, b), init_min = 0 /\ jumped)

PartialRest(acc) == PartialSum(acc) % 60000

Decoded(minlen, acc, b) ==
  /\ minute_count' = Valid(Sane(minlen, b))
  /\ leap_count' = Leap(minlen, acc, b).count
  /\ dst_count' = Dst(minlen, acc, b).count
  /\ acc_minlen_partial' = PartialRest(acc)
  /\ dt_res' =
       [minute_length |-> Leap(minlen, acc, b).length,
        bit0_ok |-> b.bit0 = 0, bit20_ok |-> b.bit20 = 1,
        minute_status |-> GroupResult(minlen, acc, b, b.minute_ok,
                                      Old(acc).tm_min # b.minute),
        hour_status |-> GroupResult(minlen, acc, b, b.hour_ok,
                                    Old(acc).tm_hour # b.hour),
        date_status |-> GroupResult(minlen, acc, b, b.date_ok,
                                    Old(acc).day # b.day),
        dst_status |-> Dst(minlen, acc, b).status,
        leapsecond_status |-> Leap(minlen, acc, b).status,
        dst_announce |-> Dst(minlen, acc, b).announce,
        leap_announce |-> Leap(minlen, acc, b).announce]
  /\ fresh' = Stamps(Leap(minlen, acc, b).length,
                     Dst(minlen, acc, b).flags)
  /\ time' = IF fresh'
               THEN Stamped(NewTime(Taken(minlen, acc, b), b,
                                    Dst(minlen, acc, b).isdst),
                            Old(acc), Dst(minlen, acc, b).status)
               ELSE Old(acc)
  /\ olderr' = (Dst(minlen, acc, b).flags # {})

LEMMA DecodedParts ==
  ASSUME NEW minlen, NEW acc, NEW b, decode_time(init_min, minlen, acc, b)
  PROVE  Decoded(minlen, acc, b)
  BY SMTT(40) DEF Decoded, decode_time, PartialRest, Old, Valid, Taken, Calc, Leap, Dst, GroupResult

(***************************************************************************)
(* handle_leap_second(): a leap second is due or not, and the length of    *)
(* the minute agrees with that or not.                                     *)
(***************************************************************************)
LeapCount(minlen, acc, b) ==
  Counted(leap_count, b.bit19, Calc(minlen, acc, b))

LeapAnnounced(minlen, acc, b) ==
  Announced(dt_res.leap_announce, LeapCount(minlen, acc, b), Old(acc),
            Valid(Sane(minlen, b)))

LeapDue(minlen, acc, b) == LeapAnnounced(minlen, acc, b) /\ Old(acc).tm_min = 0

LeapFails(minlen, acc, b) ==
  \/ LeapDue(minlen, acc, b) /\ minlen = 59
  \/ ~LeapDue(minlen, acc, b) /\ minlen = 60

HandledLeap(minlen, acc, b) ==
  LET h     == Leap(minlen, acc, b)
      fails == LeapFails(minlen, acc, b)
      calc  == Calc(minlen, acc, b)
  IN  /\ h.count = Restart(LeapCount(minlen, acc, b), Old(acc))
      /\ h.announce = (LeapAnnounced(minlen, acc, b) /\ Old(acc).tm_min # 0)
      /\ h.status \in {"els_none", "els_done"}
      /\ fails => h.length \in {"emin_short", "emin_long"}
      /\ ~fails => h.length = LengthStatus(minlen)
      /\ h.flags = IF fails THEN calc \cup {"leap"} ELSE calc

LEMMA LeapFacts ==
  ASSUME NEW minlen, NEW acc, NEW b, init_min # 2, b.bit59 = 0
  PROVE  HandledLeap(minlen, acc, b)
  <1> DEFINE announce == LeapAnnounced(minlen, acc, b)
             due      == LeapDue(minlen, acc, b)
             missing  == due /\ minlen = 59
             spurious == ~due /\ minlen = 60
             calc     == Calc(minlen, acc, b)
             h        == Leap(minlen, acc, b)
  <1>1. h =
          [length |-> IF missing THEN "emin_short"
                      ELSE IF spurious THEN "emin_long" ELSE LengthStatus(minlen),
           flags |-> IF missing \/ spurious THEN calc \cup {"leap"} ELSE calc,
           status |-> IF ~due THEN "els_none"
                      ELSE IF minlen = 60 /\ b.bit59 = 1 THEN "els_one"
                      ELSE "els_done",
           announce |-> announce /\ Old(acc).tm_min # 0,
           count |-> Restart(LeapCount(minlen, acc, b), Old(acc))]
    BY Zenon DEF Leap, handle_leap_second, LeapAnnounced, LeapDue, LeapCount
  <1>2. LeapFails(minlen, acc, b) = (missing \/ spurious)
    BY DEF LeapFails
  <1>3. b.bit59 # 1
    OBVIOUS
  <1> HIDE DEF announce, due, calc, h
  <1>4. h.count = Restart(LeapCount(minlen, acc, b), Old(acc))
    BY <1>1, SMT
  <1>5. h.announce = (announce /\ Old(acc).tm_min # 0)
    BY <1>1, SMT
  <1>6. h.status \in {"els_none", "els_done"}
    BY <1>1, <1>3, SMT
  <1>7. missing \/ spurious => h.length \in {"emin_short", "emin_long"}
    BY <1>1, SMT
  <1>8. ~(missing \/ spurious) => h.length = LengthStatus(minlen)
    BY <1>1, SMT
  <1>9. h.flags = IF missing \/ spurious THEN calc \cup {"leap"} ELSE calc
    BY <1>1, SMT
  <1> QED
    BY <1>2, <1>4, <1>5, <1>6, <1>7, <1>8, <1>9, Zenon
       DEF HandledLeap, announce, calc, h

(***************************************************************************)
(* handle_dst(): the offset is accepted, or the old one is kept.           *)
(***************************************************************************)
DstCount(minlen, acc, b) ==
  Counted(dst_count, b.bit16, Leap(minlen, acc, b).flags)

DstAnnounced(minlen, acc, b) ==
  Announced(dt_res.dst_announce, DstCount(minlen, acc, b), Old(acc),
            Valid(Sane(minlen, b)))

DstDue(minlen, acc, b) == DstAnnounced(minlen, acc, b) /\ Old(acc).tm_min = 0

DstDiffers(acc, b) ==
  b.bit17 # Old(acc).tm_isdst \/ b.bit18 = Old(acc).tm_isdst

DstJumps(minlen, acc, b) ==
  /\ DstDiffers(acc, b)
  /\ ~OffsetExpected(DstDue(minlen, acc, b), Leap(minlen, acc, b).flags,
                     b.bit17 # b.bit18, Old(acc))

HandledDst(minlen, acc, b) ==
  LET h     == Dst(minlen, acc, b)
      jumps == DstJumps(minlen, acc, b)
      flags == Leap(minlen, acc, b).flags
  IN  /\ h.count = Restart(DstCount(minlen, acc, b), Old(acc))
      /\ h.announce = (DstAnnounced(minlen, acc, b) /\ Old(acc).tm_min # 0)
      /\ h.isdst = IF DstDiffers(acc, b) /\ ~jumps THEN b.bit17
                   ELSE Old(acc).tm_isdst
      /\ h.flags = IF jumps THEN flags \cup {"dst"} ELSE flags
      /\ h.status = IF DstDue(minlen, acc, b) THEN "eDST_done"
                    ELSE IF b.bit17 = b.bit18 THEN "eDST_error"
                    ELSE IF jumps THEN "eDST_jump" ELSE "eDST_ok"

LEMMA DstFacts ==
  ASSUME NEW minlen, NEW acc, NEW b, init_min # 2
  PROVE  HandledDst(minlen, acc, b)
  <1> DEFINE announce == DstAnnounced(minlen, acc, b)
             due      == DstDue(minlen, acc, b)
             differs  == DstDiffers(acc, b)
             flags    == Leap(minlen, acc, b).flags
             expected == OffsetExpected(due, flags, b.bit17 # b.bit18, Old(acc))
             jumps    == differs /\ ~expected
             h        == Dst(minlen, acc, b)
  <1>1. h =
          [isdst |-> IF differs /\ expected THEN b.bit17 ELSE Old(acc).tm_isdst,
           flags |-> IF differs /\ ~expected THEN flags \cup {"dst"} ELSE flags,
           status |-> IF due THEN "eDST_done"
                      ELSE IF ~(b.bit17 # b.bit18) THEN "eDST_error"
                      ELSE IF differs /\ ~expected THEN "eDST_jump" ELSE "eDST_ok",
           announce |-> announce /\ Old(acc).tm_min # 0,
           count |-> Restart(DstCount(minlen, acc, b), Old(acc))]
    BY Zenon DEF Dst, handle_dst, DstAnnounced, DstDue, DstCount, DstDiffers
  <1>2. DstJumps(minlen, acc, b) = jumps
    BY DEF DstJumps
  <1> HIDE DEF announce, due, differs, flags, expected, h
  <1>3. h.count = Restart(DstCount(minlen, acc, b), Old(acc))
    BY <1>1, SMT
  <1>4. h.announce = (announce /\ Old(acc).tm_min # 0)
    BY <1>1, SMT
  <1>5. h.isdst = IF differs /\ ~jumps THEN b.bit17 ELSE Old(acc).tm_isdst
    BY <1>1, SMT
  <1>6. h.flags = IF jumps THEN flags \cup {"dst"} ELSE flags
    BY <1>1, SMT
  <1>7. h.status = IF due THEN "eDST_done"
                   ELSE IF b.bit17 = b.bit18 THEN "eDST_error"
                   ELSE IF jumps THEN "eDST_jump" ELSE "eDST_ok"
    BY <1>1, SMT
  <1> QED
    BY <1>2, <1>3, <1>4, <1>5, <1>6, <1>7, Zenon
       DEF HandledDst, announce, due, differs, flags, h

-----------------------------------------------------------------------------
(***************************************************************************)
(* Types.                                                                  *)
(***************************************************************************)
LEMMA LaterType ==
  ASSUME NEW t \in Time, NEW c \in BOOLEAN, NEW dst \in {-1, 0, 1}
  PROVE  Later(t, c, dst) \in Time /\ Later(t, c, dst).tm_isdst = dst
  <1>1. /\ MinutesPerHour \in Nat \ {0} /\ HoursPerDay \in Nat \ {0}
        /\ t.tm_min \in 0 .. MinutesPerHour - 1 /\ t.tm_hour \in Int
        /\ t.day \in Nat
    BY ClockAssumption DEF Time
  <1>2. NextMinute(t.tm_min) \in 0 .. MinutesPerHour - 1
    BY <1>1 DEF NextMinute
  <1>3. ShiftedHour(t, c) \in Int
    BY <1>1 DEF ShiftedHour
  <1> QED
    BY <1>1, <1>2, <1>3 DEF Later, Time

LEMMA AddMinuteType ==
  ASSUME NEW t \in Time, NEW c \in BOOLEAN
  PROVE  add_minute(t, c) \in Time /\ add_minute(t, c).tm_isdst = t.tm_isdst
  <1>1. t.tm_isdst \in {-1, 0, 1}
    BY DEF Time
  <1> QED
    BY <1>1, AddMinuteParts, LaterType, SMTT(40)

LEMMA AddMinutesType ==
  ASSUME NEW t \in Time, NEW c \in BOOLEAN, NEW n \in Nat
  PROVE  AddMinutes(t, n, c) \in Time /\ AddMinutes(t, n, c).tm_isdst = t.tm_isdst
  <1> DEFINE Good(m) == /\ AddMinutes(t, m, c) \in Time
                        /\ AddMinutes(t, m, c).tm_isdst = t.tm_isdst
             Wrong == {m \in Nat : ~Good(m)}
  <1>1. ASSUME Wrong # {}
        PROVE  FALSE
    <2>1. PICK m \in Wrong : \A i \in Wrong : m <= i
      <3>1. Wrong \subseteq Nat
        OBVIOUS
      <3> HIDE DEF Wrong
      <3> QED
        BY <1>1, <3>1, Least
    <2>2. m # 0
      <3>1. Good(0)
        BY AddMinutesRecursion
      <3> QED
        BY <2>1, <3>1
    <2>3. m - 1 \in Nat /\ (m - 1) + 1 = m /\ Good(m - 1)
      <3>1. m - 1 \in Nat /\ (m - 1) + 1 = m /\ ~(m <= m - 1)
        BY <2>1, <2>2
      <3> HIDE DEF Good
      <3> QED
        BY <2>1, <3>1
    <2> DEFINE s == AddMinutes(t, m - 1, c)
    <2>4. AddMinutes(t, m, c) = add_minute(s, c)
      <3>1. AddMinutes(t, (m - 1) + 1, c) = add_minute(s, c)
        BY <2>3, AddMinutesRecursion
      <3> QED
        BY <2>3, <3>1
    <2>5. s \in Time /\ s.tm_isdst = t.tm_isdst
      BY <2>3
    <2> HIDE DEF s
    <2>6. Good(m)
      BY <2>4, <2>5, AddMinuteType
    <2> QED
      BY <2>1, <2>6
  <1> QED
    BY <1>1

LEMMA OldFacts ==
  ASSUME DecodeTimeTypeOK, init_min \in 0 .. 2,
         NEW acc, Piece(acc)
  PROVE  /\ Old(acc) \in Time
         /\ Old(acc).tm_isdst = IF init_min = 2 THEN -1 ELSE time.tm_isdst
         /\ init_min < 2 =>
              Old(acc) = AddMinutes(time, increase(acc), dt_res.dst_announce)
  <1>1. time \in Time /\ dt_res.dst_announce \in BOOLEAN
    BY DEF DecodeTimeTypeOK, DT_result
  <1>2. increase(acc) \in Nat
    BY IncreaseRange DEF DecodeTimeTypeOK
  <1>3. CASE init_min = 2
    <2>1. Old(acc) = [time EXCEPT !.tm_isdst = -1]
      BY <1>3 DEF Old
    <2> QED
      BY <1>1, <1>3, <2>1 DEF Time
  <1>4. CASE init_min < 2
    <2>1. Old(acc) = AddMinutes(time, increase(acc), dt_res.dst_announce)
      BY <1>4 DEF Old, OldTime
    <2> QED
      BY <1>1, <1>2, <1>4, <2>1, AddMinutesType
  <1> QED
    BY <1>3, <1>4

BitsType ==
  [bit0 : {0, 1}, bit20 : {1}, bit59 : {0}, bit16 : {0, 1}, bit19 : {0, 1},
   bit17 : {0, 1}, bit18 : {0, 1},
   minute : 0 .. MinutesPerHour - 1, hour : 0 .. HoursPerDay - 1, day : Nat,
   minute_ok : Verdicts, hour_ok : Verdicts,
   date_ok : Verdicts \cup {"impossible"}]

CalcFlags == {"sanity", "minute", "hour", "date"}

LEMMA LeapType ==
  ASSUME DecodeTimeTypeOK, NEW minlen, NEW acc, NEW b, b.bit59 = 0
  PROVE  LET h == Leap(minlen, acc, b)
         IN  /\ h.count \in Nat
             /\ h.announce \in BOOLEAN
             /\ h.status \in {"els_none", "els_one", "els_done"}
             /\ h.length \in {"emin_ok", "emin_short", "emin_long"}
  <1> DEFINE h == Leap(minlen, acc, b)
             count == LeapCount(minlen, acc, b)
  <1>1. LengthStatus(minlen) \in {"emin_ok", "emin_short", "emin_long"}
    BY DEF LengthStatus
  <1>2. /\ leap_count \in Nat /\ dt_res.leap_announce \in BOOLEAN
        /\ dt_res.leapsecond_status \in {"els_none", "els_one", "els_done"}
    BY DEF DecodeTimeTypeOK, DT_result
  <1>3. CASE init_min = 2
    BY <1>1, <1>2, <1>3 DEF Leap, NoLeap
  <1>4. CASE init_min # 2
    <2>1. Restart(count, Old(acc)) \in Nat
      BY <1>2 DEF Restart, LeapCount, Counted
    <2>0. HandledLeap(minlen, acc, b)
      BY <1>4, LeapFacts, Zenon
    <2> HIDE DEF h, count
    <2>2. h.count \in Nat
      BY <2>0, <2>1, Zenon DEF HandledLeap, h, count
    <2>3. h.announce \in BOOLEAN
      BY <2>0, Zenon DEF HandledLeap, h
    <2>4. h.status \in {"els_none", "els_one", "els_done"}
      BY <2>0, Zenon DEF HandledLeap, h
    <2>5. h.length \in {"emin_ok", "emin_short", "emin_long"}
      BY <1>1, <2>0, Zenon DEF HandledLeap, h
    <2> QED
      BY <2>2, <2>3, <2>4, <2>5, Zenon DEF h
  <1> QED
    BY <1>3, <1>4

LEMMA DstType ==
  ASSUME DecodeTimeTypeOK, NEW minlen, NEW acc, NEW b,
         Old(acc) \in Time, b.bit17 \in {0, 1}
  PROVE  LET h == Dst(minlen, acc, b)
         IN  /\ h.count \in Nat
             /\ h.announce \in BOOLEAN
             /\ h.status \in {"eDST_ok", "eDST_error", "eDST_jump", "eDST_done"}
             /\ h.isdst \in {-1, 0, 1}
  <1> DEFINE h == Dst(minlen, acc, b)
             count == DstCount(minlen, acc, b)
             flags == Leap(minlen, acc, b).flags
  <1>1. dst_count \in Nat /\ dt_res.dst_announce \in BOOLEAN
    BY DEF DecodeTimeTypeOK, DT_result
  <1>2. Old(acc).tm_isdst \in {-1, 0, 1} /\ b.bit17 \in {-1, 0, 1}
    BY DEF Time
  <1>3. CASE init_min = 2
    <2> HIDE DEF flags
    <2>1. h = NoDST(flags, b)
      BY <1>3 DEF Dst, flags
    <2> HIDE DEF h
    <2> QED
      BY <1>1, <2>1 DEF h, NoDST
  <1>4. CASE init_min # 2
    <2>1. Restart(count, Old(acc)) \in Nat
      <3> HIDE DEF flags
      <3>1. count = Counted(dst_count, b.bit16, flags)
        BY Zenon DEF DstCount, flags
      <3> HIDE DEF count
      <3> QED
        BY <1>1, <3>1 DEF Restart, Counted
    <2>0. HandledDst(minlen, acc, b)
      BY <1>4, DstFacts, Zenon
    <2> HIDE DEF h, count, flags
    <2>2. h.count \in Nat
      BY <2>0, <2>1, Zenon DEF HandledDst, h, count
    <2>3. h.announce \in BOOLEAN
      BY <2>0, Zenon DEF HandledDst, h
    <2>4. h.status \in {"eDST_ok", "eDST_error", "eDST_jump", "eDST_done"}
      BY <2>0, Zenon DEF HandledDst, h
    <2>5. h.isdst \in {-1, 0, 1}
      BY <1>2, <2>0, Zenon DEF HandledDst, h
    <2> QED
      BY <2>2, <2>3, <2>4, <2>5, Zenon DEF h
  <1> QED
    BY <1>3, <1>4

LEMMA DecodedType ==
  ASSUME DecodeTimeTypeOK, init_min \in 0 .. 2,
         NEW minlen \in {-1, 58, 59, 60}, NEW b \in BitsType,
         NEW acc, Piece(acc), decode_time(init_min, minlen, acc, b)
  PROVE  DecodeTimeTypeOK'
  <1>1. MinutesPerHour \in Nat \ {0} /\ HoursPerDay \in Nat \ {0}
    BY ClockAssumption
  <1> DEFINE takes == Taken(minlen, acc, b)
             leap == Leap(minlen, acc, b)
             dst == Dst(minlen, acc, b)
  <1>2. /\ b.bit59 = 0 /\ b.bit17 \in {0, 1}
        /\ b.minute_ok \in Verdicts /\ b.hour_ok \in Verdicts
        /\ b.date_ok \in Verdicts \cup {"impossible"}
    BY DEF BitsType
  <1>3. Old(acc) \in Time
    BY OldFacts
  <1>d. Decoded(minlen, acc, b)
    BY DecodedParts, Zenon
  <1>4. /\ leap.count \in Nat /\ leap.announce \in BOOLEAN
        /\ leap.status \in {"els_none", "els_one", "els_done"}
        /\ leap.length \in {"emin_ok", "emin_short", "emin_long"}
    BY <1>2, LeapType, Zenon
  <1>5. /\ dst.count \in Nat /\ dst.announce \in BOOLEAN
        /\ dst.status \in {"eDST_ok", "eDST_error", "eDST_jump", "eDST_done"}
        /\ dst.isdst \in {-1, 0, 1}
    BY <1>2, <1>3, DstType, Zenon
  <1>6. ASSUME NEW ok \in Verdicts \cup {"impossible"}, NEW jumped \in BOOLEAN
        PROVE  GroupResult(minlen, acc, b, ok, jumped) \in TVals
    BY DEF GroupResult, GroupStatus, Verdicts, TVals
  <1>7. dt_res' \in DT_result
    <2>1. /\ GroupResult(minlen, acc, b, b.minute_ok, Old(acc).tm_min # b.minute)
               \in TVals
          /\ GroupResult(minlen, acc, b, b.hour_ok, Old(acc).tm_hour # b.hour)
               \in TVals
          /\ GroupResult(minlen, acc, b, b.date_ok, Old(acc).day # b.day)
               \in TVals
      BY <1>2, <1>6, Zenon
    <2>2. (b.bit0 = 0) \in BOOLEAN /\ (b.bit20 = 1) \in BOOLEAN
      BY Zenon
    <2> HIDE DEF leap, dst
    <2> DEFINE result ==
          [minute_length |-> leap.length, bit0_ok |-> b.bit0 = 0, bit20_ok |-> b.bit20 = 1,
           minute_status |-> GroupResult(minlen, acc, b, b.minute_ok, Old(acc).tm_min # b.minute),
           hour_status |-> GroupResult(minlen, acc, b, b.hour_ok, Old(acc).tm_hour # b.hour),
           date_status |-> GroupResult(minlen, acc, b, b.date_ok, Old(acc).day # b.day),
           dst_status |-> dst.status, leapsecond_status |-> leap.status,
           dst_announce |-> dst.announce, leap_announce |-> leap.announce]
    <2>3. result \in DT_result
      BY <1>4, <1>5, <2>1, <2>2, ZenonT(40) DEF DT_result
    <2>4. dt_res' = result
      BY <1>d, Zenon DEF Decoded, leap, dst
    <2> QED
      BY <2>3, <2>4, Zenon
  <1>8. time' \in Time
    <2>1. NewTime(takes, b, dst.isdst) \in Time
      <3>1. /\ b.minute \in 0 .. MinutesPerHour - 1
            /\ b.hour \in Int /\ b.day \in Nat
        BY <1>1 DEF BitsType
      <3> HIDE DEF takes, dst
      <3> QED
        BY <1>1, <1>5, <3>1 DEF NewTime, Time
    <2>2. ASSUME NEW new \in Time
          PROVE  Stamped(new, Old(acc), dst.status) \in Time
      <3> HIDE DEF dst
      <3> QED
        BY <1>3 DEF Stamped, Time
    <2> HIDE DEF takes, dst
    <2> QED
      BY <1>3, <2>1, <2>2, <1>d, Zenon DEF Decoded, takes, dst
  <1>9. minute_count' \in 0 .. MinutesPerHour - 1
    <2>1. minute_count \in 0 .. MinutesPerHour - 1
      BY DEF DecodeTimeTypeOK
    <2>2. (minute_count + 1) % MinutesPerHour \in 0 .. MinutesPerHour - 1
      BY <1>1, <2>1
    <2> QED
      BY <2>1, <2>2, <1>d, Zenon DEF Decoded, Valid
  <1>10. fresh' \in BOOLEAN
    BY <1>d, Zenon DEF Decoded, Stamps
  <1>11. olderr' \in BOOLEAN
    BY <1>d, Zenon DEF Decoded
  <1>12. acc_minlen_partial' \in Nat /\ acc_minlen_partial' < 60000
    <2>1. acc_minlen_partial' = PartialRest(acc)
      BY <1>d, Zenon DEF Decoded
    <2> QED
      BY <2>1, IncreaseRange DEF DecodeTimeTypeOK, PartialRest
  <1>13. leap_count' \in Nat /\ dst_count' \in Nat
    BY <1>4, <1>d, <1>5, Zenon DEF Decoded
  <1> QED
    BY <1>7, <1>8, <1>9, <1>10, <1>11, <1>12, <1>13, SMT DEF DecodeTimeTypeOK
-----------------------------------------------------------------------------
(***************************************************************************)
(* What all steps but a missed marker have in common: a piece of signal    *)
(* ends at the next marker of the transmitter (n = 1) or at a false one    *)
(* (n = 0), and is decoded.                                                *)
(***************************************************************************)
Arrives(n, e, minlen, acc, b, flawless) ==
  /\ n \in 0 .. 1 /\ minlen \in {-1, 58, 59, 60} /\ Piece(acc)
  /\ e \in Misreads \cup {"none"} /\ Possible(e)
  /\ b = Bits(e) /\ Handle(minlen, acc, b) /\ NewPiece
  /\ n = 0 => UNCHANGED transmitterVars
  /\ n = 1 => Pass
  /\ n = 1 /\ phase = 0 => increase(acc) = missed + 1
  /\ minlen \in {59, 60} => n = 1 /\ phase = 0 /\ missed = 0
  /\ e # "none" => minlen \in {59, 60}
  /\ kept' \in [minute : {Unknown} \cup {truth'.tm_min, kept.minute},
                hour : {Unknown} \cup {truth'.tm_hour, kept.hour}]
  /\ phase' \in Cuts \cup {0} /\ (phase' > 0 => n = 0)
  /\ faults' \in 0 .. MaxFaults
  /\ flawless \in BOOLEAN
  /\ flawless => /\ e = "none" /\ n = 1
                 /\ minlen = IF leap_due /\ truth'.tm_min = 0 THEN 60 ELSE 59
  /\ Record(n = 0, flawless, e \in Stale)

\* The length of what is left up to a marker of the transmitter.
LEMMA LeftRange ==
  ASSUME missed \in 0 .. MaxOutage, phase \in Cuts \cup {0}, NEW acc \in Left
  PROVE  Piece(acc) /\ (phase = 0 => increase(acc) = missed + 1)
  <1> DEFINE extra == IF leapt \/ (missed + 1 > missed /\ LeapMinute) THEN 1000 ELSE 0
  <1>0. PICK j \in Jitters : acc = Elapsed(missed + 1) - j
    BY Zenon DEF Left
  <1>1. Elapsed(missed + 1) = 60000 * (missed + 1) - phase + extra
    BY SMT DEF Elapsed
  <1>2. j \in Int /\ 0 <= j /\ j <= 499
    BY ReceptionAssumption
  <1>3. phase \in Int /\ 0 <= phase /\ phase <= 58000
    BY ReceptionAssumption
  <1>4. missed + 1 \in Nat /\ missed + 1 > 0
    BY ReceptionAssumption
  <1>5. extra \in {0, 1000}
    OBVIOUS
  <1> HIDE DEF extra
  <1>6. acc \in Int /\ 60000 * (missed + 1) - phase - 499 <= acc
                    /\ acc <= 60000 * (missed + 1) - phase + 1000
    BY <1>0, <1>1, <1>2, <1>3, <1>4, <1>5
  <1>7. Piece(acc)
    BY <1>3, <1>4, <1>6 DEF Piece
  <1>8. phase = 0 => increase(acc) = missed + 1
    BY <1>4, <1>6, IncreaseWhole, SMTT(40)
  <1> QED
    BY <1>7, <1>8

\* The length of a piece that ends at a false marker.
LEMMA FalseRange ==
  ASSUME missed \in 0 .. MaxOutage, phase \in Cuts \cup {0},
         NEW cut \in Cuts, phase < cut \/ missed > 0
  PROVE  Piece(Elapsed(missed) + cut)
  <1> DEFINE extra == IF leapt \/ (missed > missed /\ LeapMinute) THEN 1000 ELSE 0
  <1>1. Elapsed(missed) = 60000 * missed - phase + extra
    BY SMT DEF Elapsed
  <1>2. extra \in {0, 1000}
    OBVIOUS
  <1>3. /\ phase \in Int /\ 0 <= phase /\ phase <= 58000
        /\ cut \in Int /\ 0 < cut
        /\ missed \in Nat
    BY ReceptionAssumption
  <1> HIDE DEF extra
  <1> QED
    BY <1>1, <1>2, <1>3 DEF Piece

LEMMA FaultCount ==
  ASSUME faults \in 0 .. MaxFaults, NEW p \in BOOLEAN, Fault(p)
  PROVE  faults' \in 0 .. MaxFaults
  BY ReceptionAssumption DEF Fault

\* A leap second is in the minute before minute 0.
LEMMA LeapMinuteIs ==
  ASSUME truth \in Time, Pass
  PROVE  LeapMinute <=> leap_due /\ truth'.tm_min = 0
  <1>1. truth.tm_min \in Nat /\ truth' = Tick(truth)
    BY ClockAssumption DEF Time, Pass
  <1>2. CASE LastOfHour(truth)
    <2>1. truth' = NextHour(truth)
      BY <1>1, <1>2, Zenon DEF Tick
    <2>2. truth'.tm_min = 0
      BY <2>1 DEF NextHour
    <2> QED
      BY <1>2, <2>2 DEF LeapMinute
  <1>3. CASE ~LastOfHour(truth)
    <2>1. truth' = [truth EXCEPT !.tm_min = truth.tm_min + 1]
      BY <1>1, <1>3, Zenon DEF Tick
    <2>2. truth'.tm_min = truth.tm_min + 1
      BY <2>1 DEF Time
    <2> QED
      BY <1>1, <1>3, <2>2 DEF LeapMinute
  <1> QED
    BY <1>2, <1>3

LEMMA Steps ==
  ASSUME TypeOK, Next
  PROVE  \/ MissMarker
         \/ \E n, e, minlen, acc, b, flawless :
              Arrives(n, e, minlen, acc, b, flawless)
  <1>1. /\ phase \in Cuts \cup {0} /\ faults \in 0 .. MaxFaults
        /\ missed \in 0 .. MaxOutage /\ truth \in Time
    BY DEF TypeOK
  <1> DEFINE KeptSoon == [minute : {Unknown} \cup {truth'.tm_min, kept.minute},
                          hour : {Unknown} \cup {truth'.tm_hour, kept.hour}]
  <1>2. Nothing \in KeptSoon
    BY DEF Nothing
  <1>n. "none" \notin Stale /\ ("none" \in Stale) = FALSE /\ Possible("none")
    <2>1. "none" \notin Stale
      BY DEF Stale
    <2>2. Possible("none")
      BY Zenon DEF Possible
    <2> QED
      BY <2>1, <2>2
  <1>o. /\ 1 \in 0 .. 1 /\ 1 # 0 /\ (1 = 0) = FALSE
        /\ 0 \in 0 .. 1 /\ (0 = 0) = TRUE
        /\ -1 \notin {59, 60} /\ 58 \notin {59, 60}
    OBVIOUS
  <1>3. CASE WholeMinute
    <2>1. /\ phase = 0 /\ missed = 0 /\ Pass /\ NewPiece /\ phase' = phase
      BY <1>3 DEF WholeMinute
    <2>0. LeapMinute <=> leap_due /\ truth'.tm_min = 0
      BY <1>1, <2>1, LeapMinuteIs
    <2>2. PICK e \in Misreads \cup {"none"} :
            /\ Fault(e # "none") /\ Possible(e)
            /\ \E minlen \in {IF LeapMinute THEN 60 ELSE 59},
                  acc \in Left, b \in {Bits(e)} : Handle(minlen, acc, b)
            /\ kept' = Kept(e)
            /\ Record(FALSE, e = "none", e \in Stale)
      BY <1>3, Zenon DEF WholeMinute
    <2>3. PICK minlen \in {IF LeapMinute THEN 60 ELSE 59},
               acc \in Left, b \in {Bits(e)} : Handle(minlen, acc, b)
      BY <2>2, Zenon
    <2>4. minlen \in {59, 60}
      OBVIOUS
    <2>5. Piece(acc) /\ increase(acc) = missed + 1
      BY <1>1, <2>1, LeftRange
    <2>6. kept' \in KeptSoon
      <3>1. Kept(e).minute \in {Unknown} \cup {truth'.tm_min, kept.minute}
        <4>1. CASE e = "minute"
          BY <4>1, Zenon DEF Kept
        <4>2. CASE e = "old_minute"
          BY <4>2 DEF Kept
        <4>3. CASE e # "minute" /\ e # "old_minute"
          BY <4>3, Zenon DEF Kept
        <4> QED
          BY <4>1, <4>2, <4>3
      <3>2. Kept(e).hour \in {Unknown} \cup {truth'.tm_hour, kept.hour}
        <4>1. CASE e = "hour"
          BY <4>1, Zenon DEF Kept
        <4>2. CASE e = "old_hour"
          BY <4>2 DEF Kept
        <4>3. CASE e # "hour" /\ e # "old_hour"
          BY <4>3, Zenon DEF Kept
        <4> QED
          BY <4>1, <4>2, <4>3
      <3>3. Kept(e) = [minute |-> Kept(e).minute, hour |-> Kept(e).hour]
        BY Zenon DEF Kept
      <3> QED
        BY <2>2, <3>1, <3>2, <3>3
    <2>7. faults' \in 0 .. MaxFaults
      BY <1>1, <2>2, FaultCount
    <2>8. Arrives(1, e, minlen, acc, b, e = "none")
      <3>1. minlen \in {-1, 58, 59, 60}
        BY <2>4
      <3>2. minlen = (IF leap_due /\ truth'.tm_min = 0 THEN 60 ELSE 59) /\ b = Bits(e)
        BY <2>0
      <3>3. phase' \in Cuts \cup {0} /\ ~(phase' > 0)
        BY <1>1, <2>1
      <3> HIDE DEF KeptSoon
      <3> QED
        BY <1>o, <2>1, <2>2, <2>3, <2>4, <2>5, <2>6, <2>7, <3>1, <3>2, <3>3, Zenon
           DEF Arrives, KeptSoon
    <2> QED
      BY <2>8, Zenon
  <1>4. CASE MiscountedMinute
    <2>1. /\ phase = 0 /\ missed = 0 /\ Pass /\ NewPiece /\ phase' = phase /\ Fault(TRUE)
          /\ kept' = Nothing /\ Record(FALSE, FALSE, FALSE)
      BY <1>4 DEF MiscountedMinute
    <2>2. PICK minlen \in {58, 60}, acc \in Left, b \in {Bits("none")} :
            Handle(minlen, acc, b)
      BY <1>4, Zenon DEF MiscountedMinute
    <2>3. Piece(acc) /\ increase(acc) = missed + 1
      BY <1>1, <2>1, LeftRange
    <2>4. faults' \in 0 .. MaxFaults
      BY <1>1, <2>1, FaultCount
    <2>5. Arrives(1, "none", minlen, acc, b, FALSE)
      <3>1. minlen \in {-1, 58, 59, 60}
        OBVIOUS
      <3>2. phase' \in Cuts \cup {0} /\ ~(phase' > 0)
        BY <1>1, <2>1
      <3> HIDE DEF KeptSoon
      <3> QED
        BY <1>2, <1>n, <1>o, <2>1, <2>2, <2>3, <2>4, <3>1, <3>2, Zenon
           DEF Arrives, KeptSoon
    <2> QED
      BY <2>5, ZenonT(40)
  <1>5. CASE RestOfMinute
    <2>1. /\ phase > 0 /\ missed = 0 /\ Pass /\ NewPiece /\ Fault(FALSE) /\ phase' = 0
          /\ kept' = Nothing /\ Record(FALSE, FALSE, FALSE)
      BY <1>5 DEF RestOfMinute
    <2>2. PICK acc \in Left, b \in {Bits("none")} : Handle(58, acc, b)
      BY <1>5, Zenon DEF RestOfMinute
    <2>3. Piece(acc) /\ phase # 0
      BY <1>1, <2>1, LeftRange
    <2>4. faults' \in 0 .. MaxFaults
      BY <1>1, <2>1, FaultCount
    <2>5. Arrives(1, "none", 58, acc, b, FALSE)
      <3>1. 58 \in {-1, 58, 59, 60}
        OBVIOUS
      <3>2. phase' \in Cuts \cup {0} /\ ~(phase' > 0)
        BY <2>1
      <3> HIDE DEF KeptSoon
      <3> QED
        BY <1>2, <1>n, <1>o, <2>1, <2>2, <2>3, <2>4, <3>1, <3>2, Zenon
           DEF Arrives, KeptSoon
    <2> QED
      BY <2>5, Zenon
  <1>6. CASE FindMarker
    <2>1. /\ missed > 0 /\ Pass /\ NewPiece /\ Fault(FALSE) /\ phase' = 0
          /\ kept' = Nothing /\ Record(FALSE, FALSE, FALSE)
      BY <1>6 DEF FindMarker
    <2>2. PICK minlen \in {-1, 58}, acc \in Left, b \in {Bits("none")} :
            Handle(minlen, acc, b)
      BY <1>6, Zenon DEF FindMarker
    <2>3. Piece(acc) /\ (phase = 0 => increase(acc) = missed + 1)
      BY <1>1, LeftRange
    <2>4. faults' \in 0 .. MaxFaults
      BY <1>1, <2>1, FaultCount
    <2>5. Arrives(1, "none", minlen, acc, b, FALSE)
      <3>1. minlen \in {-1, 58, 59, 60} /\ minlen \notin {59, 60}
        OBVIOUS
      <3>2. phase' \in Cuts \cup {0} /\ ~(phase' > 0)
        BY <2>1
      <3> HIDE DEF KeptSoon
      <3> QED
        BY <1>2, <1>n, <1>o, <2>1, <2>2, <2>3, <2>4, <3>1, <3>2, Zenon
           DEF Arrives, KeptSoon
    <2> QED
      BY <2>5, Zenon
  <1>7. CASE FalseMarker
    <2>1. /\ Fault(TRUE) /\ NewPiece /\ Record(TRUE, FALSE, FALSE)
      BY <1>7 DEF FalseMarker
    <2>2. PICK cut \in Cuts :
            /\ phase < cut \/ missed > 0
            /\ phase' = cut
            /\ UNCHANGED transmitterVars
            /\ kept' = Nothing
            /\ \E minlen \in IF missed > 0 THEN {-1, 58} ELSE {58},
                  b \in {Bits("none")} : Handle(minlen, Elapsed(missed) + cut, b)
      BY <1>7, Zenon DEF FalseMarker
    <2>3. PICK minlen \in IF missed > 0 THEN {-1, 58} ELSE {58}, b \in {Bits("none")} :
            Handle(minlen, Elapsed(missed) + cut, b)
      BY <2>2, Zenon
    <2>4. Piece(Elapsed(missed) + cut)
      BY <1>1, <2>2, FalseRange
    <2>5. faults' \in 0 .. MaxFaults
      BY <1>1, <2>1, FaultCount
    <2>6. Arrives(0, "none", minlen, Elapsed(missed) + cut, b, FALSE)
      <3>1. minlen \in {-1, 58, 59, 60} /\ minlen \notin {59, 60} /\ 0 # 1
        OBVIOUS
      <3>2. phase' \in Cuts \cup {0}
        BY <2>2
      <3> HIDE DEF KeptSoon
      <3> QED
        BY <1>2, <1>n, <1>o, <2>1, <2>2, <2>3, <2>4, <2>5, <3>1, <3>2, Zenon
           DEF Arrives, KeptSoon
    <2> QED
      BY <2>6, Zenon
  <1> QED
    BY <1>3, <1>4, <1>5, <1>6, <1>7 DEF Next

(***************************************************************************)
(* The transmitter.                                                        *)
(***************************************************************************)
Wraps(t) == t.tm_min + 1 >= MinutesPerHour

TickOffset(t) == IF Wraps(t) /\ dst_due THEN 1 - t.tm_isdst ELSE t.tm_isdst

LEMMA TickParts ==
  ASSUME NEW t \in Time, t.tm_isdst \in {0, 1}, t.tm_hour \in 0 .. HoursPerDay - 1,
         dst_due \in BOOLEAN, Wraps(t) /\ dst_due => MayChange(t)
  PROVE  /\ Tick(t) = Later(t, dst_due, TickOffset(t))
         /\ Tick(t).tm_isdst \in {0, 1} /\ Tick(t).tm_hour \in 0 .. HoursPerDay - 1
  <1>1. /\ MinutesPerHour \in Nat \ {0} /\ HoursPerDay \in Nat \ {0} /\ HoursPerDay > 3
        /\ t.tm_min \in 0 .. MinutesPerHour - 1 /\ t.day \in Nat
    BY ClockAssumption, ReceptionAssumption DEF Time
  <1>2. t = [tm_min |-> t.tm_min, tm_hour |-> t.tm_hour, day |-> t.day,
             tm_isdst |-> t.tm_isdst]
    BY DEF Time
  <1> DEFINE later == Later(t, dst_due, TickOffset(t))
  <1>3. CASE ~Wraps(t)
    <2>1. Tick(t) = [t EXCEPT !.tm_min = t.tm_min + 1]
      BY <1>1, <1>3 DEF Tick, LastOfHour, Wraps
    <2>2. later = [tm_min |-> t.tm_min + 1, tm_hour |-> t.tm_hour, day |-> t.day,
                   tm_isdst |-> t.tm_isdst]
      BY <1>1, <1>3 DEF Later, Wraps, TickOffset, NextMinute
    <2> QED
      BY <1>1, <1>2, <2>1, <2>2
  <1>4. CASE Wraps(t)
    <2> DEFINE hour == IF ~dst_due THEN t.tm_hour + 1
                       ELSE IF t.tm_isdst = 0 THEN t.tm_hour + 2 ELSE t.tm_hour
    <2>1. Tick(t) = NextHour(t)
      BY <1>1, <1>4 DEF Tick, LastOfHour, Wraps
    <2>2. NextHour(t) =
            [tm_min |-> 0, tm_hour |-> hour % HoursPerDay,
             day |-> t.day + hour \div HoursPerDay, tm_isdst |-> TickOffset(t)]
      BY <1>4 DEF NextHour, TickOffset
    <2>3. hour = ShiftedHour(t, dst_due) /\ hour \in 0 .. HoursPerDay
      <3>1. CASE dst_due
        BY <1>1, <1>4, <3>1 DEF ShiftedHour, MayChange
      <3>2. CASE ~dst_due
        BY <1>1, <3>2 DEF ShiftedHour
      <3> QED
        BY <3>1, <3>2
    <2> HIDE DEF hour
    <2>4. /\ hour % HoursPerDay = IF hour = HoursPerDay THEN 0 ELSE hour
          /\ hour \div HoursPerDay = IF hour = HoursPerDay THEN 1 ELSE 0
      <3>1. hour \in 0 .. 2 * HoursPerDay - 1 /\ HoursPerDay \in Nat \ {0}
        BY <1>1, <2>3
      <3>2. /\ hour % HoursPerDay = IF hour < HoursPerDay THEN hour
                                     ELSE hour - HoursPerDay
            /\ hour \div HoursPerDay = IF hour < HoursPerDay THEN 0 ELSE 1
        BY <3>1, Wrap, Zenon
      <3>3. /\ hour < HoursPerDay <=> hour # HoursPerDay
            /\ hour = HoursPerDay => hour - HoursPerDay = 0
        BY <1>1, <2>3
      <3> QED
        BY <3>2, <3>3, Zenon
    <2>5. NextMinute(t.tm_min) = 0
      BY <1>1, <1>4 DEF NextMinute, Wraps
    <2>6. t.day + 0 = t.day
      BY <1>1
    <2>7. later = [tm_min |-> 0,
                   tm_hour |-> IF hour = HoursPerDay THEN 0 ELSE hour,
                   day |-> IF hour = HoursPerDay THEN t.day + 1 ELSE t.day,
                   tm_isdst |-> TickOffset(t)]
      BY <1>4, <2>3, <2>5, Zenon DEF Later, Wraps
    <2>8. later = Tick(t)
      BY <2>1, <2>2, <2>4, <2>6, <2>7
    <2>9. TickOffset(t) \in {0, 1}
      BY DEF TickOffset
    <2>10. (IF hour = HoursPerDay THEN 0 ELSE hour) \in 0 .. HoursPerDay - 1
      BY <1>1, <2>3
    <2> HIDE DEF later
    <2> QED
      BY <2>7, <2>8, <2>9, <2>10 DEF later
  <1> QED
    BY <1>3, <1>4

LEMMA TickFacts ==
  ASSUME NEW t \in Time, t.tm_isdst \in {0, 1}, t.tm_hour \in 0 .. HoursPerDay - 1,
         dst_due \in BOOLEAN, Wraps(t) /\ dst_due => MayChange(t)
  PROVE  /\ Tick(t) \in Time
         /\ Tick(t).tm_isdst \in {0, 1} /\ Tick(t).tm_hour \in 0 .. HoursPerDay - 1
         /\ Tick(t).tm_min = NextMinute(t.tm_min)
         /\ Tick(t).tm_isdst = TickOffset(t)
         /\ ~Wraps(t) => Tick(t).tm_hour = t.tm_hour /\ Tick(t).day = t.day
  <1>1. /\ Tick(t) = Later(t, dst_due, TickOffset(t))
        /\ Tick(t).tm_isdst \in {0, 1} /\ Tick(t).tm_hour \in 0 .. HoursPerDay - 1
    BY TickParts
  <1>2. TickOffset(t) \in {-1, 0, 1}
    BY DEF TickOffset
  <1>3. /\ Later(t, dst_due, TickOffset(t)).tm_min = NextMinute(t.tm_min)
        /\ ~Wraps(t) => /\ Later(t, dst_due, TickOffset(t)).tm_hour = t.tm_hour
                        /\ Later(t, dst_due, TickOffset(t)).day = t.day
    BY DEF Later, Wraps
  <1> QED
    BY <1>1, <1>2, <1>3, LaterType, SMTT(40)

(***************************************************************************)
(* Legal time goes on by a minute, or not at all; the hour it is in has    *)
(* announcements that are possible in it.                                  *)
(***************************************************************************)
LEMMA PassFacts ==
  ASSUME TypeOK, Legal, Pass
  PROVE  /\ truth' \in Time /\ truth'.tm_isdst \in {0, 1}
         /\ truth'.tm_hour \in 0 .. HoursPerDay - 1
         /\ dst_due' \in BOOLEAN /\ leap_due' \in BOOLEAN
         /\ dst_due' => MayChange(truth')
         /\ leap_due' => MayLeap(truth')
         /\ minutes' \in 0 .. MaxMinutes
         /\ truth' = Tick(truth)
         /\ LastOfHour(truth) <=> Wraps(truth)
         /\ truth'.tm_min < truth.tm_min <=> Wraps(truth)
         /\ ~Wraps(truth) => dst_due' = dst_due /\ leap_due' = leap_due
  <1> DEFINE t1 == Tick(truth)
  <1>1. /\ truth \in Time /\ truth.tm_isdst \in {0, 1}
        /\ truth.tm_hour \in 0 .. HoursPerDay - 1
        /\ dst_due \in BOOLEAN /\ leap_due \in BOOLEAN
        /\ dst_due => MayChange(truth)
        /\ leap_due => MayLeap(truth)
        /\ minutes \in 0 .. MaxMinutes
    BY DEF TypeOK, Legal
  <1>2. MinutesPerHour \in Nat /\ MinutesPerHour > 2 /\ MaxMinutes \in Nat
    BY ClockAssumption, ReceptionAssumption
  <1>3. /\ t1 \in Time /\ t1.tm_isdst \in {0, 1} /\ t1.tm_hour \in 0 .. HoursPerDay - 1
        /\ t1.tm_min = NextMinute(truth.tm_min)
        /\ ~Wraps(truth) => t1.tm_hour = truth.tm_hour /\ t1.tm_isdst = truth.tm_isdst
    <2>1. ~Wraps(truth) => TickOffset(truth) = truth.tm_isdst
      BY DEF TickOffset
    <2> QED
      BY <1>1, <2>1, TickFacts
  <1> HIDE DEF t1
  <1>4. truth' = t1 /\ minutes' \in 0 .. MaxMinutes
    BY <1>1, <1>2 DEF Pass, t1
  <1>5. truth.tm_min \in 0 .. MinutesPerHour - 1
    BY <1>1 DEF Time
  <1>6. LastOfHour(truth) <=> Wraps(truth)
    BY <1>2, <1>5 DEF LastOfHour, Wraps
  <1>7. truth'.tm_min < truth.tm_min <=> Wraps(truth)
    BY <1>2, <1>3, <1>4, <1>5 DEF Wraps, NextMinute
  <1>8. CASE Wraps(truth)
    <2>1. /\ dst_due' \in IF MayChange(truth') THEN BOOLEAN ELSE {FALSE}
          /\ leap_due' \in IF MayLeap(truth') /\ ~leapt' THEN BOOLEAN ELSE {FALSE}
      BY <1>6, <1>8, Zenon DEF Pass
    <2>2. /\ dst_due' \in BOOLEAN /\ leap_due' \in BOOLEAN
          /\ dst_due' => MayChange(truth')
          /\ leap_due' => MayLeap(truth')
      BY <2>1, Zenon
    <2> QED
      BY <1>3, <1>4, <1>6, <1>7, <1>8, <2>2 DEF t1
  <1>9. CASE ~Wraps(truth)
    <2>1. dst_due' = dst_due /\ leap_due' = leap_due
      BY <1>6, <1>9 DEF Pass
    <2>2. /\ dst_due => MayChange(truth')
          /\ leap_due => MayLeap(truth')
      BY <1>1, <1>3, <1>4, <1>9 DEF MayChange, MayLeap
    <2> QED
      BY <1>1, <1>3, <1>4, <1>6, <1>7, <1>9, <2>1, <2>2 DEF t1
  <1> QED
    BY <1>8, <1>9

LEMMA Passing ==
  ASSUME TypeOK, Legal, NEW n \in 0 .. 1,
         n = 0 => UNCHANGED transmitterVars,
         n = 1 => Pass
  PROVE  /\ truth' \in Time /\ truth'.tm_isdst \in {0, 1}
         /\ truth'.tm_hour \in 0 .. HoursPerDay - 1
         /\ dst_due' \in BOOLEAN /\ leap_due' \in BOOLEAN
         /\ dst_due' => MayChange(truth')
         /\ leap_due' => MayLeap(truth')
         /\ minutes' \in 0 .. MaxMinutes
         /\ n = 1 => truth' = Tick(truth)
         /\ n = 1 /\ ~Wraps(truth) => dst_due' = dst_due /\ leap_due' = leap_due
  <1>1. CASE n = 0
    <2>1. /\ truth' = truth /\ dst_due' = dst_due /\ leap_due' = leap_due
          /\ minutes' = minutes
      BY <1>1 DEF transmitterVars
    <2>2. /\ truth \in Time /\ truth.tm_isdst \in {0, 1}
          /\ truth.tm_hour \in 0 .. HoursPerDay - 1
          /\ dst_due \in BOOLEAN /\ leap_due \in BOOLEAN
          /\ dst_due => MayChange(truth)
          /\ leap_due => MayLeap(truth)
          /\ minutes \in 0 .. MaxMinutes
      BY DEF TypeOK, Legal
    <2> QED
      BY <1>1, <2>1, <2>2 DEF MayChange, MayLeap
  <1>2. CASE n = 1
    BY <1>2, PassFacts
  <1> QED
    BY <1>1, <1>2

(***************************************************************************)
(* increase_old_time() keeps up with the transmitter while no minute is    *)
(* split: the minute always, the hour and the day when the decoder knows   *)
(* of a change of the offset.                                              *)
(***************************************************************************)
LEMMA LaterOnTime ==
  ASSUME NEW s \in Time, NEW t \in Time, NEW c \in BOOLEAN, NEW d \in BOOLEAN,
         NEW sdst, NEW tdst
  PROVE  /\ SameMinute(s, t) => SameMinute(Later(s, c, sdst), Later(t, d, tdst))
         /\ SameTime(s, t) /\ (Wraps(t) => c = d /\ (d => s.tm_isdst = t.tm_isdst))
              => SameTime(Later(s, c, sdst), Later(t, d, tdst))
  <1>1. SameMinute(s, t) => SameMinute(Later(s, c, sdst), Later(t, d, tdst))
    BY DEF SameMinute, Later
  <1>2. ASSUME SameTime(s, t), Wraps(t) => c = d /\ (d => s.tm_isdst = t.tm_isdst)
        PROVE  SameHour(Later(s, c, sdst), Later(t, d, tdst))
    <2>1. s.tm_min = t.tm_min /\ s.tm_hour = t.tm_hour /\ s.day = t.day
      BY <1>2 DEF SameTime, SameMinute, SameHour
    <2>2. CASE Wraps(t)
      <3>1. ShiftedHour(s, c) = ShiftedHour(t, d)
        BY <1>2, <2>1, <2>2 DEF ShiftedHour
      <3> QED
        BY <2>1, <3>1 DEF SameHour, Later
    <2>3. CASE ~Wraps(t)
      BY <2>1, <2>3 DEF SameHour, Later, Wraps
    <2> QED
      BY <2>2, <2>3
  <1>3. SameTime(s, t) => SameMinute(s, t)
    BY DEF SameTime
  <1> QED
    BY <1>1, <1>2, <1>3, Zenon DEF SameTime

LEMMA NowFacts ==
  ASSUME TypeOK
  PROVE  /\ Now \in Time /\ Now.tm_isdst = time.tm_isdst
         /\ missed = 0 => Now = time
         /\ AddMinutes(time, missed + 1, dt_res.dst_announce)
              = add_minute(Now, dt_res.dst_announce)
  <1>1. /\ time \in Time /\ dt_res.dst_announce \in BOOLEAN
        /\ missed \in Nat
    BY ReceptionAssumption DEF TypeOK, DecodeTimeTypeOK, DT_result
  <1>2. Now \in Time /\ Now.tm_isdst = time.tm_isdst
    BY <1>1, AddMinutesType DEF Now
  <1>3. /\ missed = 0 => Now = time
        /\ AddMinutes(time, missed + 1, dt_res.dst_announce)
              = add_minute(Now, dt_res.dst_announce)
    BY <1>1, AddMinutesRecursion DEF Now
  <1> QED
    BY <1>2, <1>3

LEMMA NextOnTime ==
  ASSUME TypeOK, Legal, Pass,
         NEW s, s = AddMinutes(time, missed + 1, dt_res.dst_announce)
  PROVE  /\ SameMinute(Now, truth) => SameMinute(s, truth')
         /\ SameTime(Now, truth) /\ Foreseen => SameTime(s, truth')
         /\ s.tm_min = NextMinute(Now.tm_min)
         /\ truth'.tm_min = NextMinute(truth.tm_min)
         /\ truth'.tm_isdst = TickOffset(truth)
  <1> DEFINE c == dt_res.dst_announce
             s1 == Later(Now, c, time.tm_isdst)
             t1 == Later(truth, dst_due, TickOffset(truth))
  <1>1. /\ truth \in Time /\ truth.tm_isdst \in {0, 1}
        /\ truth.tm_hour \in 0 .. HoursPerDay - 1
        /\ c \in BOOLEAN /\ dst_due \in BOOLEAN
        /\ dst_due => MayChange(truth)
    BY DEF TypeOK, Legal, DecodeTimeTypeOK, DT_result
  <1>2. Now \in Time /\ Now.tm_isdst = time.tm_isdst /\ s = add_minute(Now, c)
    BY NowFacts
  <1> HIDE DEF Now
  <1>3. s = s1
    BY <1>1, <1>2, AddMinuteParts
  <1>4. truth' = Tick(truth) /\ (truth'.tm_min < truth.tm_min <=> Wraps(truth))
    BY PassFacts
  <1>5. truth' = t1
    BY <1>1, <1>4, TickParts
  <1>6. s1.tm_min = NextMinute(Now.tm_min)
    BY DEF Later
  <1>7. t1.tm_min = NextMinute(truth.tm_min) /\ t1.tm_isdst = TickOffset(truth)
    BY DEF Later
  <1>8. SameMinute(Now, truth) => SameMinute(s1, t1)
    BY <1>1, <1>2, LaterOnTime
  <1>9. ASSUME SameTime(Now, truth), Foreseen
        PROVE  SameTime(s1, t1)
    <2>1. Wraps(truth) => c = dst_due /\ (dst_due => Now.tm_isdst = truth.tm_isdst)
      BY <1>2, <1>4, <1>9, Zenon DEF Foreseen
    <2> QED
      BY <1>1, <1>2, <1>9, <2>1, LaterOnTime
  <1> HIDE DEF s1, t1
  <1>10. SameTime(Now, truth) /\ Foreseen => SameTime(s, truth')
    BY <1>3, <1>5, <1>9
  <1>11. SameMinute(Now, truth) => SameMinute(s, truth')
    BY <1>3, <1>5, <1>8
  <1> QED
    BY <1>3, <1>5, <1>6, <1>7, <1>10, <1>11

LEMMA OldOnTime ==
  ASSUME TypeOK, Legal, phase = 0, init_min < 2,
         NEW n, NEW e, NEW minlen, NEW acc, NEW b, NEW flawless,
         Arrives(n, e, minlen, acc, b, flawless), n = 1
  PROVE  /\ SameMinute(Now, truth) => SameMinute(Old(acc), truth')
         /\ SameTime(Now, truth) /\ Foreseen => SameTime(Old(acc), truth')
         /\ Old(acc).tm_min = NextMinute(Now.tm_min)
         /\ truth'.tm_min = NextMinute(truth.tm_min)
         /\ truth'.tm_isdst = TickOffset(truth)
  <1>1. increase(acc) = missed + 1 /\ Piece(acc) /\ Pass
    BY DEF Arrives
  <1>2. DecodeTimeTypeOK /\ init_min \in 0 .. 2
    BY DEF TypeOK
  <1>3. Old(acc) = AddMinutes(time, missed + 1, dt_res.dst_announce)
    BY <1>1, <1>2, OldFacts
  <1> QED
    BY <1>1, <1>3, NextOnTime
-----------------------------------------------------------------------------
(***************************************************************************)
(* What the bits of a minute with error e tell of the legal time.          *)
(***************************************************************************)
Tells(e, b) ==
  /\ b.bit59 = 0 /\ b.bit20 = 1
  /\ b.bit0 = 0 <=> e # "bit0"
  /\ b.bit17 \in {0, 1} /\ (b.bit17 = b.bit18 <=> e = "pair")
  /\ e # "pair" => b.bit17 = truth'.tm_isdst /\ b.bit18 = 1 - truth'.tm_isdst
  /\ b.minute_ok = "eval_ok" <=> e # "minute"
  /\ b.hour_ok = "eval_ok" <=> e # "hour"
  /\ b.date_ok = "eval_ok" <=> e # "date" /\ e # "impossible"
  /\ b.minute_ok # "impossible" /\ b.hour_ok # "impossible"
  /\ e # "old_minute" => b.minute = truth'.tm_min
  /\ e # "old_hour" => b.hour = truth'.tm_hour
  /\ b.day = truth'.day
  /\ e = "none" => b.bit16 = Bit(dst_due) /\ b.bit19 = Bit(leap_due)

LEMMA BitsFacts ==
  ASSUME NEW n, NEW e, NEW minlen, NEW acc, NEW b, NEW flawless,
         Arrives(n, e, minlen, acc, b, flawless), TypeOK, Legal
  PROVE  Tells(e, b) /\ b \in BitsType
  <1>1. b = Bits(e) /\ e \in Misreads \cup {"none"} /\ Possible(e)
    BY Zenon DEF Arrives
  <1>2. truth' \in Time /\ truth'.tm_isdst \in {0, 1} /\ truth'.tm_hour \in 0 .. HoursPerDay - 1
    BY Passing, Zenon DEF Arrives
  <1>3. /\ kept.minute \in {Unknown} \cup 0 .. MinutesPerHour - 1
        /\ kept.hour \in {Unknown} \cup 0 .. HoursPerDay - 1
    BY DEF TypeOK
  <1>4. /\ e = "old_minute" => kept.minute # Unknown
        /\ e = "old_hour" => kept.hour # Unknown
    <2>1. e = "old_minute" => kept.minute # Unknown
      BY <1>1, Zenon DEF Possible
    <2>2. e = "old_hour" => kept.hour # Unknown
      <3>1. "old_minute" # "old_hour"
        OBVIOUS
      <3> QED
        BY <1>1, <3>1, Zenon DEF Possible
    <2> QED
      BY <2>1, <2>2
  <1> DEFINE Verdict(group) == IF e = group THEN "eval_parity" ELSE "eval_ok"
  <1>5. b = [bit0 |-> Bit(e = "bit0"), bit20 |-> 1, bit59 |-> 0,
             bit16 |-> Bit(dst_due # (e = "bit16")),
             bit19 |-> Bit(leap_due # (e = "bit19")),
             bit17 |-> IF e = "pair" THEN 1 - truth'.tm_isdst ELSE truth'.tm_isdst,
             bit18 |-> 1 - truth'.tm_isdst,
             minute |-> IF e = "old_minute" THEN kept.minute ELSE truth'.tm_min,
             hour |-> IF e = "old_hour" THEN kept.hour ELSE truth'.tm_hour,
             day |-> truth'.day,
             minute_ok |-> Verdict("minute"), hour_ok |-> Verdict("hour"),
             date_ok |-> IF e = "impossible" THEN e ELSE Verdict("date")]
    BY <1>1, Zenon DEF Bits
  <1> DEFINE b16 == Bit(dst_due # (e = "bit16"))
             b19 == Bit(leap_due # (e = "bit19"))
  <1>6. /\ b16 \in {0, 1} /\ b19 \in {0, 1}
        /\ Bit(e = "bit0") \in {0, 1}
        /\ Bit(e = "bit0") = 0 <=> e # "bit0"
    BY DEF Bit
  <1>7. e = "none" => b16 = Bit(dst_due) /\ b19 = Bit(leap_due)
    <2>1. ASSUME e = "none"
          PROVE  b16 = Bit(dst_due) /\ b19 = Bit(leap_due)
      <3>1. (e = "bit16") = FALSE /\ (e = "bit19") = FALSE
        BY <2>1
      <3>2. (dst_due # FALSE) = dst_due /\ (leap_due # FALSE) = leap_due
        BY Zenon DEF TypeOK
      <3> QED
        BY <3>1, <3>2, Zenon
    <2> QED
      BY <2>1
  <1>8. /\ truth'.tm_min \in 0 .. MinutesPerHour - 1 /\ truth'.day \in Nat
        /\ truth'.tm_isdst \in {0, 1}
    BY <1>2 DEF Time
  <1> HIDE DEF b16, b19
  <1>9. b \in BitsType
    <2>1. /\ (IF e = "old_minute" THEN kept.minute ELSE truth'.tm_min) \in 0 .. MinutesPerHour - 1
          /\ (IF e = "old_hour" THEN kept.hour ELSE truth'.tm_hour) \in 0 .. HoursPerDay - 1
          /\ (IF e = "pair" THEN 1 - truth'.tm_isdst ELSE truth'.tm_isdst) \in {0, 1}
          /\ 1 - truth'.tm_isdst \in {0, 1}
      BY <1>2, <1>3, <1>4, <1>8
    <2>2. /\ Verdict("minute") \in Verdicts /\ Verdict("hour") \in Verdicts
          /\ (IF e = "impossible" THEN e ELSE Verdict("date")) \in Verdicts \cup {"impossible"}
      BY DEF Verdicts
    <2>3. 1 \in {1} /\ 0 \in {0}
      OBVIOUS
    <2> HIDE DEF Verdict
    <2> QED
      BY <1>5, <1>6, <1>8, <2>1, <2>2, <2>3, Zenon DEF BitsType, b16, b19
  <1>10. /\ b.bit59 = 0 /\ b.bit20 = 1
         /\ b.bit0 = 0 <=> e # "bit0"
    BY <1>5, <1>6
  <1>11. /\ b.bit17 \in {0, 1} /\ (b.bit17 = b.bit18 <=> e = "pair")
         /\ e # "pair" => b.bit17 = truth'.tm_isdst /\ b.bit18 = 1 - truth'.tm_isdst
    BY <1>5, <1>8
  <1>12. /\ b.minute_ok = "eval_ok" <=> e # "minute"
         /\ b.hour_ok = "eval_ok" <=> e # "hour"
         /\ b.date_ok = "eval_ok" <=> e # "date" /\ e # "impossible"
         /\ b.minute_ok # "impossible" /\ b.hour_ok # "impossible"
    BY <1>5
  <1>13. /\ e # "old_minute" => b.minute = truth'.tm_min
         /\ e # "old_hour" => b.hour = truth'.tm_hour
         /\ b.day = truth'.day
    BY <1>5
  <1>14. b.bit16 = b16 /\ b.bit19 = b19
    BY <1>5, Zenon DEF b16, b19
  <1> QED
    BY <1>7, <1>9, <1>10, <1>11, <1>12, <1>13, <1>14, Zenon DEF Tells
Results(minlen, acc, b) ==
  /\ dt_res'.minute_length = Leap(minlen, acc, b).length
  /\ dt_res'.bit0_ok = (b.bit0 = 0) /\ dt_res'.bit20_ok = (b.bit20 = 1)
  /\ dt_res'.minute_status =
       GroupResult(minlen, acc, b, b.minute_ok, Old(acc).tm_min # b.minute)
  /\ dt_res'.hour_status =
       GroupResult(minlen, acc, b, b.hour_ok, Old(acc).tm_hour # b.hour)
  /\ dt_res'.date_status =
       GroupResult(minlen, acc, b, b.date_ok, Old(acc).day # b.day)
  /\ dt_res'.dst_status = Dst(minlen, acc, b).status
  /\ dt_res'.leapsecond_status = Leap(minlen, acc, b).status
  /\ dt_res'.dst_announce = Dst(minlen, acc, b).announce
  /\ dt_res'.leap_announce = Leap(minlen, acc, b).announce

LEMMA ResultFacts ==
  ASSUME NEW minlen, NEW acc, NEW b, Decoded(minlen, acc, b)
  PROVE  Results(minlen, acc, b)
  <1>1. dt_res' =
          [minute_length |-> Leap(minlen, acc, b).length,
           bit0_ok |-> b.bit0 = 0, bit20_ok |-> b.bit20 = 1,
           minute_status |-> GroupResult(minlen, acc, b, b.minute_ok,
                                         Old(acc).tm_min # b.minute),
           hour_status |-> GroupResult(minlen, acc, b, b.hour_ok,
                                       Old(acc).tm_hour # b.hour),
           date_status |-> GroupResult(minlen, acc, b, b.date_ok,
                                       Old(acc).day # b.day),
           dst_status |-> Dst(minlen, acc, b).status,
           leapsecond_status |-> Leap(minlen, acc, b).status,
           dst_announce |-> Dst(minlen, acc, b).announce,
           leap_announce |-> Leap(minlen, acc, b).announce]
    BY Zenon DEF Decoded
  <1>2. /\ dt_res'.minute_length = Leap(minlen, acc, b).length
        /\ dt_res'.dst_status = Dst(minlen, acc, b).status
        /\ dt_res'.leapsecond_status = Leap(minlen, acc, b).status
    BY <1>1, SMT
  <1>3. dt_res'.bit0_ok = (b.bit0 = 0) /\ dt_res'.bit20_ok = (b.bit20 = 1)
    BY <1>1, SMT
  <1>4. dt_res'.minute_status =
          GroupResult(minlen, acc, b, b.minute_ok, Old(acc).tm_min # b.minute)
    BY <1>1, SMT
  <1>5. dt_res'.hour_status =
          GroupResult(minlen, acc, b, b.hour_ok, Old(acc).tm_hour # b.hour)
    BY <1>1, SMT
  <1>6. dt_res'.date_status =
          GroupResult(minlen, acc, b, b.date_ok, Old(acc).day # b.day)
    BY <1>1, SMT
  <1>7. dt_res'.dst_announce = Dst(minlen, acc, b).announce
    BY <1>1, SMT
  <1>8. dt_res'.leap_announce = Leap(minlen, acc, b).announce
    BY <1>1, SMT
  <1> QED
    BY <1>2, <1>3, <1>4, <1>5, <1>6, <1>7, <1>8, Zenon DEF Results

LEMMA Decodes ==
  ASSUME NEW n, NEW e, NEW minlen, NEW acc, NEW b, NEW flawless,
         Arrives(n, e, minlen, acc, b, flawless)
  PROVE  /\ Decoded(minlen, acc, b) /\ Results(minlen, acc, b)
         /\ published' = Publishable(dt_res')
         /\ settable' = (init_min = 0 /\ setclock_dt_ok(dt_res'))
         /\ init_min' = IF init_min > 0 THEN init_min - 1 ELSE init_min
  <1>1. Handle(minlen, acc, b)
    BY Zenon DEF Arrives
  <1>2. decode_time(init_min, minlen, acc, b)
    BY <1>1, Zenon DEF Handle
  <1>3. Decoded(minlen, acc, b)
    BY <1>2, DecodedParts, Zenon
  <1>4. Results(minlen, acc, b)
    BY <1>3, ResultFacts, Zenon
  <1> QED
    BY <1>1, <1>3, <1>4, Zenon DEF Handle

(***************************************************************************)
(* Which errors check_time_sanity() and calculate_date_time() find.        *)
(***************************************************************************)
Unnoticed == {"none", "bit16", "bit19"} \cup Stale

NoErrors(minlen, acc, b) == Calc(minlen, acc, b) = {}

LEMMA CalcFacts ==
  ASSUME NEW n, NEW e, NEW minlen, NEW acc, NEW b, NEW flawless,
         Arrives(n, e, minlen, acc, b, flawless), TypeOK, Legal
  PROVE  /\ Sane(minlen, b) <=> minlen \in {59, 60} /\ e \notin {"bit0", "pair"}
         /\ Taken(minlen, acc, b) <=> Sane(minlen, b)
         /\ Calc(minlen, acc, b) \subseteq CalcFlags
         /\ "sanity" \in Calc(minlen, acc, b) <=> ~Sane(minlen, b)
         /\ "minute" \in Calc(minlen, acc, b) <=> ~GroupOK(b.minute_ok, Taken(minlen, acc, b))
         /\ "hour" \in Calc(minlen, acc, b) <=> ~GroupOK(b.hour_ok, Taken(minlen, acc, b))
         /\ "date" \in Calc(minlen, acc, b) <=> ~GroupOK(b.date_ok, Taken(minlen, acc, b))
         /\ NoErrors(minlen, acc, b) <=> minlen \in {59, 60} /\ e \in Unnoticed
         /\ LengthStatus(minlen) = "emin_ok" <=> minlen \in {59, 60}
  <1>1. /\ minlen \in {-1, 58, 59, 60} /\ e \in Misreads \cup {"none"}
        /\ minlen \in {59, 60} => increase(acc) = 1
        /\ e # "none" => minlen \in {59, 60}
    BY DEF Arrives
  <1>2. Tells(e, b)
    BY BitsFacts, Zenon
  <1>3. LengthStatus(minlen) = "emin_ok" <=> minlen \in {59, 60}
    BY <1>1 DEF LengthStatus
  <1>4. Sane(minlen, b) <=> minlen \in {59, 60} /\ e \notin {"bit0", "pair"}
    BY <1>2, <1>3 DEF Sane, Tells
  <1>5. Taken(minlen, acc, b) <=> Sane(minlen, b)
    BY <1>1, <1>4 DEF Taken, Takes
  <1> DEFINE sane == Sane(minlen, b)
             taken == Taken(minlen, acc, b)
             calc == Calc(minlen, acc, b)
  <1>6. calc = (IF sane THEN {} ELSE {"sanity"}) \cup
               (IF GroupOK(b.minute_ok, taken) THEN {} ELSE {"minute"}) \cup
               (IF GroupOK(b.hour_ok, taken) THEN {} ELSE {"hour"}) \cup
               (IF GroupOK(b.date_ok, taken) THEN {} ELSE {"date"})
    BY Zenon DEF Calc, CalculateFlags
  <1> HIDE DEF sane, taken, calc
  <1>7. /\ calc \subseteq CalcFlags
        /\ "sanity" \in calc <=> ~sane
        /\ "minute" \in calc <=> ~GroupOK(b.minute_ok, taken)
        /\ "hour" \in calc <=> ~GroupOK(b.hour_ok, taken)
        /\ "date" \in calc <=> ~GroupOK(b.date_ok, taken)
        /\ calc = {} <=> /\ sane /\ GroupOK(b.minute_ok, taken)
                         /\ GroupOK(b.hour_ok, taken) /\ GroupOK(b.date_ok, taken)
    BY <1>6 DEF CalcFlags
  <1>8. sane /\ taken =>
          /\ GroupOK(b.minute_ok, taken) <=> e # "minute"
          /\ GroupOK(b.hour_ok, taken) <=> e # "hour"
          /\ GroupOK(b.date_ok, taken) <=> e # "date" /\ e # "impossible"
    BY <1>2 DEF GroupOK, Tells
  <1>9. calc = {} <=> minlen \in {59, 60} /\ e \in Unnoticed
    <2>1. e \in {"none", "bit0", "pair", "bit16", "bit19", "minute", "hour",
                 "date", "impossible"} \cup Stale
      BY <1>1, ReceptionAssumption
    <2> QED
      BY <1>4, <1>5, <1>7, <1>8, <2>1 DEF Unnoticed, Stale, sane, taken
  <1> QED
    BY <1>3, <1>4, <1>5, <1>7, <1>9, Zenon DEF NoErrors, sane, taken, calc

(***************************************************************************)
(* stamp_date_time() takes the time of a minute in which nothing is wrong, *)
(* or nothing but its offset.                                              *)
(***************************************************************************)
LEMMA FreshIff ==
  ASSUME NEW n, NEW e, NEW minlen, NEW acc, NEW b, NEW flawless,
         Arrives(n, e, minlen, acc, b, flawless), TypeOK, Legal
  PROVE  fresh' <=> /\ Calc(minlen, acc, b) = {}
                    /\ init_min # 2 => ~LeapFails(minlen, acc, b)
  <1> DEFINE calc == Calc(minlen, acc, b)
             length == Leap(minlen, acc, b).length
             flags == Leap(minlen, acc, b).flags
             all == Dst(minlen, acc, b).flags
             fails == LeapFails(minlen, acc, b)
  <1>1. /\ calc \subseteq CalcFlags
        /\ calc = {} => LengthStatus(minlen) = "emin_ok"
    BY CalcFacts DEF NoErrors
  <1>2. fresh' <=> length = "emin_ok" /\ all \subseteq {"leap", "dst"}
    <2>1. Decoded(minlen, acc, b)
      BY Decodes, Zenon
    <2> QED
      BY <2>1, Zenon DEF Decoded, Stamps
  <1>3. CASE init_min = 2
    <2>1. length = LengthStatus(minlen) /\ flags = calc /\ all = flags
      BY <1>3 DEF Leap, Dst, NoLeap, NoDST
    <2> HIDE DEF calc, length, flags, all, fails
    <2>2. all \subseteq {"leap", "dst"} <=> calc = {}
      BY <1>1, <2>1 DEF CalcFlags
    <2> QED
      BY <1>1, <1>2, <1>3, <2>1, <2>2, Zenon DEF calc
  <1>4. CASE init_min # 2
    <2>1. b.bit59 = 0
      <3>1. Tells(e, b)
        BY BitsFacts, Zenon
      <3> QED
        BY <3>1, Zenon DEF Tells
    <2>2. HandledLeap(minlen, acc, b) /\ HandledDst(minlen, acc, b)
      BY <1>4, <2>1, LeapFacts, DstFacts, Zenon
    <2>3. /\ fails => length \in {"emin_short", "emin_long"}
          /\ ~fails => length = LengthStatus(minlen)
          /\ flags = IF fails THEN calc \cup {"leap"} ELSE calc
      BY <2>2, Zenon DEF HandledLeap
    <2>4. all = flags \cup {"dst"} \/ all = flags
      BY <2>2, Zenon DEF HandledDst
    <2> HIDE DEF calc, length, flags, all, fails
    <2>5. all \subseteq {"leap", "dst"} <=> calc = {}
      BY <1>1, <2>3, <2>4 DEF CalcFlags
    <2>6. length = "emin_ok" => ~fails
      BY <2>3
    <2> QED
      BY <1>1, <1>2, <1>4, <2>3, <2>5, <2>6, Zenon DEF calc, fails
  <1> QED
    BY <1>3, <1>4
LEMMA FreshFacts ==
  ASSUME NEW n, NEW e, NEW minlen, NEW acc, NEW b, NEW flawless,
         Arrives(n, e, minlen, acc, b, flawless), TypeOK, Legal, fresh'
  PROVE  /\ n = 1 /\ phase = 0 /\ missed = 0 /\ e \in Unnoticed
         /\ Taken(minlen, acc, b)
         /\ time'.tm_min = b.minute /\ time'.tm_hour = b.hour
         /\ time'.day = truth'.day
         /\ e \notin Stale => SameTime(time', truth')
         /\ init_min = 2 => time'.tm_isdst = -1
         /\ init_min # 2 =>
              IF DstJumps(minlen, acc, b)
                THEN olderr' /\ dt_res'.dst_status = "eDST_jump"
                ELSE time'.tm_isdst = truth'.tm_isdst
         /\ OffsetSoonRight'
  <1> DEFINE dst == Dst(minlen, acc, b)
             jumps == DstJumps(minlen, acc, b)
             flags == Leap(minlen, acc, b).flags
             differs == DstDiffers(acc, b)
             old == Old(acc)
             new == NewTime(Taken(minlen, acc, b), b, dst.isdst)
  <1>1. /\ Decoded(minlen, acc, b) /\ Results(minlen, acc, b)
        /\ Tells(e, b)
    BY Decodes, BitsFacts, Zenon
  <1>2. minlen \in {59, 60} /\ e \in Unnoticed /\ Taken(minlen, acc, b)
    <2>1. NoErrors(minlen, acc, b)
      BY FreshIff DEF NoErrors
    <2>2. minlen \in {59, 60} /\ e \in Unnoticed
      BY <2>1, CalcFacts
    <2>3. e \notin {"bit0", "pair"}
      BY <2>2 DEF Unnoticed, Stale
    <2> QED
      BY <2>2, <2>3, CalcFacts
  <1>3. n = 1 /\ phase = 0 /\ missed = 0
    BY <1>2 DEF Arrives
  <1>4. /\ b.bit17 = truth'.tm_isdst /\ b.bit18 = 1 - truth'.tm_isdst
        /\ b.bit17 \in {0, 1} /\ b.bit17 # b.bit18
        /\ b.day = truth'.day
        /\ e \notin Stale => b.minute = truth'.tm_min /\ b.hour = truth'.tm_hour
    BY <1>1, <1>2 DEF Tells, Unnoticed, Stale
  <1>5. time' = Stamped(new, old, dst.status)
    BY <1>1, Zenon DEF Decoded
  <1>6. new = [tm_min |-> b.minute, tm_hour |-> b.hour, day |-> b.day,
               tm_isdst |-> dst.isdst]
    BY <1>2, Zenon DEF NewTime
  <1>7. olderr' = (dst.flags # {}) /\ dt_res'.dst_status = dst.status
    <2>1. dt_res'.dst_status = dst.status
      BY <1>1, Zenon DEF Results
    <2> QED
      BY <1>1, <2>1, Zenon DEF Decoded
  <1> HIDE DEF dst, new, old, jumps, flags, differs
  <1>8. /\ time'.tm_min = b.minute /\ time'.tm_hour = b.hour /\ time'.day = b.day
        /\ time'.tm_isdst = IF dst.status = "eDST_jump" THEN old.tm_isdst ELSE dst.isdst
    BY <1>5, <1>6 DEF Stamped
  <1>9. e \notin Stale => SameTime(time', truth')
    BY <1>4, <1>8 DEF SameTime, SameMinute, SameHour
  <1>10. init_min = 2 => time'.tm_isdst = -1
    <2>1. init_min = 2 => dst.isdst = -1 /\ dst.status \in {"eDST_error", "eDST_ok"}
      BY DEF dst, Dst, NoDST
    <2> QED
      BY <1>8, <2>1
  <1>11. ASSUME init_min # 2
         PROVE  IF jumps THEN olderr' /\ dt_res'.dst_status = "eDST_jump"
                ELSE time'.tm_isdst = truth'.tm_isdst
    <2>1. HandledDst(minlen, acc, b)
      BY <1>11, DstFacts, Zenon
    <2>2. /\ dst.isdst = IF differs /\ ~jumps THEN b.bit17 ELSE old.tm_isdst
          /\ dst.flags = IF jumps THEN flags \cup {"dst"} ELSE flags
          /\ dst.status = IF DstDue(minlen, acc, b) THEN "eDST_done"
                          ELSE IF b.bit17 = b.bit18 THEN "eDST_error"
                          ELSE IF jumps THEN "eDST_jump" ELSE "eDST_ok"
      BY <2>1, Zenon DEF HandledDst, dst, jumps, flags, differs, old
    <2>3. jumps => ~DstDue(minlen, acc, b)
      BY DEF jumps, DstJumps, OffsetExpected
    <2>4. ~differs => old.tm_isdst = b.bit17
      BY DEF differs, DstDiffers, old
    <2>5. CASE jumps
      BY <1>4, <1>7, <2>2, <2>3, <2>5
    <2>6. CASE ~jumps
      BY <1>4, <1>8, <2>2, <2>4, <2>6
    <2> QED
      BY <2>5, <2>6
  <1>12. OffsetSoonRight'
    BY <1>10, <1>11 DEF OffsetSoonRight
  <1> QED
    BY <1>2, <1>3, <1>4, <1>8, <1>9, <1>10, <1>11, <1>12, Zenon DEF jumps

LEMMA NotFresh ==
  ASSUME NEW n, NEW e, NEW minlen, NEW acc, NEW b, NEW flawless,
         Arrives(n, e, minlen, acc, b, flawless), ~fresh'
  PROVE  time' = Old(acc)
  <1>1. Decoded(minlen, acc, b)
    BY Decodes, Zenon
  <1> QED
    BY <1>1, Zenon DEF Decoded

(***************************************************************************)
(* Both announcements take effect in minute 0 of the decoder, if the last  *)
(* minute of the hour left them.                                           *)
(***************************************************************************)
LEMMA DueFacts ==
  ASSUME TypeOK, NEW minlen, NEW acc, NEW b, Old(acc) \in Time
  PROVE  /\ LeapDue(minlen, acc, b) <=> dt_res.leap_announce /\ Old(acc).tm_min = 0
         /\ DstDue(minlen, acc, b) <=> dt_res.dst_announce /\ Old(acc).tm_min = 0
  <1>1. Old(acc).tm_min = 0 => ~(Old(acc).tm_min > 0)
    OBVIOUS
  <1>2. dt_res.leap_announce \in BOOLEAN /\ dt_res.dst_announce \in BOOLEAN
    BY DEF TypeOK, DecodeTimeTypeOK, DT_result
  <1> QED
    BY <1>1, <1>2, Zenon DEF LeapDue, DstDue, LeapAnnounced, DstAnnounced, Announced
(***************************************************************************)
(* A minute without errors after the first.  It is refused only for its    *)
(* length, and then the next minute may bring a new offset.                *)
(***************************************************************************)
LEMMA FlawlessFacts ==
  ASSUME NEW n, NEW e, NEW minlen, NEW acc, NEW b, NEW flawless,
         Arrives(n, e, minlen, acc, b, flawless), TypeOK, Legal, flawless,
         init_min # 2
  PROVE  LET due == dt_res.leap_announce /\ Old(acc).tm_min = 0
         IN  /\ Calc(minlen, acc, b) = {} /\ Taken(minlen, acc, b)
             /\ Sane(minlen, b)
             /\ Old(acc) \in Time /\ Old(acc).tm_isdst = time.tm_isdst
             /\ fresh' <=> ~LeapFails(minlen, acc, b)
             /\ LeapFails(minlen, acc, b) <=>
                  IF leap_due /\ truth'.tm_min = 0 THEN ~due ELSE due
             /\ ~fresh' => /\ olderr' /\ time' = Old(acc)
                           /\ Old(acc).tm_min = 0 \/ truth'.tm_min = 0
             /\ fresh' => SameTime(time', truth')
  <1> DEFINE due == dt_res.leap_announce /\ Old(acc).tm_min = 0
             fails == LeapFails(minlen, acc, b)
  <1>1. /\ e = "none" /\ Piece(acc)
        /\ minlen = IF leap_due /\ truth'.tm_min = 0 THEN 60 ELSE 59
    BY DEF Arrives
  <1>2. /\ Calc(minlen, acc, b) = {} /\ Taken(minlen, acc, b) /\ Sane(minlen, b)
    <2>1. e \in Unnoticed /\ e \notin {"bit0", "pair"} /\ minlen \in {59, 60}
      BY <1>1 DEF Unnoticed
    <2>2. Calc(minlen, acc, b) = {}
      <3>1. NoErrors(minlen, acc, b)
        BY <2>1, CalcFacts, ZenonT(40)
      <3> QED
        BY <3>1, Zenon DEF NoErrors
    <2>3. Sane(minlen, b)
      BY <2>1, CalcFacts, ZenonT(40)
    <2>4. Taken(minlen, acc, b)
      BY <2>3, CalcFacts, ZenonT(40)
    <2> QED
      BY <2>2, <2>3, <2>4
  <1>3. Old(acc) \in Time /\ Old(acc).tm_isdst = time.tm_isdst
    <2>1. DecodeTimeTypeOK /\ init_min \in 0 .. 2
      BY DEF TypeOK
    <2> QED
      BY <1>1, <2>1, OldFacts
  <1>4. fresh' <=> ~fails
    BY <1>2, FreshIff
  <1>5. LeapDue(minlen, acc, b) <=> due
    BY <1>3, DueFacts
  <1>6. fails <=> IF leap_due /\ truth'.tm_min = 0 THEN ~due ELSE due
    BY <1>1, <1>5 DEF LeapFails
  <1>7. ASSUME ~fresh'
        PROVE  olderr' /\ time' = Old(acc) /\ (Old(acc).tm_min = 0 \/ truth'.tm_min = 0)
    <2>1. b.bit59 = 0
      <3>1. Tells(e, b)
        BY BitsFacts, Zenon
      <3> QED
        BY <3>1, Zenon DEF Tells
    <2>2. HandledLeap(minlen, acc, b) /\ HandledDst(minlen, acc, b)
      BY <2>1, LeapFacts, DstFacts, Zenon
    <2>3. fails
      BY <1>4, <1>7
    <2>4. "leap" \in Leap(minlen, acc, b).flags
      <3>1. Leap(minlen, acc, b).flags = Calc(minlen, acc, b) \cup {"leap"}
        BY <2>2, <2>3, Zenon DEF HandledLeap
      <3> QED
        BY <3>1
    <2>5. \/ Dst(minlen, acc, b).flags = Leap(minlen, acc, b).flags
          \/ Dst(minlen, acc, b).flags = Leap(minlen, acc, b).flags \cup {"dst"}
      BY <2>2, Zenon DEF HandledDst
    <2>6. Decoded(minlen, acc, b)
      BY Decodes, Zenon
    <2>7. olderr' = (Dst(minlen, acc, b).flags # {})
      BY <2>6, Zenon DEF Decoded
    <2>8. olderr'
      BY <2>4, <2>5, <2>7
    <2>9. time' = Old(acc)
      BY <1>7, NotFresh, Zenon
    <2> QED
      BY <1>6, <2>3, <2>8, <2>9
  <1>8. fresh' => SameTime(time', truth')
    <2>1. e \notin Stale
      BY <1>1 DEF Stale
    <2> QED
      BY <2>1, FreshFacts
  <1> QED
    BY <1>2, <1>3, <1>4, <1>6, <1>7, <1>8

\* The offset is right when it is new or did not change.
LEMMA OffsetFacts ==
  ASSUME NEW n, NEW e, NEW minlen, NEW acc, NEW b, NEW flawless,
         Arrives(n, e, minlen, acc, b, flawless), TypeOK, Legal, flawless,
         init_min # 2, fresh',
         \/ dt_res.dst_announce /\ Old(acc).tm_min = 0
         \/ time.tm_isdst \in {-1, truth'.tm_isdst}
         \/ olderr
  PROVE  time'.tm_isdst = truth'.tm_isdst /\ ~DstJumps(minlen, acc, b)
  <1>1. e = "none"
    BY DEF Arrives
  <1>2. /\ Old(acc) \in Time /\ Old(acc).tm_isdst = time.tm_isdst
        /\ Calc(minlen, acc, b) = {} /\ ~LeapFails(minlen, acc, b)
    BY FlawlessFacts
  <1>3. Leap(minlen, acc, b).flags = {}
    <2>1. b.bit59 = 0
      <3>1. Tells(e, b)
        BY BitsFacts, Zenon
      <3> QED
        BY <3>1, Zenon DEF Tells
    <2>2. HandledLeap(minlen, acc, b)
      BY <2>1, LeapFacts, Zenon
    <2> QED
      BY <1>2, <2>2, Zenon DEF HandledLeap
  <1>4. /\ b.bit17 = truth'.tm_isdst /\ b.bit18 = 1 - truth'.tm_isdst
        /\ b.bit17 \in {0, 1} /\ b.bit17 # b.bit18
    <2>1. Tells(e, b)
      BY BitsFacts, Zenon
    <2> QED
      BY <1>1, <2>1 DEF Tells
  <1>5. DstDue(minlen, acc, b) <=> dt_res.dst_announce /\ Old(acc).tm_min = 0
    BY <1>2, DueFacts
  <1>6. time.tm_isdst = truth'.tm_isdst => ~DstDiffers(acc, b)
    BY <1>2, <1>4 DEF DstDiffers
  <1>7. ~DstJumps(minlen, acc, b)
    <2>1. CASE dt_res.dst_announce /\ Old(acc).tm_min = 0
      BY <1>5, <2>1, Zenon DEF DstJumps, OffsetExpected
    <2>2. CASE time.tm_isdst = truth'.tm_isdst
      BY <1>6, <2>2, Zenon DEF DstJumps
    <2>3. CASE time.tm_isdst = -1
      <3>1. Old(acc).tm_isdst = -1
        BY <1>2, <2>3
      <3> QED
        BY <1>4, <3>1, Zenon DEF DstJumps, OffsetExpected
    <2>4. CASE olderr
      BY <1>3, <2>4, Zenon DEF DstJumps, OffsetExpected
    <2> QED
      BY <2>1, <2>2, <2>3, <2>4
  <1> QED
    BY <1>7, FreshFacts
\* What such a minute adds to the counts, and what follows from them.
LEMMA CountFacts ==
  ASSUME NEW n, NEW e, NEW minlen, NEW acc, NEW b, NEW flawless,
         Arrives(n, e, minlen, acc, b, flawless), TypeOK, Legal, flawless,
         init_min # 2
  PROVE  /\ leap_count' = IF Old(acc).tm_min = 0 THEN 0 ELSE leap_count + Bit(leap_due)
         /\ fresh' =>
              dst_count' = IF Old(acc).tm_min = 0 THEN 0 ELSE dst_count + Bit(dst_due)
         /\ ~fresh' => dst_count' = IF Old(acc).tm_min = 0 THEN 0 ELSE dst_count
         /\ Old(acc).tm_min # 0 =>
              /\ dt_res'.leap_announce <=> 2 * leap_count' > minute_count'
              /\ dt_res'.dst_announce <=> 2 * dst_count' > minute_count'
  <1> DEFINE lcount == LeapCount(minlen, acc, b)
             dcount == DstCount(minlen, acc, b)
             fails == LeapFails(minlen, acc, b)
             flags == Leap(minlen, acc, b).flags
             old == Old(acc)
             v == Valid(Sane(minlen, b))
  <1>1. /\ Calc(minlen, acc, b) = {} /\ (fresh' <=> ~fails) /\ old.tm_min \in Nat
    <2>1. Old(acc) \in Time
      BY FlawlessFacts
    <2>2. Calc(minlen, acc, b) = {} /\ (fresh' <=> ~fails)
      BY FlawlessFacts
    <2> QED
      BY <2>1, <2>2, ClockAssumption DEF Time
  <1>2. b.bit16 = Bit(dst_due) /\ b.bit19 = Bit(leap_due) /\ b.bit59 = 0
    <2>1. Tells(e, b) /\ e = "none"
      BY BitsFacts, Zenon DEF Arrives
    <2> QED
      BY <2>1, Zenon DEF Tells
  <1>3. HandledLeap(minlen, acc, b) /\ HandledDst(minlen, acc, b)
    BY <1>2, LeapFacts, DstFacts, Zenon
  <1>4. /\ leap_count' = Leap(minlen, acc, b).count
        /\ dst_count' = Dst(minlen, acc, b).count
        /\ minute_count' = v
    <2>1. Decoded(minlen, acc, b)
      BY Decodes, Zenon
    <2> QED
      BY <2>1, Zenon DEF Decoded
  <1>5. /\ dt_res'.dst_announce = Dst(minlen, acc, b).announce
        /\ dt_res'.leap_announce = Leap(minlen, acc, b).announce
    <2>1. Results(minlen, acc, b)
      BY Decodes, Zenon
    <2> QED
      BY <2>1, Zenon DEF Results
  <1>6. leap_count \in Nat /\ dst_count \in Nat
    BY DEF TypeOK, DecodeTimeTypeOK
  <1>7. /\ leap_count' = Restart(lcount, old)
        /\ dst_count' = Restart(dcount, old)
        /\ dt_res'.leap_announce <=> LeapAnnounced(minlen, acc, b) /\ old.tm_min # 0
        /\ dt_res'.dst_announce <=> DstAnnounced(minlen, acc, b) /\ old.tm_min # 0
        /\ flags = IF fails THEN Calc(minlen, acc, b) \cup {"leap"}
                   ELSE Calc(minlen, acc, b)
    BY <1>3, <1>4, <1>5, Zenon DEF HandledLeap, HandledDst
  <1>8. /\ lcount = Counted(leap_count, Bit(leap_due), Calc(minlen, acc, b))
        /\ dcount = Counted(dst_count, Bit(dst_due), flags)
    BY <1>2, Zenon DEF LeapCount, DstCount
  <1>9. /\ LeapAnnounced(minlen, acc, b) <=> Announced(dt_res.leap_announce, lcount, old, v)
        /\ DstAnnounced(minlen, acc, b) <=> Announced(dt_res.dst_announce, dcount, old, v)
    BY Zenon DEF LeapAnnounced, DstAnnounced
  <1> HIDE DEF lcount, dcount, fails, flags, old, v
  <1>10. /\ lcount = leap_count + Bit(leap_due)
         /\ ~fails => dcount = dst_count + Bit(dst_due)
         /\ fails => dcount = dst_count
    <2>1. fails => flags # {}
      BY <1>7
    <2> QED
      BY <1>1, <1>6, <1>7, <1>8, <2>1 DEF Counted, Bit
  <1>11. /\ leap_count' = IF old.tm_min = 0 THEN 0 ELSE lcount
         /\ dst_count' = IF old.tm_min = 0 THEN 0 ELSE dcount
    BY <1>7, Zenon DEF Restart
  <1>12. ASSUME old.tm_min # 0
         PROVE  /\ dt_res'.leap_announce <=> 2 * leap_count' > minute_count'
                /\ dt_res'.dst_announce <=> 2 * dst_count' > minute_count'
    <2>1. old.tm_min > 0
      BY <1>1, <1>12
    <2>2. /\ LeapAnnounced(minlen, acc, b) <=> 2 * lcount > v
          /\ DstAnnounced(minlen, acc, b) <=> 2 * dcount > v
      BY <1>9, <2>1, Zenon DEF Announced
    <2>3. leap_count' = lcount /\ dst_count' = dcount
      BY <1>11, <1>12
    <2> QED
      BY <1>4, <1>7, <1>12, <2>2, <2>3, Zenon
  <1> QED
    BY <1>1, <1>10, <1>11, <1>12 DEF old
LEMMA FlawlessPass ==
  ASSUME NEW n, NEW e, NEW minlen, NEW acc, NEW b, NEW flawless,
         Arrives(n, e, minlen, acc, b, flawless), TypeOK, Legal, flawless,
         init_min # 2
  PROVE  /\ MinutesPerHour \in Nat /\ MinutesPerHour > 2
         /\ time.tm_min \in 0 .. MinutesPerHour - 1
         /\ truth.tm_min \in 0 .. MinutesPerHour - 1
         /\ Old(acc).tm_min = NextMinute(time.tm_min)
         /\ truth'.tm_min = NextMinute(truth.tm_min)
         /\ truth'.tm_isdst = TickOffset(truth)
         /\ SameMinute(time, truth) => SameMinute(Old(acc), truth')
         /\ SameTime(time, truth) /\ Foreseen => SameTime(Old(acc), truth')
         /\ ~Wraps(truth) => /\ dst_due' = dst_due /\ leap_due' = leap_due
                             /\ truth'.tm_isdst = truth.tm_isdst
                             /\ SameTime(time, truth) => SameTime(Old(acc), truth')
  <1>1. /\ n = 1 /\ n \in 0 .. 1 /\ phase = 0 /\ missed = 0 /\ Pass
        /\ init_min < 2 /\ (n = 0 => UNCHANGED transmitterVars)
    <2>1. n = 1 /\ minlen \in {59, 60}
      BY DEF Arrives
    <2> QED
      BY <2>1 DEF Arrives, TypeOK
  <1>2. MinutesPerHour \in Nat /\ MinutesPerHour > 2
    BY ClockAssumption, ReceptionAssumption
  <1>3. /\ time.tm_min \in 0 .. MinutesPerHour - 1
        /\ truth.tm_min \in 0 .. MinutesPerHour - 1
    BY DEF TypeOK, DecodeTimeTypeOK, Time
  <1>4. /\ SameMinute(time, truth) => SameMinute(Old(acc), truth')
        /\ SameTime(time, truth) /\ Foreseen => SameTime(Old(acc), truth')
        /\ Old(acc).tm_min = NextMinute(time.tm_min)
        /\ truth'.tm_min = NextMinute(truth.tm_min)
        /\ truth'.tm_isdst = TickOffset(truth)
    <2>1. Now = time
      BY <1>1, NowFacts
    <2>2. /\ SameMinute(Now, truth) => SameMinute(Old(acc), truth')
          /\ SameTime(Now, truth) /\ Foreseen => SameTime(Old(acc), truth')
          /\ Old(acc).tm_min = NextMinute(Now.tm_min)
          /\ truth'.tm_min = NextMinute(truth.tm_min)
          /\ truth'.tm_isdst = TickOffset(truth)
      BY <1>1, OldOnTime, Zenon
    <2> QED
      BY <2>1, <2>2, Zenon
  <1>5. ASSUME ~Wraps(truth)
        PROVE  /\ dst_due' = dst_due /\ leap_due' = leap_due
               /\ truth'.tm_isdst = truth.tm_isdst /\ Foreseen
    <2>1. dst_due' = dst_due /\ leap_due' = leap_due
      BY <1>1, <1>5, Passing
    <2>2. ~(truth'.tm_min < truth.tm_min)
      BY <1>2, <1>3, <1>4, <1>5 DEF Wraps, NextMinute
    <2>3. Foreseen
      BY <2>2, Zenon DEF Foreseen
    <2> QED
      BY <1>4, <1>5, <2>1, <2>3 DEF TickOffset
  <1> QED
    BY <1>2, <1>3, <1>4, <1>5

-----------------------------------------------------------------------------
(***************************************************************************)
(* Each part of the invariant is kept.                                     *)
(***************************************************************************)
LEMMA TypeOKStep ==
  ASSUME IInv, NEW n, NEW e, NEW minlen, NEW acc, NEW b, NEW flawless,
         Arrives(n, e, minlen, acc, b, flawless)
  PROVE  TypeOK' /\ Legal'
  <1>1. TypeOK /\ Legal
    BY DEF IInv
  <1>2. /\ truth' \in Time /\ truth'.tm_isdst \in {0, 1}
        /\ truth'.tm_hour \in 0 .. HoursPerDay - 1
        /\ dst_due' \in BOOLEAN /\ leap_due' \in BOOLEAN
        /\ dst_due' => MayChange(truth')
        /\ leap_due' => MayLeap(truth')
        /\ minutes' \in 0 .. MaxMinutes
    BY <1>1, Passing DEF Arrives
  <1>3. /\ n \in 0 .. 1 /\ minlen \in {-1, 58, 59, 60} /\ Piece(acc)
        /\ n = 0 => UNCHANGED transmitterVars
        /\ n = 1 => Pass
        /\ phase' \in Cuts \cup {0} /\ faults' \in 0 .. MaxFaults
        /\ Record(n = 0, flawless, e \in Stale)
        /\ Handle(minlen, acc, b)
        /\ kept' \in [minute : {Unknown} \cup {truth'.tm_min, kept.minute},
                      hour : {Unknown} \cup {truth'.tm_hour, kept.hour}]
        /\ minlen \in {59, 60} => n = 1
        /\ NewPiece
    BY DEF Arrives
  <1>4. DecodeTimeTypeOK'
    <2>1. b \in BitsType
      BY <1>1, BitsFacts, Zenon
    <2>2. decode_time(init_min, minlen, acc, b)
      BY <1>3, Zenon DEF Handle
    <2>3. DecodeTimeTypeOK /\ init_min \in 0 .. 2
      BY <1>1 DEF TypeOK
    <2> QED
      BY <1>3, <2>1, <2>2, <2>3, DecodedType, Zenon
  <1>5. init_min' \in 0 .. 2
    BY <1>1, <1>3 DEF TypeOK, Handle
  <1>6. kept' \in [minute : {Unknown} \cup 0 .. MinutesPerHour - 1,
                   hour : {Unknown} \cup 0 .. HoursPerDay - 1]
    <2>1. kept \in [minute : {Unknown} \cup 0 .. MinutesPerHour - 1,
                    hour : {Unknown} \cup 0 .. HoursPerDay - 1]
      BY <1>1 DEF TypeOK
    <2>2. truth'.tm_min \in 0 .. MinutesPerHour - 1
      BY <1>2 DEF Time
    <2> QED
      BY <1>2, <1>3, <2>1, <2>2
  <1>7. published' \in BOOLEAN /\ settable' \in BOOLEAN
    <2>1. /\ published' = Publishable(dt_res')
          /\ settable' = (init_min = 0 /\ setclock_dt_ok(dt_res'))
      BY <1>3, Zenon DEF Handle
    <2> QED
      BY <2>1, Zenon DEF Publishable
  <1>8. steady' \in BOOLEAN /\ sure' \in BOOLEAN /\ astray' \in BOOLEAN
    <2>1. /\ steady' = IF fresh' THEN ~(e \in Stale) ELSE steady /\ ~(n = 0)
          /\ sure' = IF fresh' THEN ~(e \in Stale) ELSE sure /\ Foreseen
          /\ astray' = (e \in Stale /\ ~(steady /\ sure /\ Foreseen))
      BY <1>3, Zenon DEF Record
    <2> QED
      BY <2>1, Zenon
  <1>9. good' \in 0 .. MinutesPerHour + 3
    <2>1. good \in 0 .. MinutesPerHour + 3 /\ MinutesPerHour \in Nat
      BY <1>1, ClockAssumption DEF TypeOK
    <2>2. good' = IF ~flawless THEN 0
                  ELSE IF good < MinutesPerHour + 3 THEN good + 1 ELSE good
      BY <1>3, Zenon DEF Record
    <2> QED
      BY <2>1, <2>2
  <1>10. valid' \in 0 .. MinutesPerHour /\ valid' <= truth'.tm_min
    <2>1. /\ valid \in 0 .. MinutesPerHour /\ valid <= truth.tm_min
          /\ truth.tm_min \in 0 .. MinutesPerHour - 1
          /\ truth'.tm_min \in 0 .. MinutesPerHour - 1
          /\ MinutesPerHour \in Nat \ {0} /\ MinutesPerHour > 2
      BY <1>1, <1>2, ClockAssumption, ReceptionAssumption DEF TypeOK, Legal, Time
    <2>2. valid' = IF truth'.tm_min < truth.tm_min THEN 0
                   ELSE IF minute_count' # minute_count THEN valid + 1 ELSE valid
      BY <1>3, Zenon DEF Record
    <2>3. ASSUME minute_count' # minute_count, ~(truth'.tm_min < truth.tm_min)
          PROVE  truth'.tm_min = truth.tm_min + 1
      <3>1. minute_count' = Valid(Sane(minlen, b))
        <4>1. Decoded(minlen, acc, b)
          BY Decodes, Zenon
        <4> QED
          BY <4>1, Zenon DEF Decoded
      <3>2. Sane(minlen, b)
        BY <2>3, <3>1, Zenon DEF Valid
      <3>3. n = 1
        BY <1>1, <1>3, <3>2, CalcFacts
      <3>4. truth'.tm_min = NextMinute(truth.tm_min)
        <4>1. truth' = Tick(truth)
          BY <1>1, <1>3, <3>3, Passing
        <4> QED
          BY <1>1, <4>1, TickFacts DEF TypeOK, Legal
      <3> QED
        BY <2>1, <2>3, <3>4 DEF NextMinute
    <2> QED
      BY <2>1, <2>2, <2>3
  <1>m. missed' \in 0 .. MaxOutage /\ leapt' \in BOOLEAN
    <2>1. missed' = 0 /\ leapt' = FALSE
      BY <1>3, Zenon DEF NewPiece
    <2>2. 0 \in 0 .. MaxOutage
      BY ReceptionAssumption
    <2> QED
      BY <2>1, <2>2, Zenon
  <1>11. TypeOK'
    BY <1>2, <1>3, <1>4, <1>5, <1>6, <1>7, <1>8, <1>9, <1>10, <1>m, Zenon DEF TypeOK
  <1>12. Legal'
    BY <1>2, <1>10, Zenon DEF Legal, MayChange, MayLeap
  <1> QED
    BY <1>11, <1>12

LEMMA BeginStep ==
  ASSUME IInv, NEW n, NEW e, NEW minlen, NEW acc, NEW b, NEW flawless,
         Arrives(n, e, minlen, acc, b, flawless)
  PROVE  Begin'
  <1>1. init_min \in 0 .. 2 /\ good \in Nat
    BY ClockAssumption DEF IInv, TypeOK
  <1>2. /\ good > 0 => init_min < 2
        /\ good > 1 => init_min = 0
    BY DEF IInv, Begin
  <1>3. /\ init_min' = IF init_min > 0 THEN init_min - 1 ELSE init_min
        /\ phase' > 0 => n = 0
        /\ flawless => n = 1
        /\ steady' = IF fresh' THEN ~(e \in Stale) ELSE steady /\ ~(n = 0)
        /\ good' = IF ~flawless THEN 0
                   ELSE IF good < MinutesPerHour + 3 THEN good + 1 ELSE good
    <2>1. init_min' = IF init_min > 0 THEN init_min - 1 ELSE init_min
      BY Decodes, Zenon
    <2> QED
      BY <2>1, Zenon DEF Arrives, Record
  <1>4. fresh' => n = 1
    BY FreshFacts DEF IInv
  <1>5. init_min' \in 0 .. 1
    BY <1>1, <1>3
  <1>6. good' > 0 => init_min' < 2
    BY <1>5
  <1>7. good' > 1 => init_min' = 0
    BY <1>1, <1>2, <1>3
  <1>8. ASSUME phase' > 0
        PROVE  ~steady' /\ good' = 0
    <2>1. n = 0 /\ n # 1
      BY <1>3, <1>8
    <2>2. ~fresh' /\ ~flawless
      BY <1>3, <1>4, <2>1, Zenon
    <2> QED
      BY <1>3, <2>1, <2>2, Zenon
  <1> QED
    BY <1>5, <1>6, <1>7, <1>8 DEF Begin

LEMMA AheadStep ==
  ASSUME IInv, NEW n, NEW e, NEW minlen, NEW acc, NEW b, NEW flawless,
         Arrives(n, e, minlen, acc, b, flawless)
  PROVE  Ahead'
  <1>1. TypeOK /\ Legal /\ Begin /\ Ahead
    BY DEF IInv
  <1>2. /\ steady' = IF fresh' THEN ~(e \in Stale) ELSE steady /\ ~(n = 0)
        /\ sure' = IF fresh' THEN ~(e \in Stale) ELSE sure /\ Foreseen
        /\ n \in 0 .. 1 /\ missed' = 0
    BY DEF Arrives, Record, NewPiece
  <1>3. Now' = time'
    <2>1. AddMinutes(time', 0, dt_res'.dst_announce) = time'
      BY AddMinutesRecursion
    <2> QED
      BY <1>2, <2>1, Zenon DEF Now
  <1>4. SUFFICES ASSUME steady'
                 PROVE  /\ SameMinute(time', truth')
                        /\ sure' => SameHour(time', truth')
    BY <1>3, Zenon DEF Ahead, SameMinute, SameHour
  <1>5. CASE fresh'
    <2>1. SameTime(time', truth')
      BY <1>1, <1>2, <1>4, <1>5, FreshFacts
    <2> QED
      BY <2>1, Zenon DEF SameTime
  <1>6. CASE ~fresh'
    <2>1. time' = Old(acc)
      BY <1>6, NotFresh, Zenon
    <2>2. steady /\ n = 1 /\ (sure' => sure /\ Foreseen)
      <3>1. steady /\ n # 0 /\ (sure' => sure /\ Foreseen)
        BY <1>2, <1>4, <1>6, Zenon
      <3> QED
        BY <1>2, <3>1
    <2>3. phase = 0 /\ init_min < 2
      BY <1>1, <2>2, ReceptionAssumption DEF Begin, TypeOK
    <2>4. SameMinute(Now, truth) /\ (sure => SameHour(Now, truth))
      BY <1>1, <2>2, Zenon DEF Ahead
    <2>5. /\ SameMinute(Now, truth) => SameMinute(Old(acc), truth')
          /\ SameTime(Now, truth) /\ Foreseen => SameTime(Old(acc), truth')
      BY <1>1, <2>2, <2>3, OldOnTime, Zenon
    <2> QED
      BY <2>1, <2>2, <2>4, <2>5, Zenon DEF SameTime
  <1> QED
    BY <1>5, <1>6

\* A group is good when its bits are and, once known, it did not jump.
LEMMA GroupFacts ==
  ASSUME NEW minlen, NEW acc, NEW b, NEW ok \in Verdicts \cup {"impossible"},
         NEW jumped \in BOOLEAN, init_min = 0
  PROVE  /\ GroupResult(minlen, acc, b, ok, jumped) = "eval_ok" =>
              /\ GroupOK(ok, Taken(minlen, acc, b))
              /\ Taken(minlen, acc, b) => ~jumped
         /\ ok = "eval_ok" /\ ~jumped =>
              GroupResult(minlen, acc, b, ok, jumped) = "eval_ok"
  <1> DEFINE taken == Taken(minlen, acc, b)
             result == GroupResult(minlen, acc, b, ok, jumped)
  <1>1. result = GroupStatus(ok, taken, jumped)
    BY Zenon DEF GroupResult
  <1> HIDE DEF taken, result
  <1>2. CASE ok = "impossible"
    <2>1. result = IF taken THEN "eval_bcd" ELSE "eval_ok"
      <3>1. ok \notin {"eval_parity", "eval_bcd"} /\ ok # "eval_ok"
        BY <1>2
      <3> QED
        BY <1>1, <1>2, <3>1, Zenon DEF GroupStatus
    <2> QED
      BY <1>2, <2>1 DEF GroupOK, taken, result
  <1>3. CASE ok \in {"eval_parity", "eval_bcd"}
    <2>1. result = ok
      <3>1. ok # "impossible" /\ ok # "eval_ok"
        BY <1>3
      <3> QED
        BY <1>1, <1>3, <3>1, Zenon DEF GroupStatus
    <2> QED
      BY <1>3, <2>1 DEF result
  <1>4. CASE ok = "eval_ok"
    <2>1. ok # "impossible" /\ ok \notin {"eval_parity", "eval_bcd"}
      BY <1>4
    <2>2. taken /\ jumped => result = "eval_jump"
      BY <1>1, <1>4, <2>1, Zenon DEF GroupStatus
    <2>3. ~(taken /\ jumped) => result = "eval_ok"
      BY <1>1, <1>4, <2>1, Zenon DEF GroupStatus
    <2> QED
      BY <1>4, <2>2, <2>3 DEF GroupOK, taken, result
  <1> QED
    BY <1>2, <1>3, <1>4 DEF Verdicts

LEMMA SettableStep ==
  ASSUME IInv, NEW n, NEW e, NEW minlen, NEW acc, NEW b, NEW flawless,
         Arrives(n, e, minlen, acc, b, flawless)
  PROVE  SettableRight'
  <1>1. TypeOK /\ Legal /\ Begin /\ Ahead
    BY DEF IInv
  <1>2. SUFFICES ASSUME settable'
                 PROVE  \/ fresh' /\ time' = truth'
                        \/ astray'
                        \/ ~fresh' /\ dt_res'.dst_status = "eDST_done"
    BY Zenon DEF SettableRight
  <1>3. init_min = 0 /\ setclock_dt_ok(dt_res')
    BY <1>2, Decodes
  <1>4. /\ dt_res'.minute_length = "emin_ok" /\ dt_res'.bit0_ok /\ dt_res'.bit20_ok
        /\ dt_res'.minute_status = "eval_ok" /\ dt_res'.hour_status = "eval_ok"
        /\ dt_res'.date_status = "eval_ok"
        /\ dt_res'.dst_status \in {"eDST_ok", "eDST_done"}
    BY <1>3 DEF setclock_dt_ok
  <1>5. /\ Decoded(minlen, acc, b) /\ Results(minlen, acc, b)
        /\ Tells(e, b) /\ b \in BitsType
    BY <1>1, Decodes, BitsFacts, Zenon
  <1>6. /\ Leap(minlen, acc, b).length = "emin_ok"
        /\ Dst(minlen, acc, b).status \in {"eDST_ok", "eDST_done"}
        /\ dt_res'.dst_status = Dst(minlen, acc, b).status
        /\ GroupResult(minlen, acc, b, b.minute_ok, Old(acc).tm_min # b.minute) = "eval_ok"
        /\ GroupResult(minlen, acc, b, b.hour_ok, Old(acc).tm_hour # b.hour) = "eval_ok"
        /\ GroupResult(minlen, acc, b, b.date_ok, Old(acc).day # b.day) = "eval_ok"
    BY <1>4, <1>5, Zenon DEF Results
  <1>7. b.bit0 = 0
    <2>1. dt_res'.bit0_ok = (b.bit0 = 0)
      BY <1>5, Zenon DEF Results
    <2> QED
      BY <1>4, <2>1
  <1> DEFINE taken == Taken(minlen, acc, b)
  <1>8. /\ GroupOK(b.minute_ok, taken) /\ GroupOK(b.hour_ok, taken)
        /\ GroupOK(b.date_ok, taken)
        /\ taken => /\ Old(acc).tm_min = b.minute /\ Old(acc).tm_hour = b.hour
                    /\ Old(acc).day = b.day
    <2>1. /\ b.minute_ok \in Verdicts \cup {"impossible"}
          /\ b.hour_ok \in Verdicts \cup {"impossible"}
          /\ b.date_ok \in Verdicts \cup {"impossible"}
      BY <1>5 DEF BitsType
    <2>2. GroupOK(b.minute_ok, taken) /\ (taken => Old(acc).tm_min = b.minute)
      BY <1>3, <1>6, <2>1, GroupFacts
    <2>3. GroupOK(b.hour_ok, taken) /\ (taken => Old(acc).tm_hour = b.hour)
      BY <1>3, <1>6, <2>1, GroupFacts
    <2>4. GroupOK(b.date_ok, taken) /\ (taken => Old(acc).day = b.day)
      BY <1>3, <1>6, <2>1, GroupFacts
    <2> QED
      BY <2>2, <2>3, <2>4
  <1>9. CASE fresh'
    <2>1. /\ e \in Unnoticed /\ taken
          /\ time'.tm_min = b.minute /\ time'.tm_hour = b.hour /\ time'.day = truth'.day
          /\ init_min # 2 =>
               IF DstJumps(minlen, acc, b)
                 THEN olderr' /\ dt_res'.dst_status = "eDST_jump"
                 ELSE time'.tm_isdst = truth'.tm_isdst
      BY <1>1, <1>9, FreshFacts
    <2>2. time'.tm_isdst = truth'.tm_isdst
      BY <1>3, <1>4, <2>1
    <2>3. time' \in Time /\ truth' \in Time
      <3>1. TypeOK'
        BY TypeOKStep, Zenon
      <3> QED
        BY <3>1 DEF TypeOK, DecodeTimeTypeOK
    <2>4. SameTime(time', truth') => time' = truth'
      <3>1. ASSUME SameTime(time', truth')
            PROVE  time' = truth'
        <4>1. time'.tm_min = truth'.tm_min /\ time'.tm_hour = truth'.tm_hour
          BY <3>1 DEF SameTime, SameMinute, SameHour
        <4> QED
          BY <2>1, <2>2, <2>3, <4>1 DEF Time
      <3> QED
        BY <3>1
    <2>5. CASE e \notin Stale
      <3>1. SameTime(time', truth')
        BY <1>1, <1>9, <2>5, FreshFacts
      <3> QED
        BY <1>9, <2>4, <3>1
    <2>6. CASE e \in Stale
      <3>1. CASE steady /\ sure /\ Foreseen
        <4>1. SameTime(Now, truth)
          BY <1>1, <3>1, Zenon DEF Ahead, SameTime
        <4>2. n = 1 /\ phase = 0
          BY <1>1, <1>9, FreshFacts
        <4>3. SameTime(Old(acc), truth')
          BY <1>1, <1>3, <3>1, <4>1, <4>2, OldOnTime
        <4>4. SameTime(time', truth')
          BY <1>8, <2>1, <4>3 DEF SameTime, SameMinute, SameHour
        <4> QED
          BY <1>9, <2>4, <4>4
      <3>2. CASE ~(steady /\ sure /\ Foreseen)
        <4>1. astray' = (e \in Stale /\ ~(steady /\ sure /\ Foreseen))
          BY Zenon DEF Arrives, Record
        <4> QED
          BY <2>6, <3>2, <4>1
      <3> QED
        BY <3>1, <3>2
    <2> QED
      BY <2>5, <2>6
  <1>10. CASE ~fresh'
    <2>1. HandledLeap(minlen, acc, b) /\ HandledDst(minlen, acc, b)
      <3>1. init_min # 2 /\ b.bit59 = 0
        BY <1>3, <1>5 DEF Tells
      <3> QED
        BY <3>1, LeapFacts, DstFacts, Zenon
    <2>2. ~LeapFails(minlen, acc, b)
      <3>1. LeapFails(minlen, acc, b) =>
              Leap(minlen, acc, b).length \in {"emin_short", "emin_long"}
        BY <2>1, Zenon DEF HandledLeap
      <3> QED
        BY <1>6, <3>1
    <2>3. LengthStatus(minlen) = "emin_ok"
      <3>1. Leap(minlen, acc, b).length = LengthStatus(minlen)
        BY <2>1, <2>2, Zenon DEF HandledLeap
      <3> QED
        BY <1>6, <3>1
    <2>4. Calc(minlen, acc, b) # {}
      BY <1>1, <1>10, <2>2, FreshIff
    <2>5. ~Sane(minlen, b)
      <3> DEFINE calc == Calc(minlen, acc, b)
      <3>1. /\ calc \subseteq CalcFlags
            /\ "sanity" \in calc <=> ~Sane(minlen, b)
            /\ "minute" \notin calc /\ "hour" \notin calc /\ "date" \notin calc
        BY <1>1, <1>8, CalcFacts
      <3> HIDE DEF calc
      <3>2. calc # {}
        BY <2>4 DEF calc
      <3> QED
        BY <3>1, <3>2 DEF CalcFlags
    <2>6. b.bit17 = b.bit18
      BY <1>5, <1>7, <2>3, <2>5 DEF Sane, Tells
    <2>7. Dst(minlen, acc, b).status \in {"eDST_done", "eDST_error"}
      <3>1. Dst(minlen, acc, b).status =
              IF DstDue(minlen, acc, b) THEN "eDST_done"
              ELSE IF b.bit17 = b.bit18 THEN "eDST_error"
              ELSE IF DstJumps(minlen, acc, b) THEN "eDST_jump" ELSE "eDST_ok"
        BY <2>1, Zenon DEF HandledDst
      <3> QED
        BY <2>6, <3>1
    <2> QED
      BY <1>6, <1>10, <2>7
  <1> QED
    BY <1>9, <1>10
LEMMA GoodFacts ==
  ASSUME IInv, NEW n, NEW e, NEW minlen, NEW acc, NEW b, NEW flawless,
         Arrives(n, e, minlen, acc, b, flawless), good' > 0
  PROVE  /\ flawless /\ n = 1 /\ phase = 0
         /\ good \in 0 .. MinutesPerHour + 3
         /\ good' = IF good < MinutesPerHour + 3 THEN good + 1 ELSE good
         /\ good > 0 => init_min # 2
         /\ good > 1 => init_min = 0
  <1>1. good' = IF ~flawless THEN 0
                ELSE IF good < MinutesPerHour + 3 THEN good + 1 ELSE good
    BY Zenon DEF Arrives, Record
  <1>2. flawless
    BY <1>1
  <1>3. n = 1 /\ minlen \in {59, 60}
    BY <1>2 DEF Arrives
  <1>4. phase = 0
    BY <1>3 DEF Arrives
  <1>5. good \in 0 .. MinutesPerHour + 3 /\ init_min \in 0 .. 2
    BY DEF IInv, TypeOK
  <1>6. /\ good > 0 => init_min < 2
        /\ good > 1 => init_min = 0
    BY DEF IInv, Begin
  <1> QED
    BY <1>1, <1>2, <1>3, <1>4, <1>5, <1>6

LEMMA RefusedStep ==
  ASSUME IInv, NEW n, NEW e, NEW minlen, NEW acc, NEW b, NEW flawless,
         Arrives(n, e, minlen, acc, b, flawless)
  PROVE  Refused'
  <1>1. TypeOK /\ Legal /\ Begin /\ Refused /\ Accepted
    BY DEF IInv
  <1>2. SUFFICES
          ASSUME good' > 0, ~fresh'
          PROVE  /\ olderr'
                 /\ CASE good' = 1 -> time'.tm_min = 0 \/ truth'.tm_min = 0
                      [] good' = 2 -> <<time'.tm_min, truth'.tm_min>>
                                        \in {<<0, 0>>, <<1, 0>>, <<0, 1>>}
                      [] OTHER -> time'.tm_min = 0 /\ truth'.tm_min = 0
    BY Zenon DEF Refused
  <1>3. /\ flawless /\ good \in 0 .. MinutesPerHour + 3
        /\ good' = IF good < MinutesPerHour + 3 THEN good + 1 ELSE good
        /\ good > 0 => init_min # 2
    BY <1>2, GoodFacts
  <1>4. init_min # 2
    <2>1. ASSUME init_min = 2
          PROVE  FALSE
      <3>1. e \in Unnoticed /\ minlen \in {59, 60}
        BY <1>3 DEF Arrives, Unnoticed
      <3>2. NoErrors(minlen, acc, b)
        BY <1>1, <3>1, CalcFacts
      <3> QED
        BY <1>1, <1>2, <2>1, <3>2, FreshIff DEF NoErrors
    <2> QED
      BY <2>1
  <1>5. /\ olderr' /\ time' = Old(acc)
        /\ Old(acc).tm_min = 0 \/ truth'.tm_min = 0
    BY <1>1, <1>2, <1>3, <1>4, FlawlessFacts
  <1>6. /\ MinutesPerHour \in Nat /\ MinutesPerHour > 2
        /\ time.tm_min \in 0 .. MinutesPerHour - 1
        /\ truth.tm_min \in 0 .. MinutesPerHour - 1
        /\ Old(acc).tm_min = NextMinute(time.tm_min)
        /\ truth'.tm_min = NextMinute(truth.tm_min)
    BY <1>1, <1>3, <1>4, FlawlessPass
  <1> DEFINE m == time.tm_min
             r == truth.tm_min
  <1>7. NextMinute(m) = 0 \/ NextMinute(r) = 0
    BY <1>5, <1>6
  <1>8. /\ NextMinute(m) = 0 <=> m = MinutesPerHour - 1
        /\ NextMinute(r) = 0 <=> r = MinutesPerHour - 1
        /\ m = 0 => NextMinute(m) = 1
        /\ r = 0 => NextMinute(r) = 1
        /\ m = 1 => NextMinute(m) # 0
        /\ r = 1 => NextMinute(r) # 0
    BY <1>6 DEF NextMinute
  <1>9. good > 0 /\ fresh => m = r
    BY <1>1 DEF Accepted, SameTime, SameMinute
  <1>10. good = 1 /\ ~fresh => m = 0 \/ r = 0
    BY <1>1 DEF Refused
  <1>11. good > 1 /\ ~fresh => m \in {0, 1} /\ r \in {0, 1}
    BY <1>1, <1>3 DEF Refused
  <1> HIDE DEF m, r
  <1>12. good > 0 => <<NextMinute(m), NextMinute(r)>> \in {<<0, 0>>, <<1, 0>>, <<0, 1>>}
    <2>1. CASE fresh
      BY <1>7, <1>9, <2>1
    <2>2. CASE ~fresh /\ good = 1
      <3>1. CASE m = 0
        BY <1>7, <1>8, <3>1
      <3>2. CASE r = 0
        BY <1>7, <1>8, <3>2
      <3> QED
        BY <1>10, <2>2, <3>1, <3>2
    <2>3. CASE ~fresh /\ good > 1
      <3>1. /\ m = 0 \/ m = 1
            /\ r = 0 \/ r = 1
        BY <1>11, <2>3
      <3>2. NextMinute(m) # 0 /\ NextMinute(r) # 0
        BY <1>8, <3>1
      <3> QED
        BY <1>7, <3>2
    <2> QED
      BY <1>3, <2>1, <2>2, <2>3
  <1>13. good > 1 => NextMinute(m) = 0 /\ NextMinute(r) = 0
    <2>1. CASE fresh
      BY <1>3, <1>7, <1>9, <2>1
    <2>2. CASE ~fresh /\ good > 1
      <3>1. /\ m = 0 \/ m = 1
            /\ r = 0 \/ r = 1
        BY <1>11, <2>2
      <3>2. NextMinute(m) # 0 /\ NextMinute(r) # 0
        BY <1>8, <3>1
      <3> QED
        BY <1>7, <3>2
    <2> QED
      BY <2>1, <2>2
  <1>14. time'.tm_min = NextMinute(m) /\ truth'.tm_min = NextMinute(r)
    BY <1>5, <1>6 DEF m, r
  <1>15. /\ good' = 2 => good > 0
         /\ good' # 1 /\ good' # 2 => good > 1
    BY <1>2, <1>3, <1>6
  <1>16. CASE good' = 1
    BY <1>5, <1>7, <1>14, <1>16
  <1>17. CASE good' = 2
    BY <1>5, <1>12, <1>14, <1>15, <1>17
  <1>18. CASE good' # 1 /\ good' # 2
    BY <1>5, <1>13, <1>14, <1>15, <1>18
  <1> QED
    BY <1>16, <1>17, <1>18

LEMMA AcceptedStep ==
  ASSUME IInv, NEW n, NEW e, NEW minlen, NEW acc, NEW b, NEW flawless,
         Arrives(n, e, minlen, acc, b, flawless)
  PROVE  Accepted'
  <1>1. TypeOK /\ Legal /\ Begin /\ Refused /\ Accepted
    BY DEF IInv
  <1>2. SUFFICES
          ASSUME good' > 0, fresh'
          PROVE  /\ SameTime(time', truth')
                 /\ OffsetSoonRight'
                 /\ good' > 1 /\ truth'.tm_min > 0 => time' = truth'
    BY Zenon DEF Accepted, SameTime, SameMinute, SameHour
  <1>3. /\ flawless /\ good \in 0 .. MinutesPerHour + 3
        /\ good' = IF good < MinutesPerHour + 3 THEN good + 1 ELSE good
        /\ good > 0 => init_min # 2
    BY <1>2, GoodFacts
  <1>4. SameTime(time', truth') /\ OffsetSoonRight'
    <2>1. e \notin Stale
      BY <1>3 DEF Arrives, Stale
    <2> QED
      BY <1>1, <1>2, <2>1, FreshFacts
  <1>5. ASSUME good' > 1, truth'.tm_min > 0
        PROVE  time' = truth'
    <2>1. good > 0 /\ init_min # 2
      BY <1>3, <1>5, ClockAssumption
    <2>2. ~Wraps(truth)
      <3>1. /\ MinutesPerHour \in Nat /\ truth'.tm_min = NextMinute(truth.tm_min)
            /\ truth.tm_min \in 0 .. MinutesPerHour - 1
        BY <1>1, <1>3, <2>1, FlawlessPass
      <3> QED
        BY <1>5, <3>1 DEF Wraps, NextMinute
    <2>3. truth'.tm_isdst = truth.tm_isdst
      BY <1>1, <1>3, <2>1, <2>2, FlawlessPass
    <2>4. time.tm_isdst \in {-1, truth'.tm_isdst} \/ olderr
      <3>1. CASE fresh
        BY <1>1, <2>1, <2>3, <3>1 DEF Accepted, OffsetSoonRight
      <3>2. CASE ~fresh
        BY <1>1, <2>1, <3>2 DEF Refused
      <3> QED
        BY <3>1, <3>2
    <2>5. time'.tm_isdst = truth'.tm_isdst
      BY <1>1, <1>2, <1>3, <2>1, <2>4, OffsetFacts
    <2>6. time' \in Time /\ truth' \in Time
      <3>1. TypeOK'
        BY TypeOKStep, Zenon
      <3> QED
        BY <3>1 DEF TypeOK, DecodeTimeTypeOK
    <2> QED
      BY <1>4, <2>5, <2>6 DEF SameTime, SameMinute, SameHour, Time
  <1> QED
    BY <1>4, <1>5

LEMMA CountsFrom0Step ==
  ASSUME IInv, NEW n, NEW e, NEW minlen, NEW acc, NEW b, NEW flawless,
         Arrives(n, e, minlen, acc, b, flawless)
  PROVE  CountsFrom0'
  <1>1. SUFFICES ASSUME ~fresh', time'.tm_min = 0
                 PROVE  leap_count' = 0 /\ dst_count' = 0
    BY Zenon DEF CountsFrom0
  <1>2. Decoded(minlen, acc, b) /\ Tells(e, b)
    BY Decodes, BitsFacts, Zenon DEF IInv
  <1>3. /\ leap_count' = Leap(minlen, acc, b).count
        /\ dst_count' = Dst(minlen, acc, b).count
    BY <1>2, Zenon DEF Decoded
  <1>4. CASE init_min = 2
    <2>1. leap_count = 0 /\ dst_count = 0
      BY <1>4 DEF IInv, Begin
    <2> QED
      BY <1>3, <1>4, <2>1 DEF Leap, Dst, NoLeap, NoDST
  <1>5. CASE init_min # 2
    <2>1. Old(acc).tm_min = 0
      BY <1>1, NotFresh
    <2>2. HandledLeap(minlen, acc, b) /\ HandledDst(minlen, acc, b)
      <3>1. b.bit59 = 0
        BY <1>2, Zenon DEF Tells
      <3> QED
        BY <1>5, <3>1, LeapFacts, DstFacts, Zenon
    <2>3. /\ leap_count' = Restart(LeapCount(minlen, acc, b), Old(acc))
          /\ dst_count' = Restart(DstCount(minlen, acc, b), Old(acc))
      BY <1>3, <2>2, Zenon DEF HandledLeap, HandledDst
    <2> QED
      BY <2>1, <2>3, Zenon DEF Restart
  <1> QED
    BY <1>4, <1>5
LEMMA CountsStep ==
  ASSUME IInv, NEW n, NEW e, NEW minlen, NEW acc, NEW b, NEW flawless,
         Arrives(n, e, minlen, acc, b, flawless)
  PROVE  Counts'
  <1> DEFINE extra_dst == dst_count' - (IF dst_due' THEN truth'.tm_min ELSE 0)
             extra_leap == leap_count' - (IF leap_due' THEN truth'.tm_min ELSE 0)
  <1>1. TypeOK /\ Legal /\ Refused /\ Accepted /\ CountsFrom0 /\ Counts
    BY DEF IInv
  <1>2. SUFFICES
          ASSUME good' >= 2 + truth'.tm_min
          PROVE  /\ extra_dst \in {0, 1} /\ extra_leap \in {0, 1}
                 /\ extra_dst + extra_leap < 2
                 /\ good' >= 3 + truth'.tm_min => extra_dst + extra_leap = 0
                 /\ truth'.tm_min > 0 =>
                      /\ dt_res'.dst_announce <=> 2 * dst_count' > minute_count'
                      /\ dt_res'.leap_announce <=> 2 * leap_count' > minute_count'
    BY Zenon DEF Counts, Expected
  <1>3. truth'.tm_min \in Nat /\ good' \in Nat
    <2>1. TypeOK'
      BY TypeOKStep, Zenon
    <2>2. truth' \in Time /\ good' \in 0 .. MinutesPerHour + 3
      BY <2>1, Zenon DEF TypeOK
    <2> QED
      BY <2>2, ClockAssumption DEF Time
  <1>4. /\ flawless /\ good \in 0 .. MinutesPerHour + 3 /\ good > 0 /\ init_min # 2
        /\ good' = IF good < MinutesPerHour + 3 THEN good + 1 ELSE good
    <2>1. good' > 0
      BY <1>2, <1>3
    <2>2. /\ flawless /\ good \in 0 .. MinutesPerHour + 3
          /\ good' = IF good < MinutesPerHour + 3 THEN good + 1 ELSE good
          /\ good > 0 => init_min # 2
      BY <2>1, GoodFacts
    <2>3. good > 0
      BY <1>2, <1>3, <2>2, ClockAssumption
    <2> QED
      BY <2>2, <2>3
  <1>5. /\ MinutesPerHour \in Nat /\ MinutesPerHour > 2
        /\ time.tm_min \in 0 .. MinutesPerHour - 1
        /\ truth.tm_min \in 0 .. MinutesPerHour - 1
        /\ Old(acc).tm_min = NextMinute(time.tm_min)
        /\ truth'.tm_min = NextMinute(truth.tm_min)
        /\ ~Wraps(truth) => dst_due' = dst_due /\ leap_due' = leap_due
    BY <1>1, <1>4, FlawlessPass
  <1>6. /\ leap_count' = IF Old(acc).tm_min = 0 THEN 0 ELSE leap_count + Bit(leap_due)
        /\ fresh' =>
             dst_count' = IF Old(acc).tm_min = 0 THEN 0 ELSE dst_count + Bit(dst_due)
        /\ ~fresh' => dst_count' = IF Old(acc).tm_min = 0 THEN 0 ELSE dst_count
        /\ Old(acc).tm_min # 0 =>
             /\ dt_res'.leap_announce <=> 2 * leap_count' > minute_count'
             /\ dt_res'.dst_announce <=> 2 * dst_count' > minute_count'
    BY <1>1, <1>4, CountFacts
  <1>7. /\ leap_count \in Nat /\ dst_count \in Nat
        /\ dst_due \in BOOLEAN /\ leap_due \in BOOLEAN
    BY <1>1 DEF TypeOK, DecodeTimeTypeOK
  <1>8. fresh => time.tm_min = truth.tm_min
    BY <1>1, <1>4 DEF Accepted, SameTime, SameMinute
  <1>9. /\ ~fresh /\ good = 1 => time.tm_min = 0 \/ truth.tm_min = 0
        /\ ~fresh /\ good > 1 => time.tm_min \in {0, 1} /\ truth.tm_min \in {0, 1}
    BY <1>1, <1>4 DEF Refused
  <1>10. CASE Wraps(truth)
    <2>1. truth.tm_min = MinutesPerHour - 1 /\ truth'.tm_min = 0
      BY <1>5, <1>10 DEF Wraps, NextMinute
    <2>2. CASE fresh
      <3>1. Old(acc).tm_min = 0
        BY <1>5, <1>8, <2>1, <2>2
      <3>2. leap_count' = 0 /\ dst_count' = 0
        BY <1>6, <3>1
      <3> QED
        BY <2>1, <3>2
    <2>3. CASE ~fresh
      <3>1. good = 1 /\ time.tm_min = 0
        BY <1>4, <1>5, <1>9, <2>1, <2>3
      <3>2. leap_count = 0 /\ dst_count = 0
        BY <1>1, <2>3, <3>1 DEF CountsFrom0
      <3>3. ~(dst_due /\ leap_due)
        BY <1>1 DEF Legal, MayChange, MayLeap, TypeOK
      <3>4. good' = 2
        BY <1>4, <1>5, <3>1
      <3>5. /\ leap_count' \in {0, Bit(leap_due)} /\ dst_count' \in {0, Bit(dst_due)}
        BY <1>6, <3>2 DEF Bit
      <3>6. /\ leap_count' = 0 \/ (leap_due /\ leap_count' = 1)
            /\ dst_count' = 0 \/ (dst_due /\ dst_count' = 1)
        BY <3>5, Zenon DEF Bit
      <3>7. extra_dst = dst_count' /\ extra_leap = leap_count'
        <4>1. /\ (IF dst_due' THEN truth'.tm_min ELSE 0) = 0
              /\ (IF leap_due' THEN truth'.tm_min ELSE 0) = 0
          BY <2>1, Zenon
        <4>2. extra_dst = dst_count' - 0 /\ extra_leap = leap_count' - 0
          BY <4>1, Zenon
        <4>3. dst_count' - 0 = dst_count' /\ leap_count' - 0 = leap_count'
          BY <3>6
        <4> QED
          BY <4>2, <4>3, Zenon
      <3>8. ~(good' >= 3 + truth'.tm_min) /\ ~(truth'.tm_min > 0)
        BY <2>1, <3>4
      <3> HIDE DEF extra_dst, extra_leap
      <3>9. /\ extra_dst \in {0, 1} /\ extra_leap \in {0, 1}
            /\ extra_dst + extra_leap < 2
        BY <3>3, <3>6, <3>7
      <3> QED
        BY <3>8, <3>9, Zenon
    <2> QED
      BY <2>2, <2>3
  <1>11. CASE ~Wraps(truth)
    <2>1. truth'.tm_min = truth.tm_min + 1
      BY <1>5, <1>11 DEF Wraps, NextMinute
    <2>2. /\ good >= 2 + truth.tm_min
          /\ good' >= 3 + truth'.tm_min => good >= 3 + truth.tm_min
      BY <1>2, <1>4, <1>5, <2>1
    <2>3. Old(acc).tm_min # 0
      <3>1. CASE fresh
        <4>1. Old(acc).tm_min = truth.tm_min + 1
          BY <1>5, <1>8, <2>1, <3>1
        <4> QED
          BY <1>5, <4>1
      <3>2. CASE ~fresh
        <4>1. time.tm_min \in {0, 1}
          <5>1. good > 1
            BY <1>4, <1>5, <2>2
          <5> QED
            BY <1>9, <3>2, <5>1
        <4> QED
          BY <1>5, <4>1 DEF NextMinute
      <3> QED
        BY <3>1, <3>2
    <2>4. fresh'
      <3>1. truth'.tm_min # 0
        BY <1>5, <2>1
      <3>2. /\ fresh' <=> ~LeapFails(minlen, acc, b)
            /\ LeapFails(minlen, acc, b) <=>
                 IF leap_due /\ truth'.tm_min = 0
                   THEN ~(dt_res.leap_announce /\ Old(acc).tm_min = 0)
                   ELSE dt_res.leap_announce /\ Old(acc).tm_min = 0
        BY <1>1, <1>4, FlawlessFacts
      <3> QED
        BY <2>3, <3>1, <3>2
    <2>5. /\ leap_count' = leap_count + Bit(leap_due)
          /\ dst_count' = dst_count + Bit(dst_due)
      BY <1>6, <2>3, <2>4
    <2> DEFINE old_dst == dst_count - (IF dst_due THEN truth.tm_min ELSE 0)
               old_leap == leap_count - (IF leap_due THEN truth.tm_min ELSE 0)
    <2>6. /\ old_dst \in {0, 1} /\ old_leap \in {0, 1} /\ old_dst + old_leap < 2
          /\ good >= 3 + truth.tm_min => old_dst + old_leap = 0
      BY <1>1, <2>2 DEF Counts, Expected
    <2>7. extra_dst = old_dst
      BY <1>5, <1>7, <1>11, <2>1, <2>5 DEF Bit
    <2>8. extra_leap = old_leap
      BY <1>5, <1>7, <1>11, <2>1, <2>5 DEF Bit
    <2> HIDE DEF extra_dst, extra_leap, old_dst, old_leap
    <2> QED
      BY <1>6, <2>2, <2>3, <2>6, <2>7, <2>8
  <1> QED
    BY <1>10, <1>11

LEMMA SettableFacts ==
  ASSUME NEW n, NEW e, NEW minlen, NEW acc, NEW b, NEW flawless,
         Arrives(n, e, minlen, acc, b, flawless), TypeOK, Legal, flawless,
         init_min = 0, fresh', SameTime(Old(acc), truth'), ~DstJumps(minlen, acc, b)
  PROVE  settable'
  <1>1. /\ Decoded(minlen, acc, b) /\ Results(minlen, acc, b) /\ Tells(e, b)
        /\ e = "none" /\ minlen \in {59, 60}
    BY Decodes, BitsFacts, Zenon DEF Arrives
  <1>2. HandledLeap(minlen, acc, b) /\ HandledDst(minlen, acc, b)
    <2>1. init_min # 2 /\ b.bit59 = 0
      BY <1>1 DEF Tells
    <2> QED
      BY <2>1, LeapFacts, DstFacts, Zenon
  <1>3. /\ b.bit0 = 0 /\ b.bit20 = 1 /\ b.bit17 # b.bit18
        /\ b.minute_ok = "eval_ok" /\ b.hour_ok = "eval_ok" /\ b.date_ok = "eval_ok"
        /\ b.minute = truth'.tm_min /\ b.hour = truth'.tm_hour /\ b.day = truth'.day
    BY <1>1 DEF Tells
  <1>4. /\ (Old(acc).tm_min # b.minute) = FALSE
        /\ (Old(acc).tm_hour # b.hour) = FALSE
        /\ (Old(acc).day # b.day) = FALSE
    BY <1>3 DEF SameTime, SameMinute, SameHour
  <1>5. dt_res'.minute_length = "emin_ok"
    <2>1. LengthStatus(minlen) = "emin_ok"
      BY <1>1, CalcFacts, ZenonT(40)
    <2>2. ~LeapFails(minlen, acc, b)
      <3>1. init_min # 2
        OBVIOUS
      <3> QED
        BY <3>1, FreshIff
    <2> QED
      BY <1>1, <1>2, <2>1, <2>2, Zenon DEF HandledLeap, Results
  <1>6. dt_res'.bit0_ok /\ dt_res'.bit20_ok
    <2>1. dt_res'.bit0_ok = (b.bit0 = 0) /\ dt_res'.bit20_ok = (b.bit20 = 1)
      BY <1>1, Zenon DEF Results
    <2> QED
      BY <1>3, <2>1, Zenon
  <1>7. /\ dt_res'.minute_status = "eval_ok" /\ dt_res'.hour_status = "eval_ok"
        /\ dt_res'.date_status = "eval_ok"
    <2>1. "eval_ok" \in Verdicts \cup {"impossible"} /\ FALSE \in BOOLEAN
      BY DEF Verdicts
    <2>2. GroupResult(minlen, acc, b, "eval_ok", FALSE) = "eval_ok"
      BY <2>1, GroupFacts
    <2> QED
      BY <1>1, <1>3, <1>4, <2>2, ZenonT(40) DEF Results
  <1>8. dt_res'.dst_status \in {"eDST_ok", "eDST_done"}
    <2>1. Dst(minlen, acc, b).status \in {"eDST_ok", "eDST_done"}
      <3>1. Dst(minlen, acc, b).status =
              IF DstDue(minlen, acc, b) THEN "eDST_done"
              ELSE IF b.bit17 = b.bit18 THEN "eDST_error"
              ELSE IF DstJumps(minlen, acc, b) THEN "eDST_jump" ELSE "eDST_ok"
        BY <1>2, Zenon DEF HandledDst
      <3> QED
        BY <1>3, <3>1
    <2> QED
      BY <1>1, <2>1, Zenon DEF Results
  <1>9. dt_res'.leapsecond_status # "els_one"
    <2>1. dt_res'.leapsecond_status \in {"els_none", "els_done"}
      BY <1>1, <1>2, Zenon DEF HandledLeap, Results
    <2> QED
      BY <2>1
  <1>10. setclock_dt_ok(dt_res')
    BY <1>5, <1>6, <1>7, <1>8, <1>9 DEF setclock_dt_ok
  <1>11. settable' = (init_min = 0 /\ setclock_dt_ok(dt_res'))
    BY Decodes, Zenon
  <1> QED
    BY <1>10, <1>11, Zenon
LEMMA FullHourStep ==
  ASSUME IInv, NEW n, NEW e, NEW minlen, NEW acc, NEW b, NEW flawless,
         Arrives(n, e, minlen, acc, b, flawless)
  PROVE  FullHour'
  <1>1. TypeOK /\ Legal /\ Refused /\ Accepted /\ Counts /\ FullHour
    BY DEF IInv
  <1>2. SUFFICES
          ASSUME good' >= MinutesPerHour + 2
          PROVE  /\ SameTime(time', truth')
                 /\ OffsetSoonRight'
                 /\ (fresh' /\ time'.tm_isdst = truth'.tm_isdst) \/ olderr'
                 /\ good' = MinutesPerHour + 3 => time' = truth' /\ settable'
    BY Zenon DEF FullHour, SameTime, SameMinute, SameHour
  <1>3. /\ MinutesPerHour \in Nat /\ MinutesPerHour > 2
        /\ time' \in Time /\ truth' \in Time /\ good' \in Nat
    <2>1. TypeOK'
      BY TypeOKStep, Zenon
    <2>2. /\ DecodeTimeTypeOK' /\ truth' \in Time
          /\ good' \in 0 .. MinutesPerHour + 3
      BY <2>1, Zenon DEF TypeOK
    <2>3. time' \in Time
      BY <2>2, SMT DEF DecodeTimeTypeOK
    <2> QED
      BY <2>2, <2>3, ClockAssumption, ReceptionAssumption
  <1>4. /\ flawless /\ good \in 0 .. MinutesPerHour + 3 /\ init_min = 0
        /\ good >= MinutesPerHour + 1
        /\ good' = MinutesPerHour + 3 => good >= MinutesPerHour + 2
    <2>1. good' > 0
      BY <1>2, <1>3
    <2>2. /\ flawless /\ good \in 0 .. MinutesPerHour + 3
          /\ good' = IF good < MinutesPerHour + 3 THEN good + 1 ELSE good
          /\ good > 1 => init_min = 0
      BY <2>1, GoodFacts
    <2>3. /\ good >= MinutesPerHour + 1
          /\ good' = MinutesPerHour + 3 => good >= MinutesPerHour + 2
      BY <1>2, <1>3, <2>2
    <2> QED
      BY <1>3, <2>2, <2>3
  <1>5. good > 0 /\ good > 1 /\ good # 1 /\ good # 2 /\ init_min # 2
    BY <1>3, <1>4
  <1>6. /\ time.tm_min \in 0 .. MinutesPerHour - 1
        /\ truth.tm_min \in 0 .. MinutesPerHour - 1
        /\ Old(acc).tm_min = NextMinute(time.tm_min)
        /\ truth'.tm_min = NextMinute(truth.tm_min)
        /\ truth'.tm_isdst = TickOffset(truth)
        /\ SameTime(time, truth) /\ Foreseen => SameTime(Old(acc), truth')
        /\ ~Wraps(truth) => /\ truth'.tm_isdst = truth.tm_isdst
                            /\ SameTime(time, truth) => SameTime(Old(acc), truth')
    BY <1>1, <1>4, <1>5, FlawlessPass
  <1>7. /\ fresh' <=> ~LeapFails(minlen, acc, b)
        /\ LeapFails(minlen, acc, b) <=>
             IF leap_due /\ truth'.tm_min = 0
               THEN ~(dt_res.leap_announce /\ Old(acc).tm_min = 0)
               ELSE dt_res.leap_announce /\ Old(acc).tm_min = 0
        /\ ~fresh' => olderr' /\ time' = Old(acc)
        /\ fresh' => SameTime(time', truth')
    BY <1>1, <1>4, <1>5, FlawlessFacts
  <1>8. ~fresh => time.tm_min = 0 /\ truth.tm_min = 0
    BY <1>1, <1>5 DEF Refused
  <1>9. fresh => SameTime(time, truth) /\ time.tm_min = truth.tm_min
    BY <1>1, <1>5 DEF Accepted, SameTime, SameMinute
  <1>10. SameTime(time', truth') /\ time'.tm_isdst = truth'.tm_isdst => time' = truth'
    <2>1. ASSUME SameTime(time', truth'), time'.tm_isdst = truth'.tm_isdst
          PROVE  time' = truth'
      <3>1. /\ time'.tm_min = truth'.tm_min /\ time'.tm_hour = truth'.tm_hour
            /\ time'.day = truth'.day
        BY <2>1 DEF SameTime, SameMinute, SameHour
      <3> QED
        BY <1>3, <2>1, <3>1 DEF Time
    <2> QED
      BY <2>1
  <1>11. CASE ~Wraps(truth)
    <2>1. truth'.tm_min = truth.tm_min + 1 /\ truth'.tm_min > 0
      BY <1>3, <1>6, <1>11 DEF Wraps, NextMinute
    <2>2. Old(acc).tm_min # 0
      <3>1. CASE fresh
        <4>1. Old(acc).tm_min = NextMinute(truth.tm_min)
          BY <1>6, <1>9, <3>1, Zenon
        <4>2. Old(acc).tm_min = truth.tm_min + 1
          BY <1>6, <2>1, <4>1, Zenon
        <4> QED
          BY <2>1, <4>2
      <3>2. CASE ~fresh
        BY <1>3, <1>6, <1>8, <3>2 DEF NextMinute
      <3> QED
        BY <3>1, <3>2
    <2>3. fresh'
      BY <1>7, <2>1, <2>2
    <2>4. time' = truth' /\ SameTime(time', truth') /\ OffsetSoonRight'
      <3>1. Accepted'
        BY AcceptedStep, Zenon
      <3>2. good' > 0 /\ good' > 1
        BY <1>2, <1>3
      <3>3. /\ SameTime(time', truth') /\ OffsetSoonRight'
            /\ good' > 1 /\ truth'.tm_min > 0 => time' = truth'
        BY <2>3, <3>1, <3>2, Zenon DEF Accepted, SameTime, SameMinute, SameHour
      <3> QED
        BY <2>1, <3>2, <3>3, Zenon
    <2>5. ASSUME good' = MinutesPerHour + 3
          PROVE  settable'
      <3>1. SameTime(time, truth) /\ OffsetSoonRight
        BY <1>1, <1>4, <2>5 DEF FullHour
      <3>2. SameTime(Old(acc), truth')
        BY <1>6, <1>11, <3>1
      <3>3. time.tm_isdst \in {-1, truth'.tm_isdst} \/ olderr
        BY <1>6, <1>11, <3>1 DEF OffsetSoonRight
      <3>4. ~DstJumps(minlen, acc, b)
        BY <1>1, <1>4, <1>5, <2>3, <3>3, OffsetFacts
      <3> QED
        BY <1>1, <1>4, <2>3, <3>2, <3>4, SettableFacts
    <2> QED
      BY <2>3, <2>4, <2>5
  <1>12. CASE Wraps(truth)
    <2> DEFINE dst == dt_res.dst_announce
               leap == dt_res.leap_announce
    <2>1. truth.tm_min = MinutesPerHour - 1 /\ truth'.tm_min = 0
      BY <1>3, <1>6, <1>12 DEF Wraps, NextMinute
    <2>2. fresh /\ truth.tm_min > 0 /\ truth.tm_min # 0
      BY <1>3, <1>8, <2>1
    <2>3. time = truth /\ SameTime(time, truth) /\ Old(acc).tm_min = 0
      <3>1. time = truth
        BY <1>1, <1>5, <2>2 DEF Accepted
      <3> QED
        BY <1>6, <2>1, <3>1 DEF SameTime, SameMinute, SameHour
    <2>4. /\ dst_due => dst
          /\ leap_due => leap
          /\ ~((dst /\ ~dst_due) /\ (leap /\ ~leap_due))
          /\ good' = MinutesPerHour + 3 => (dst <=> dst_due) /\ (leap <=> leap_due)
      <3> DEFINE extra_dst == dst_count - (IF dst_due THEN truth.tm_min ELSE 0)
                 extra_leap == leap_count - (IF leap_due THEN truth.tm_min ELSE 0)
      <3>1. /\ good >= 2 + truth.tm_min
            /\ good' = MinutesPerHour + 3 => good >= 3 + truth.tm_min
        BY <1>3, <1>4, <2>1
      <3>2. /\ extra_dst \in {0, 1} /\ extra_leap \in {0, 1}
            /\ extra_dst + extra_leap < 2
            /\ good >= 3 + truth.tm_min => extra_dst + extra_leap = 0
            /\ truth.tm_min > 0 => /\ dst <=> 2 * dst_count > minute_count
                                   /\ leap <=> 2 * leap_count > minute_count
        BY <1>1, <3>1 DEF Counts, Expected
      <3>3. /\ minute_count \in 0 .. MinutesPerHour - 1
            /\ leap_count \in Nat /\ dst_count \in Nat
        BY <1>1 DEF TypeOK, DecodeTimeTypeOK
      <3>4. /\ dst_due => dst_count = MinutesPerHour - 1 + extra_dst
            /\ ~dst_due => dst_count = extra_dst
            /\ leap_due => leap_count = MinutesPerHour - 1 + extra_leap
            /\ ~leap_due => leap_count = extra_leap
        BY <1>3, <2>1, <3>3
      <3> HIDE DEF extra_dst, extra_leap
      <3>5. dst_due => dst
        BY <1>3, <2>2, <3>2, <3>3, <3>4
      <3>6. leap_due => leap
        BY <1>3, <2>2, <3>2, <3>3, <3>4
      <3>7. dst /\ ~dst_due => extra_dst = 1
        BY <2>2, <3>2, <3>3, <3>4
      <3>8. leap /\ ~leap_due => extra_leap = 1
        BY <2>2, <3>2, <3>3, <3>4
      <3>9. ~((dst /\ ~dst_due) /\ (leap /\ ~leap_due))
        BY <3>2, <3>7, <3>8
      <3>10. good' = MinutesPerHour + 3 => (dst <=> dst_due) /\ (leap <=> leap_due)
        <4>1. ASSUME good' = MinutesPerHour + 3
              PROVE  extra_dst # 1 /\ extra_leap # 1
          BY <3>1, <3>2, <4>1
        <4> QED
          BY <3>5, <3>6, <3>7, <3>8, <4>1
      <3> QED
        BY <3>5, <3>6, <3>9, <3>10
    <2>5. (dst <=> dst_due) => SameTime(Old(acc), truth')
      <3>1. dst \in BOOLEAN /\ dst_due \in BOOLEAN
        BY <1>1 DEF TypeOK, DecodeTimeTypeOK, DT_result
      <3>2. (dst <=> dst_due) => Foreseen
        BY <2>3, <3>1, Zenon DEF Foreseen
      <3> QED
        BY <1>6, <2>3, <3>2
    <2>6. LeapFails(minlen, acc, b) <=> leap /\ ~leap_due
      BY <1>7, <2>1, <2>3, <2>4
    <2>7. CASE leap /\ ~leap_due
      <3>1. ~fresh' /\ olderr' /\ time' = Old(acc)
        BY <1>7, <2>6, <2>7
      <3>2. dst <=> dst_due
        BY <2>4, <2>7
      <3>3. good' # MinutesPerHour + 3
        BY <2>4, <2>7
      <3>4. SameTime(time', truth')
        BY <2>5, <3>1, <3>2
      <3>5. OffsetSoonRight'
        BY <3>1 DEF OffsetSoonRight
      <3> QED
        BY <3>1, <3>3, <3>4, <3>5
    <2>8. CASE ~(leap /\ ~leap_due)
      <3>1. fresh'
        BY <1>7, <2>6, <2>8
      <3>2. SameTime(time', truth')
        BY <1>7, <3>1
      <3>3. (dst /\ Old(acc).tm_min = 0) \/ time.tm_isdst \in {-1, truth'.tm_isdst}
        <4>1. CASE dst
          BY <2>3, <4>1
        <4>2. CASE ~dst
          <5>1. truth'.tm_isdst = truth.tm_isdst
            BY <1>6, <2>4, <4>2 DEF TickOffset
          <5> QED
            BY <2>3, <5>1
        <4> QED
          BY <4>1, <4>2
      <3>4. time'.tm_isdst = truth'.tm_isdst /\ ~DstJumps(minlen, acc, b)
        BY <1>1, <1>4, <1>5, <3>1, <3>3, OffsetFacts
      <3>5. OffsetSoonRight'
        BY <3>4 DEF OffsetSoonRight
      <3>6. ASSUME good' = MinutesPerHour + 3
            PROVE  settable'
        <4>1. SameTime(Old(acc), truth')
          BY <2>4, <2>5, <3>6
        <4> QED
          BY <1>1, <1>4, <3>1, <3>4, <4>1, SettableFacts
      <3>7. time' = truth'
        BY <1>10, <3>2, <3>4
      <3> QED
        BY <3>1, <3>2, <3>4, <3>5, <3>6, <3>7
    <2> QED
      BY <2>7, <2>8
  <1> QED
    BY <1>11, <1>12

-----------------------------------------------------------------------------
LEMMA InitIInv ==
  ASSUME Init
  PROVE  IInv
  <1>1. /\ MinutesPerHour \in Nat /\ HoursPerDay \in Nat
        /\ MinutesPerHour > 2 /\ HoursPerDay > 3
        /\ StartHours \subseteq 0 .. HoursPerDay - 1
        /\ MaxMinutes \in Nat /\ MaxFaults \in Nat /\ MaxOutage \in Nat
    BY ClockAssumption, ReceptionAssumption
  <1>2. /\ minute_count = 0 /\ leap_count = 0 /\ dst_count = 0
        /\ acc_minlen_partial = 0 /\ olderr = FALSE
        /\ time = ZeroTime /\ fresh = FALSE
        /\ init_min = 2 /\ kept = Nothing /\ phase \in Cuts \cup {0}
        /\ missed = 0 /\ leapt = FALSE
        /\ minutes = 0 /\ faults = 0
        /\ published = FALSE /\ settable = FALSE
        /\ steady = FALSE /\ sure = FALSE /\ astray = FALSE
        /\ good = 0 /\ valid = 0
    BY DEF Init, DecodeTimeInit
  <1>3. dt_res \in DT_result
    <2>1. {"eval_ok"} \subseteq TVals
      BY DEF TVals, Verdicts
    <2> QED
      BY <2>1 DEF Init, DecodeTimeInit, DT_result
  <1>4. DecodeTimeTypeOK
    <2>1. 0 \in 0 .. MinutesPerHour - 1
      BY <1>1
    <2>2. ZeroTime \in Time
      BY <2>1 DEF ZeroTime, Time
    <2>3. time \in Time /\ minute_count \in 0 .. MinutesPerHour - 1
      BY <1>2, <2>1, <2>2, Zenon
    <2>4. /\ acc_minlen_partial \in Nat /\ acc_minlen_partial < 60000
          /\ leap_count \in Nat /\ dst_count \in Nat
      BY <1>2
    <2>5. olderr \in BOOLEAN /\ fresh \in BOOLEAN
      BY <1>2
    <2> QED
      BY <1>3, <2>3, <2>4, <2>5, SMT DEF DecodeTimeTypeOK
  <1>5. /\ truth \in Time /\ truth.tm_isdst \in {0, 1}
        /\ truth.tm_hour \in 0 .. HoursPerDay - 1 /\ truth.tm_min \in Nat
    <2>1. truth \in [tm_min : 0 .. MinutesPerHour - 1, tm_hour : StartHours,
                     day : {1}, tm_isdst : {0, 1}]
      BY Zenon DEF Init
    <2>2. /\ truth.tm_min \in 0 .. MinutesPerHour - 1 /\ truth.tm_hour \in StartHours
          /\ truth.day = 1 /\ truth.tm_isdst \in {0, 1}
          /\ truth = [tm_min |-> truth.tm_min, tm_hour |-> truth.tm_hour,
                      day |-> truth.day, tm_isdst |-> truth.tm_isdst]
      BY <2>1
    <2>3. /\ truth.tm_min \in Nat /\ truth.tm_hour \in 0 .. HoursPerDay - 1
          /\ truth.tm_hour \in Int /\ truth.day \in Nat
          /\ truth.tm_isdst \in {-1, 0, 1}
      BY <1>1, <2>2
    <2>4. truth \in Time
      BY <2>2, <2>3 DEF Time
    <2> QED
      BY <2>2, <2>3, <2>4
  <1>6. /\ dst_due \in BOOLEAN /\ leap_due \in BOOLEAN
        /\ dst_due => MayChange(truth)
        /\ leap_due => MayLeap(truth)
    BY Zenon DEF Init
  <1>7. kept \in [minute : {Unknown} \cup 0 .. MinutesPerHour - 1,
                  hour : {Unknown} \cup 0 .. HoursPerDay - 1]
    BY <1>2 DEF Nothing
  <1>8. TypeOK
    <2>1. /\ init_min \in 0 .. 2 /\ minutes \in 0 .. MaxMinutes /\ faults \in 0 .. MaxFaults
          /\ good \in 0 .. MinutesPerHour + 3 /\ valid \in 0 .. MinutesPerHour
          /\ missed \in 0 .. MaxOutage
      BY <1>1, <1>2
    <2>2. /\ published \in BOOLEAN /\ settable \in BOOLEAN
          /\ steady \in BOOLEAN /\ sure \in BOOLEAN /\ astray \in BOOLEAN
          /\ leapt \in BOOLEAN
      BY <1>2
    <2> QED
      BY <1>2, <1>4, <1>5, <1>6, <1>7, <2>1, <2>2, Zenon DEF TypeOK
  <1>9. Legal
    BY <1>2, <1>5, <1>6 DEF Legal
  <1>10. Begin /\ Ahead /\ SettableRight /\ Refused /\ Accepted /\ CountsFrom0
    BY <1>2 DEF Begin, Ahead, SettableRight, Refused, Accepted, CountsFrom0
  <1>11. Counts /\ FullHour
    BY <1>1, <1>2, <1>5 DEF Counts, FullHour
  <1> QED
    BY <1>8, <1>9, <1>10, <1>11 DEF IInv

\* A missed marker: the decoder is not called, legal time goes on.
LEMMA MissStep ==
  ASSUME IInv, MissMarker
  PROVE  IInv'
  <1>1. TypeOK /\ Legal /\ Begin /\ Ahead /\ CountsFrom0
    BY DEF IInv
  <1>2. /\ missed < MaxOutage /\ missed' = missed + 1 /\ leapt' = (leapt \/ LeapMinute)
        /\ Pass /\ Fault(missed = 0)
        /\ published' = FALSE /\ settable' = FALSE
        /\ kept' = Nothing
        /\ sure' = (sure /\ Foreseen) /\ astray' = FALSE /\ good' = 0
        /\ valid' = IF LastOfHour(truth) THEN 0 ELSE valid
    BY DEF MissMarker
  <1>3. /\ UNCHANGED decoderVars
        /\ init_min' = init_min /\ phase' = phase /\ steady' = steady
    BY Zenon DEF MissMarker
  <1>4. /\ minute_count' = minute_count /\ leap_count' = leap_count
        /\ dst_count' = dst_count /\ acc_minlen_partial' = acc_minlen_partial
        /\ olderr' = olderr /\ dt_res' = dt_res /\ time' = time /\ fresh' = fresh
    BY <1>3 DEF decoderVars, counters
  <1>5. /\ truth' \in Time /\ truth'.tm_isdst \in {0, 1}
        /\ truth'.tm_hour \in 0 .. HoursPerDay - 1
        /\ dst_due' \in BOOLEAN /\ leap_due' \in BOOLEAN
        /\ dst_due' => MayChange(truth')
        /\ leap_due' => MayLeap(truth')
        /\ minutes' \in 0 .. MaxMinutes
        /\ LastOfHour(truth) <=> Wraps(truth)
        /\ truth'.tm_min < truth.tm_min <=> Wraps(truth)
    BY <1>1, <1>2, PassFacts
  <1>6. /\ MinutesPerHour \in Nat /\ truth'.tm_min \in Nat /\ truth.tm_min \in Nat
        /\ MaxOutage \in Nat
    BY <1>1, <1>5, ClockAssumption, ReceptionAssumption DEF TypeOK, Time
  <1>7. TypeOK'
    <2>1. DecodeTimeTypeOK'
      BY <1>1, <1>4, SMT DEF TypeOK, DecodeTimeTypeOK
    <2>2. /\ init_min' \in 0 .. 2 /\ phase' \in Cuts \cup {0} /\ steady' \in BOOLEAN
          /\ missed' \in 0 .. MaxOutage
      <3>1. /\ init_min \in 0 .. 2 /\ phase \in Cuts \cup {0} /\ steady \in BOOLEAN
            /\ missed \in 0 .. MaxOutage
        BY <1>1 DEF TypeOK
      <3>2. missed' \in 0 .. MaxOutage
        BY <1>2, <1>6, <3>1
      <3> QED
        BY <1>3, <3>1, <3>2, Zenon
    <2>b. /\ leapt' \in BOOLEAN /\ sure' \in BOOLEAN /\ astray' \in BOOLEAN
          /\ published' \in BOOLEAN /\ settable' \in BOOLEAN
      BY <1>2, Zenon
    <2>3. kept' \in [minute : {Unknown} \cup 0 .. MinutesPerHour - 1,
                     hour : {Unknown} \cup 0 .. HoursPerDay - 1]
      BY <1>2 DEF Nothing
    <2>4. faults' \in 0 .. MaxFaults
      <3>1. faults \in 0 .. MaxFaults /\ (missed = 0) \in BOOLEAN
        BY <1>1 DEF TypeOK
      <3> QED
        BY <1>2, <3>1, FaultCount
    <2>5. good' \in 0 .. MinutesPerHour + 3 /\ valid' \in 0 .. MinutesPerHour
      BY <1>1, <1>2, <1>6 DEF TypeOK
    <2> QED
      BY <1>5, <2>1, <2>2, <2>b, <2>3, <2>4, <2>5, Zenon DEF TypeOK
  <1>8. Legal'
    <2>1. valid' <= truth'.tm_min
      BY <1>1, <1>2, <1>5, <1>6 DEF Legal, TypeOK
    <2> QED
      BY <1>5, <2>1, Zenon DEF Legal, MayChange, MayLeap
  <1>9. Begin'
    BY <1>1, <1>2, <1>3, <1>4, SMT DEF Begin
  <1>10. Ahead'
    <2> DEFINE s == AddMinutes(time, missed + 1, dt_res.dst_announce)
    <2>1. Now' = s
      BY <1>2, <1>4, Zenon DEF Now
    <2>2. /\ SameMinute(Now, truth) => SameMinute(s, truth')
          /\ SameTime(Now, truth) /\ Foreseen => SameTime(s, truth')
      <3>1. s = AddMinutes(time, missed + 1, dt_res.dst_announce)
        OBVIOUS
      <3> HIDE DEF s
      <3> QED
        BY <1>1, <1>2, <3>1, NextOnTime
    <2> HIDE DEF s
    <2>3. ASSUME steady'
          PROVE  SameMinute(s, truth') /\ (sure' => SameHour(s, truth'))
      <3>1. SameMinute(Now, truth) /\ (sure => SameHour(Now, truth))
        BY <1>1, <1>3, <2>3, Zenon DEF Ahead
      <3> QED
        BY <1>2, <2>2, <3>1, Zenon DEF SameTime
    <2> QED
      BY <2>1, <2>3, Zenon DEF Ahead, SameMinute, SameHour
  <1>11. CountsFrom0'
    BY <1>1, <1>4 DEF CountsFrom0
  <1>12. SettableRight' /\ Refused' /\ Accepted'
    BY <1>2 DEF SettableRight, Refused, Accepted
  <1>13. Counts' /\ FullHour'
    BY <1>2, <1>6 DEF Counts, FullHour
  <1> QED
    BY <1>7, <1>8, <1>9, <1>10, <1>11, <1>12, <1>13, Zenon DEF IInv

LEMMA NextIInv ==
  ASSUME IInv, [Next]_vars
  PROVE  IInv'
  <1>1. CASE MissMarker
    BY <1>1, MissStep
  <1>2. ASSUME NEW n, NEW e, NEW minlen, NEW acc, NEW b, NEW flawless,
               Arrives(n, e, minlen, acc, b, flawless)
        PROVE  IInv'
    <2>2. TypeOK' /\ Legal'
      BY <1>2, TypeOKStep, Zenon
    <2>3. Begin'
      BY <1>2, BeginStep, Zenon
    <2>4. Ahead'
      BY <1>2, AheadStep, Zenon
    <2>5. SettableRight'
      BY <1>2, SettableStep, Zenon
    <2>6. Refused'
      BY <1>2, RefusedStep, Zenon
    <2>7. Accepted'
      BY <1>2, AcceptedStep, Zenon
    <2>8. CountsFrom0'
      BY <1>2, CountsFrom0Step, Zenon
    <2>9. Counts'
      BY <1>2, CountsStep, Zenon
    <2>10. FullHour'
      BY <1>2, FullHourStep, Zenon
    <2> QED
      BY <2>2, <2>3, <2>4, <2>5, <2>6, <2>7, <2>8, <2>9, <2>10, Zenon DEF IInv
  <1>3. CASE Next
    <2>1. \/ MissMarker
          \/ \E n, e, minlen, acc, b, flawless :
               Arrives(n, e, minlen, acc, b, flawless)
      BY <1>3, Steps, Zenon DEF IInv
    <2> QED
      BY <1>1, <1>2, <2>1, Zenon
  <1>4. CASE UNCHANGED vars
    <2>1. Ahead'
      BY <1>4, Zenon
         DEF vars, decoderVars, transmitterVars, receptionVars, historyVars,
             IInv, Ahead, Now, SameMinute, SameHour
    <2>2. /\ TypeOK' /\ Legal' /\ Begin' /\ SettableRight'
          /\ Refused' /\ Accepted' /\ CountsFrom0' /\ Counts' /\ FullHour'
      BY <1>4, SMT
         DEF vars, decoderVars, counters, transmitterVars, receptionVars, resultVars,
             historyVars, IInv, TypeOK, DecodeTimeTypeOK, Legal, MayChange, MayLeap,
             Begin, OffsetSoonRight, SettableRight, Refused, Accepted, SameTime,
             SameMinute, SameHour, CountsFrom0, Counts, Expected, FullHour
    <2> QED
      BY <2>1, <2>2 DEF IInv
  <1> QED
    BY <1>3, <1>4

LEMMA SpecIInv == Spec => []IInv
  BY InitIInv, NextIInv, PTL DEF Spec

(***************************************************************************)
(* decode_time() and its callers keep their variables in their types: the  *)
(* counters, the time, the DT_result and the pending partial minute.       *)
(***************************************************************************)
THEOREM TypeCorrect == Spec => []TypeOK
  <1>1. IInv => TypeOK
    BY DEF IInv
  <1> QED
    BY <1>1, SpecIInv, PTL

(***************************************************************************)
(* increase_old_time() and add_minute() keep a decoder that once stamped a *)
(* time on time at every marker that is found, over outages of any length: *)
(* the minute while no minute is split, the hour and the day while no      *)
(* change of the offset comes as a surprise and no announcement is applied *)
(* where there is no change, as in a second full hour of an outage.        *)
(***************************************************************************)
THEOREM StaysOnTime == Spec => []OnTime
  <1>1. ASSUME IInv
        PROVE  OnTime
    <2>1. missed = 0 => Now = time
      BY <1>1, NowFacts DEF IInv
    <2> QED
      BY <1>1, <2>1 DEF IInv, Ahead, OnTime
  <1> QED
    BY <1>1, SpecIInv, PTL

(***************************************************************************)
(* What setclock_ok() lets through is the legal time with its offset, but  *)
(* for the two exceptions that SettableRight names.                        *)
(***************************************************************************)
THEOREM SettableIsRight == Spec => []SettableRight
  <1>1. IInv => SettableRight
    BY DEF IInv
  <1> QED
    BY <1>1, SpecIInv, PTL

(***************************************************************************)
(* Three minutes without error bring decode_time() back to the legal time, *)
(* whatever it was given before.                                           *)
(***************************************************************************)
THEOREM Resynchronises == Spec => []Resynchronised
  <1>1. ASSUME IInv
        PROVE  Resynchronised
    <2>1. good \in Nat /\ truth.tm_min \in Nat
      BY <1>1, ClockAssumption DEF IInv, TypeOK, Time
    <2>2. ASSUME good >= 3
          PROVE  /\ SameMinute(time, truth)
                 /\ truth.tm_min = 0 \/ time = truth
      <3>1. good > 0 /\ good > 1 /\ good # 1 /\ good # 2
        BY <2>1, <2>2
      <3>2. CASE fresh
        BY <1>1, <2>1, <3>1, <3>2 DEF IInv, Accepted, SameTime, SameMinute
      <3>3. CASE ~fresh
        BY <1>1, <3>1, <3>3 DEF IInv, Refused, SameMinute
      <3> QED
        BY <3>2, <3>3
    <2> QED
      BY <2>2 DEF Resynchronised
  <1> QED
    BY <1>1, SpecIInv, PTL

(***************************************************************************)
(* An hour and three minutes without error are enough for decode_time() to *)
(* be good for setclock_ok() in each minute that follows: the counts of    *)
(* the announcements are right, whatever was counted before.               *)
(***************************************************************************)
THEOREM GoodHourIsSettable == Spec => []GoodHourSettable
  <1>1. ASSUME IInv
        PROVE  GoodHourSettable
    <2>1. MinutesPerHour \in Nat
      BY ClockAssumption
    <2> QED
      BY <1>1, <2>1 DEF IInv, FullHour, GoodHourSettable
  <1> QED
    BY <1>1, SpecIInv, PTL
=============================================================================
