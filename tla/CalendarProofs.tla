--------------------------- MODULE CalendarProofs ---------------------------
(***************************************************************************)
(* Proofs about Calendar, for every time the program can start from and    *)
(* any number of minutes that pass.                                        *)
(***************************************************************************)
EXTENDS Calendar, TLAPS

\* A struct tm: some functions leave its ranges.
TimeRec == [tm_min : Int, tm_hour : Int, tm_mday : Int, tm_mon : Int,
            tm_year : Int, tm_wday : Int, tm_isdst : Int, tm_yday : Int]

IInv ==
  /\ TypeOK
  /\ time \in TimeRec
  /\ utc = Utc(time)

-----------------------------------------------------------------------------
(***************************************************************************)
(* Two times with the same fields are the same time.                       *)
(***************************************************************************)
LEMMA SameFields ==
  ASSUME NEW s \in TimeRec, NEW t \in TimeRec,
         s.tm_min = t.tm_min, s.tm_hour = t.tm_hour, s.tm_mday = t.tm_mday,
         s.tm_mon = t.tm_mon, s.tm_year = t.tm_year, s.tm_wday = t.tm_wday,
         s.tm_isdst = t.tm_isdst, s.tm_yday = t.tm_yday
  PROVE  s = t
  BY SMT DEF TimeRec

LEMMA DateType ==
  ASSUME NEW t \in TimeRec, NEW mday \in Int, NEW mon \in Int
  PROVE  [t EXCEPT !.tm_mday = mday, !.tm_mon = mon] \in TimeRec
  BY DEF TimeRec

(***************************************************************************)
(* The length of a month; lastday() looks at no other field.               *)
(***************************************************************************)
Last(mon, year) ==
  IF mon = 2 THEN IF isleapyear(year) THEN 29 ELSE 28
  ELSE IF mon \in {4, 6, 9, 11} THEN 30 ELSE 31

LEMMA LastdayIs ==
  ASSUME NEW t
  PROVE  lastday(t) = Last(t.tm_mon, t.tm_year)
  <1>1. CASE t.tm_mon = 2
    <2>1. t.tm_mon \notin {4, 6, 9, 11}
      BY <1>1
    <2> QED
      BY <1>1, <2>1, Zenon DEF lastday, Last
  <1>2. CASE t.tm_mon \in {4, 6, 9, 11}
    <2>1. t.tm_mon # 2
      BY <1>2
    <2> QED
      BY <1>2, <2>1, Zenon DEF lastday, Last
  <1>3. CASE t.tm_mon # 2 /\ t.tm_mon \notin {4, 6, 9, 11}
    BY <1>3, Zenon DEF lastday, Last
  <1> QED
    BY <1>1, <1>2, <1>3

LEMMA LastdayRange ==
  ASSUME NEW t
  PROVE  lastday(t) \in 28 .. 31
  BY LastdayIs DEF Last

(***************************************************************************)
(* What the steps from day to day do to the fields.                        *)
(***************************************************************************)
LEMMA NextDayFields ==
  ASSUME NEW t \in TimeRec, NEW n, n = NextDay(t)
  PROVE  /\ n \in TimeRec
         /\ n.tm_min = t.tm_min /\ n.tm_hour = 0
         /\ n.tm_isdst = t.tm_isdst /\ n.tm_yday = t.tm_yday
         /\ n.tm_wday = IF t.tm_wday = 7 THEN 1 ELSE t.tm_wday + 1
         /\ n.tm_mday = IF t.tm_mday < lastday(t) THEN t.tm_mday + 1 ELSE 1
         /\ n.tm_mon = IF t.tm_mday < lastday(t) THEN t.tm_mon
                       ELSE IF t.tm_mon < 12 THEN t.tm_mon + 1 ELSE 1
         /\ n.tm_year = IF t.tm_mday < lastday(t) \/ t.tm_mon < 12 THEN t.tm_year
                        ELSE IF t.tm_year = base_year + 399 THEN base_year
                        ELSE t.tm_year + 1
  <1> DEFINE wday == IF t.tm_wday = 7 THEN 1 ELSE t.tm_wday + 1
             d    == [t EXCEPT !.tm_wday = wday, !.tm_hour = 0]
             mday == t.tm_mday + 1
             mon  == t.tm_mon + 1
             year == IF t.tm_year = base_year + 399 THEN base_year ELSE t.tm_year + 1
  <1>1. /\ lastday(t) \in Int /\ base_year \in Int
        /\ t.tm_mday \in Int /\ t.tm_mon \in Int /\ t.tm_year \in Int
        /\ t.tm_wday \in Int
    BY LastdayRange DEF TimeRec, base_year
  <1>2. wday \in Int /\ mday \in Int /\ mon \in Int /\ year \in Int
    BY <1>1
  <1>3. d \in TimeRec
    <2> DEFINE zero == 0
    <2>1. zero \in Int /\ d = [t EXCEPT !.tm_wday = wday, !.tm_hour = zero]
      OBVIOUS
    <2> HIDE DEF zero, wday, d
    <2> QED  BY <1>2, <2>1 DEF TimeRec
  <1>4. /\ d.tm_min = t.tm_min /\ d.tm_hour = 0 /\ d.tm_wday = wday
        /\ d.tm_isdst = t.tm_isdst /\ d.tm_yday = t.tm_yday
        /\ d.tm_mday = t.tm_mday /\ d.tm_mon = t.tm_mon /\ d.tm_year = t.tm_year
    <2> HIDE DEF wday
    <2> QED  BY <1>2 DEF TimeRec
  <1>5. CASE t.tm_mday < lastday(t)
    <2>1. n = [d EXCEPT !.tm_mday = mday]
      <3>1. ~(t.tm_mday >= lastday(t))
        BY <1>1, <1>5
      <3> QED
        BY <1>5, <3>1, Zenon DEF NextDay
    <2> HIDE DEF wday, d, mday
    <2>2. n \in TimeRec
      BY <1>1, <1>2, <1>3, <2>1 DEF TimeRec
    <2>3. /\ n.tm_min = d.tm_min /\ n.tm_hour = d.tm_hour /\ n.tm_wday = d.tm_wday
          /\ n.tm_isdst = d.tm_isdst /\ n.tm_yday = d.tm_yday
          /\ n.tm_mday = mday /\ n.tm_mon = d.tm_mon /\ n.tm_year = d.tm_year
      BY <1>1, <1>2, <1>3, <2>1 DEF TimeRec
    <2> USE DEF wday, mday
    <2> QED
      BY <1>4, <1>5, <2>2, <2>3, Zenon
  <1>6. CASE ~(t.tm_mday < lastday(t)) /\ t.tm_mon < 12
    <2>1. n = [d EXCEPT !.tm_mday = 1, !.tm_mon = mon]
      <3>1. t.tm_mday >= lastday(t)
        BY <1>1, <1>6
      <3> QED
        BY <1>6, <3>1, Zenon DEF NextDay
    <2> HIDE DEF wday, d, mon
    <2>2. n \in TimeRec
      <3> DEFINE one == 1
      <3>1. one \in Int /\ n = [d EXCEPT !.tm_mday = one, !.tm_mon = mon]
        BY <2>1
      <3> HIDE DEF one
      <3>2. mon \in Int
        BY <1>2
      <3> QED  BY <1>3, <3>1, <3>2, DateType
    <2>3. /\ n.tm_min = d.tm_min /\ n.tm_hour = d.tm_hour /\ n.tm_wday = d.tm_wday
          /\ n.tm_isdst = d.tm_isdst /\ n.tm_yday = d.tm_yday
          /\ n.tm_mday = 1 /\ n.tm_mon = mon /\ n.tm_year = d.tm_year
      BY <1>1, <1>2, <1>3, <2>1 DEF TimeRec
    <2> USE DEF wday, mon
    <2> QED
      BY <1>4, <1>6, <2>2, <2>3, Zenon
  <1>7. CASE ~(t.tm_mday < lastday(t)) /\ ~(t.tm_mon < 12)
    <2>1. n = [d EXCEPT !.tm_mday = 1, !.tm_mon = 1, !.tm_year = year]
      BY <1>7, Zenon DEF NextDay
    <2> HIDE DEF wday, d, year
    <2>2. n \in TimeRec
      <3> DEFINE one == 1
      <3>1. one \in Int /\ n = [d EXCEPT !.tm_mday = one, !.tm_mon = one, !.tm_year = year]
        BY <2>1
      <3> HIDE DEF one
      <3> QED  BY <1>2, <1>3, <3>1 DEF TimeRec
    <2>3. /\ n.tm_min = d.tm_min /\ n.tm_hour = d.tm_hour /\ n.tm_wday = d.tm_wday
          /\ n.tm_isdst = d.tm_isdst /\ n.tm_yday = d.tm_yday
          /\ n.tm_mday = 1 /\ n.tm_mon = 1 /\ n.tm_year = year
      BY <1>1, <1>2, <1>3, <2>1 DEF TimeRec
    <2> USE DEF wday, year
    <2> QED
      BY <1>4, <1>7, <2>2, <2>3, Zenon
  <1> QED
    BY <1>5, <1>6, <1>7

LEMMA PreviousDayFields ==
  ASSUME NEW t \in TimeRec, t.tm_mday >= 1, NEW n, n = PreviousDay(t)
  PROVE  /\ n \in TimeRec
         /\ n.tm_min = t.tm_min /\ n.tm_hour = 23
         /\ n.tm_isdst = t.tm_isdst /\ n.tm_yday = t.tm_yday
         /\ n.tm_wday = IF t.tm_wday = 1 THEN 7 ELSE t.tm_wday - 1
         /\ n.tm_mon = IF t.tm_mday > 1 THEN t.tm_mon
                       ELSE IF t.tm_mon > 1 THEN t.tm_mon - 1 ELSE 12
         /\ n.tm_year = IF t.tm_mday > 1 \/ t.tm_mon > 1 THEN t.tm_year
                        ELSE IF t.tm_year = base_year THEN base_year + 399
                        ELSE t.tm_year - 1
         /\ n.tm_mday = IF t.tm_mday > 1 THEN t.tm_mday - 1
                        ELSE Last(n.tm_mon, n.tm_year)
  <1> DEFINE wday == IF t.tm_wday = 1 THEN 7 ELSE t.tm_wday - 1
             d    == [t EXCEPT !.tm_wday = wday, !.tm_hour = 23]
             mday == t.tm_mday - 1
             mon  == t.tm_mon - 1
             year == IF t.tm_year = base_year THEN base_year + 399 ELSE t.tm_year - 1
  <1>1. /\ base_year \in Int
        /\ t.tm_mday \in Int /\ t.tm_mon \in Int /\ t.tm_year \in Int
        /\ t.tm_wday \in Int
    BY DEF TimeRec, base_year
  <1>2. wday \in Int /\ mday \in Int /\ mon \in Int /\ year \in Int
    BY <1>1
  <1>3. d \in TimeRec
    <2> DEFINE eve == 23
    <2>1. eve \in Int /\ d = [t EXCEPT !.tm_wday = wday, !.tm_hour = eve]
      OBVIOUS
    <2> HIDE DEF eve, wday, d
    <2> QED  BY <1>2, <2>1 DEF TimeRec
  <1>4. /\ d.tm_min = t.tm_min /\ d.tm_hour = 23 /\ d.tm_wday = wday
        /\ d.tm_isdst = t.tm_isdst /\ d.tm_yday = t.tm_yday
        /\ d.tm_mday = t.tm_mday /\ d.tm_mon = t.tm_mon /\ d.tm_year = t.tm_year
    <2> HIDE DEF wday
    <2> QED  BY <1>2 DEF TimeRec
  <1>5. CASE t.tm_mday > 1
    <2>1. n = [d EXCEPT !.tm_mday = mday]
      <3>1. t.tm_mday # 1
        BY <1>1, <1>5
      <3> QED
        BY <1>5, <3>1, Zenon DEF PreviousDay
    <2> HIDE DEF wday, d, mday
    <2>2. n \in TimeRec
      BY <1>1, <1>2, <1>3, <2>1 DEF TimeRec
    <2>3. /\ n.tm_min = d.tm_min /\ n.tm_hour = d.tm_hour /\ n.tm_wday = d.tm_wday
          /\ n.tm_isdst = d.tm_isdst /\ n.tm_yday = d.tm_yday
          /\ n.tm_mday = mday /\ n.tm_mon = d.tm_mon /\ n.tm_year = d.tm_year
      BY <1>1, <1>2, <1>3, <2>1 DEF TimeRec
    <2> USE DEF wday, mday
    <2> QED
      BY <1>4, <1>5, <2>2, <2>3, Zenon
  <1>6. CASE t.tm_mday = 1 /\ t.tm_mon > 1
    <2> DEFINE last == [d EXCEPT !.tm_mon = mon]
               len  == lastday(last)
    <2>1. n = [last EXCEPT !.tm_mday = len]
      <3>1. ~(t.tm_mday > 1)
        BY <1>1, <1>6
      <3> QED
        BY <1>6, <3>1, Zenon DEF PreviousDay
    <2>2. len \in Int
      BY LastdayRange
    <2> HIDE DEF wday, d, mon, len
    <2>3. /\ last \in TimeRec
          /\ last.tm_min = d.tm_min /\ last.tm_hour = d.tm_hour
          /\ last.tm_wday = d.tm_wday
          /\ last.tm_isdst = d.tm_isdst /\ last.tm_yday = d.tm_yday
          /\ last.tm_mon = mon /\ last.tm_year = d.tm_year
      BY <1>2, <1>3 DEF TimeRec
    <2> HIDE DEF last
    <2>4. n \in TimeRec
      BY <2>1, <2>2, <2>3 DEF TimeRec
    <2>5. /\ n.tm_min = last.tm_min /\ n.tm_hour = last.tm_hour
          /\ n.tm_wday = last.tm_wday
          /\ n.tm_isdst = last.tm_isdst /\ n.tm_yday = last.tm_yday
          /\ n.tm_mday = len /\ n.tm_mon = last.tm_mon /\ n.tm_year = last.tm_year
      BY <2>1, <2>2, <2>3 DEF TimeRec
    <2>6. len = Last(last.tm_mon, last.tm_year)
      BY LastdayIs DEF len
    <2>7. ~(t.tm_mday > 1)
      BY <1>6
    <2> USE DEF wday, mon
    <2> QED
      BY <1>4, <1>6, <2>3, <2>4, <2>5, <2>6, <2>7, Zenon
  <1>7. CASE t.tm_mday = 1 /\ ~(t.tm_mon > 1)
    <2> DEFINE last == [d EXCEPT !.tm_mon = 12, !.tm_year = year]
               len  == lastday(last)
    <2>1. n = [last EXCEPT !.tm_mday = len]
      <3>1. ~(t.tm_mday > 1)
        BY <1>1, <1>7
      <3> QED
        BY <1>7, <3>1, Zenon DEF PreviousDay
    <2>2. len \in Int
      BY LastdayRange
    <2> HIDE DEF wday, d, year, len
    <2>3. last \in TimeRec
      <3> DEFINE dec == 12
      <3>1. dec \in Int /\ last = [d EXCEPT !.tm_mon = dec, !.tm_year = year]
        OBVIOUS
      <3> HIDE DEF dec, last
      <3> QED  BY <1>2, <1>3, <3>1 DEF TimeRec
    <2>4. /\ last.tm_min = d.tm_min /\ last.tm_hour = d.tm_hour
          /\ last.tm_wday = d.tm_wday
          /\ last.tm_isdst = d.tm_isdst /\ last.tm_yday = d.tm_yday
          /\ last.tm_mon = 12 /\ last.tm_year = year
      BY <1>2, <1>3 DEF TimeRec
    <2> HIDE DEF last
    <2>5. n \in TimeRec
      BY <2>1, <2>2, <2>3 DEF TimeRec
    <2>6. /\ n.tm_min = last.tm_min /\ n.tm_hour = last.tm_hour
          /\ n.tm_wday = last.tm_wday
          /\ n.tm_isdst = last.tm_isdst /\ n.tm_yday = last.tm_yday
          /\ n.tm_mday = len /\ n.tm_mon = last.tm_mon /\ n.tm_year = last.tm_year
      BY <2>1, <2>2, <2>3 DEF TimeRec
    <2>7. len = Last(last.tm_mon, last.tm_year)
      BY LastdayIs DEF len
    <2>8. ~(t.tm_mday > 1)
      BY <1>7
    <2> USE DEF wday, year
    <2> QED
      BY <1>4, <1>7, <2>4, <2>5, <2>6, <2>7, <2>8, Zenon
  <1>8. t.tm_mday > 1 \/ t.tm_mday = 1
    BY <1>1
  <1> QED
    BY <1>5, <1>6, <1>7, <1>8

-----------------------------------------------------------------------------
(***************************************************************************)
(* The days that precede the months of a leap year.                        *)
(***************************************************************************)
LEMMA DaysBefore ==
  /\ dayinleapyear[1] = 0
  /\ dayinleapyear[2] = 31
  /\ dayinleapyear[3] = 60
  /\ dayinleapyear[4] = 91
  /\ dayinleapyear[5] = 121
  /\ dayinleapyear[6] = 152
  /\ dayinleapyear[7] = 182
  /\ dayinleapyear[8] = 213
  /\ dayinleapyear[9] = 244
  /\ dayinleapyear[10] = 274
  /\ dayinleapyear[11] = 305
  /\ dayinleapyear[12] = 335
  BY DEF dayinleapyear

(***************************************************************************)
(* The days of the months of a year, counted from its first day, against   *)
(* the Julian day number.                                                  *)
(***************************************************************************)
LEMMA DayOfYearRight ==
  ASSUME NEW year \in Int, NEW mon \in 1 .. 12, NEW mday \in Int
  PROVE  DayNumber(year, mon, mday)
           = DayNumber(year, 1, 1) + DayOfYear(year, mon, mday) - 1
  <1>1. CASE mon = 1
    BY <1>1, DaysBefore DEF DayNumber, DayOfYear, isleapyear
  <1>2. CASE mon = 2
    BY <1>2, DaysBefore DEF DayNumber, DayOfYear, isleapyear
  <1>3. CASE mon = 3
    BY <1>3, DaysBefore DEF DayNumber, DayOfYear, isleapyear
  <1>4. CASE mon = 4
    BY <1>4, DaysBefore DEF DayNumber, DayOfYear, isleapyear
  <1>5. CASE mon = 5
    BY <1>5, DaysBefore DEF DayNumber, DayOfYear, isleapyear
  <1>6. CASE mon = 6
    BY <1>6, DaysBefore DEF DayNumber, DayOfYear, isleapyear
  <1>7. CASE mon = 7
    BY <1>7, DaysBefore DEF DayNumber, DayOfYear, isleapyear
  <1>8. CASE mon = 8
    BY <1>8, DaysBefore DEF DayNumber, DayOfYear, isleapyear
  <1>9. CASE mon = 9
    BY <1>9, DaysBefore DEF DayNumber, DayOfYear, isleapyear
  <1>10. CASE mon = 10
    BY <1>10, DaysBefore DEF DayNumber, DayOfYear, isleapyear
  <1>11. CASE mon = 11
    BY <1>11, DaysBefore DEF DayNumber, DayOfYear, isleapyear
  <1>12. CASE mon = 12
    BY <1>12, DaysBefore DEF DayNumber, DayOfYear, isleapyear
  <1> QED
    BY <1>1, <1>2, <1>3, <1>4, <1>5, <1>6, <1>7, <1>8, <1>9, <1>10, <1>11, <1>12

(***************************************************************************)
(* The day numbers of days that follow each other.                         *)
(***************************************************************************)
LEMMA DayNumberType ==
  ASSUME NEW year \in Int, NEW mon \in Int, NEW mday \in Int
  PROVE  DayNumber(year, mon, mday) \in Int
  BY DEF DayNumber

LEMMA FollowingDay ==
  ASSUME NEW year \in Int, NEW mon \in Int, NEW mday \in Int
  PROVE  DayNumber(year, mon, mday + 1) = DayNumber(year, mon, mday) + 1
  BY DEF DayNumber

LEMMA PrecedingDay ==
  ASSUME NEW year \in Int, NEW mon \in Int, NEW mday \in Int
  PROVE  DayNumber(year, mon, mday - 1) = DayNumber(year, mon, mday) - 1
  BY DEF DayNumber

LEMMA DayAfterFebruary ==
  ASSUME NEW year \in Int, NEW mon \in 3 .. 12, NEW mday \in Int,
         NEW d, d = dayinleapyear[mon] + mday
  PROVE  /\ isleapyear(year) => DayOfYear(year, mon, mday) = d
         /\ ~isleapyear(year) => DayOfYear(year, mon, mday) = d - 1
  BY DaysBefore DEF DayOfYear

LEMMA FollowingMonth ==
  ASSUME NEW year \in Int, NEW mon \in 1 .. 11
  PROVE  DayNumber(year, mon + 1, 1) = DayNumber(year, mon, Last(mon, year)) + 1
  <1>1. DayNumber(year, mon + 1, 1)
          = DayNumber(year, 1, 1) + DayOfYear(year, mon + 1, 1) - 1
    BY DayOfYearRight
  <1>2. Last(mon, year) \in Int
    BY DEF Last
  <1>3. DayNumber(year, mon, Last(mon, year))
          = DayNumber(year, 1, 1) + DayOfYear(year, mon, Last(mon, year)) - 1
    BY <1>2, DayOfYearRight
  <1>4. DayOfYear(year, mon + 1, 1) = DayOfYear(year, mon, Last(mon, year)) + 1
    BY DaysBefore DEF DayOfYear, Last
  <1>5. DayNumber(year, 1, 1) \in Int
    BY DayNumberType
  <1>6. /\ DayOfYear(year, mon, Last(mon, year)) \in Int
        /\ DayOfYear(year, mon + 1, 1) \in Int
    BY <1>2, DaysBefore DEF DayOfYear
  <1> QED
    BY <1>1, <1>3, <1>4, <1>5, <1>6

LEMMA FollowingYear ==
  ASSUME NEW year \in Int
  PROVE  DayNumber(year + 1, 1, 1) = DayNumber(year, 12, 31) + 1
  BY DEF DayNumber

LEMMA Cycle ==
  DayNumber(base_year, 1, 1) = DayNumber(base_year + 399, 12, 31) + 1 - 146097
  BY DEF DayNumber, base_year

(***************************************************************************)
(* The days of the 400 years.                                              *)
(***************************************************************************)
LEMMA DayBounds ==
  ASSUME NEW year \in base_year .. base_year + 399, NEW mon \in 1 .. 12,
         NEW mday \in 1 .. Last(mon, year)
  PROVE  /\ DayNumber(year, mon, mday) >= DayNumber(base_year, 1, 1)
         /\ DayNumber(year, mon, mday) <= DayNumber(base_year, 1, 1) + 146096
  <1>1. year \in Int /\ base_year \in Int /\ mday \in Int
    BY DEF base_year, Last
  <1>2. DayNumber(year, mon, mday)
          = DayNumber(year, 1, 1) + DayOfYear(year, mon, mday) - 1
    BY <1>1, DayOfYearRight
  <1>3. /\ DayOfYear(year, mon, mday) >= 1
        /\ DayOfYear(year, mon, mday) <= IF isleapyear(year) THEN 366 ELSE 365
    BY <1>1, DaysBefore DEF DayOfYear, Last
  <1>4. /\ DayNumber(year, 1, 1) >= DayNumber(base_year, 1, 1)
        /\ DayNumber(year, 1, 1) + (IF isleapyear(year) THEN 366 ELSE 365) - 1
             <= DayNumber(base_year, 1, 1) + 146096
    BY DEF DayNumber, base_year, isleapyear
  <1>5. DayOfYear(year, mon, mday) \in Int
    BY <1>1, DaysBefore DEF DayOfYear
  <1>6. DayNumber(year, 1, 1) \in Int /\ DayNumber(base_year, 1, 1) \in Int
    <2>1. 1 \in Int
      OBVIOUS
    <2> QED
      BY <1>1, <2>1, DayNumberType, Zenon
  <1> QED
    BY <1>2, <1>3, <1>4, <1>5, <1>6

(***************************************************************************)
(* The weekday of the next day, and of the one before.                     *)
(***************************************************************************)
LEMMA FollowingWeekday ==
  ASSUME NEW x \in Int
  PROVE  /\ ((x + 1) % 7) + 1 = IF (x % 7) + 1 = 7 THEN 1 ELSE (x % 7) + 2
         /\ (x + 1 - 146097) % 7 = (x + 1) % 7
         /\ ((x - 1) % 7) + 1 = IF (x % 7) + 1 = 1 THEN 7 ELSE x % 7
         /\ (x - 1 + 146097) % 7 = (x - 1) % 7
  OBVIOUS

-----------------------------------------------------------------------------
(***************************************************************************)
(* The date of a valid time, and the days next to it.                      *)
(***************************************************************************)
ValidDate(t) ==
  /\ t.tm_mon \in 1 .. 12 /\ t.tm_mday \in 1 .. lastday(t)
  /\ t.tm_year \in base_year .. base_year + 399
  /\ t.tm_wday = Weekday(t.tm_year, t.tm_mon, t.tm_mday)

LEMMA DayType ==
  ASSUME NEW t \in TimeRec
  PROVE  Day(t) \in Int
  BY DayNumberType DEF Day, TimeRec

LEMMA NextDayRight ==
  ASSUME NEW t \in TimeRec, ValidDate(t), NEW n, n = NextDay(t)
  PROVE  /\ ValidDate(n)
         /\ Day(n) = Day(t) + 1 \/ Day(n) = Day(t) + 1 - 146097
  <1>1. /\ n \in TimeRec
        /\ n.tm_wday = IF t.tm_wday = 7 THEN 1 ELSE t.tm_wday + 1
        /\ n.tm_mday = IF t.tm_mday < lastday(t) THEN t.tm_mday + 1 ELSE 1
        /\ n.tm_mon = IF t.tm_mday < lastday(t) THEN t.tm_mon
                      ELSE IF t.tm_mon < 12 THEN t.tm_mon + 1 ELSE 1
        /\ n.tm_year = IF t.tm_mday < lastday(t) \/ t.tm_mon < 12 THEN t.tm_year
                       ELSE IF t.tm_year = base_year + 399 THEN base_year
                       ELSE t.tm_year + 1
    BY NextDayFields
  <1>2. /\ lastday(t) = Last(t.tm_mon, t.tm_year)
        /\ lastday(n) = Last(n.tm_mon, n.tm_year)
    BY LastdayIs
  <1>3. lastday(t) \in 28 .. 31 /\ lastday(n) \in 28 .. 31
    BY LastdayRange
  <1>4. /\ t.tm_mday \in Int /\ t.tm_mon \in Int /\ t.tm_year \in Int
        /\ base_year \in Int
    BY DEF TimeRec, base_year
  <1>5. /\ t.tm_mon \in 1 .. 12 /\ t.tm_mday \in 1 .. lastday(t)
        /\ t.tm_year \in base_year .. base_year + 399
        /\ t.tm_wday = (Day(t) % 7) + 1
    BY DEF ValidDate, Weekday, Day
  <1>6. Day(t) \in Int /\ Day(n) \in Int
    BY <1>1, DayType
  <1>7. Day(n) = Day(t) + 1 \/ Day(n) = Day(t) + 1 - 146097
    <2>1. CASE t.tm_mday < lastday(t)
      BY <1>1, <1>4, <2>1, FollowingDay, SMTT(40) DEF Day
    <2>2. CASE ~(t.tm_mday < lastday(t)) /\ t.tm_mon < 12
      <3>1. t.tm_mday = lastday(t)
        BY <1>3, <1>5, <2>2
      <3>2. t.tm_mon \in 1 .. 11
        BY <1>5, <2>2
      <3> QED
        BY <1>1, <1>2, <1>4, <2>2, <3>1, <3>2, FollowingMonth DEF Day
    <2>3. CASE ~(t.tm_mday < lastday(t)) /\ ~(t.tm_mon < 12)
      <3>1. t.tm_mon = 12
        BY <1>5, <2>3
      <3>2. t.tm_mday = 31
        BY <1>2, <1>3, <1>5, <2>3, <3>1 DEF Last
      <3>3. n.tm_mon = 1 /\ n.tm_mday = 1
        BY <1>1, <2>3
      <3>4. CASE t.tm_year = base_year + 399
        <4>1. n.tm_year = base_year
          BY <1>1, <2>3, <3>4
        <4> QED
          BY <3>1, <3>2, <3>3, <3>4, <4>1, Cycle DEF Day
      <3>5. CASE t.tm_year # base_year + 399
        <4>1. n.tm_year = t.tm_year + 1
          BY <1>1, <2>3, <3>5
        <4> QED
          BY <1>4, <3>1, <3>2, <3>3, <4>1, FollowingYear DEF Day
      <3> QED
        BY <3>4, <3>5
    <2> QED
      BY <2>1, <2>2, <2>3
  <1>8. n.tm_wday = (Day(n) % 7) + 1
    BY <1>1, <1>5, <1>6, <1>7, FollowingWeekday
  <1>9. /\ n.tm_mon \in 1 .. 12 /\ n.tm_mday \in 1 .. lastday(n)
        /\ n.tm_year \in base_year .. base_year + 399
    <2>1. CASE t.tm_mday < lastday(t)
      <3>1. lastday(n) = lastday(t)
        BY <1>1, <1>2, <2>1
      <3> QED
        BY <1>1, <1>3, <1>5, <2>1, <3>1
    <2>2. CASE ~(t.tm_mday < lastday(t))
      BY <1>1, <1>3, <1>4, <1>5, <2>2
    <2> QED
      BY <2>1, <2>2
  <1> QED
    BY <1>7, <1>8, <1>9 DEF ValidDate, Weekday, Day

LEMMA PreviousDayRight ==
  ASSUME NEW t \in TimeRec, ValidDate(t), NEW n, n = PreviousDay(t)
  PROVE  /\ ValidDate(n)
         /\ Day(n) = Day(t) - 1 \/ Day(n) = Day(t) - 1 + 146097
  <1>0. t.tm_mday >= 1
    BY LastdayRange DEF ValidDate
  <1>1. /\ n \in TimeRec
        /\ n.tm_wday = IF t.tm_wday = 1 THEN 7 ELSE t.tm_wday - 1
        /\ n.tm_mon = IF t.tm_mday > 1 THEN t.tm_mon
                      ELSE IF t.tm_mon > 1 THEN t.tm_mon - 1 ELSE 12
        /\ n.tm_year = IF t.tm_mday > 1 \/ t.tm_mon > 1 THEN t.tm_year
                       ELSE IF t.tm_year = base_year THEN base_year + 399
                       ELSE t.tm_year - 1
        /\ n.tm_mday = IF t.tm_mday > 1 THEN t.tm_mday - 1
                       ELSE Last(n.tm_mon, n.tm_year)
    BY <1>0, PreviousDayFields
  <1>2. /\ lastday(t) = Last(t.tm_mon, t.tm_year)
        /\ lastday(n) = Last(n.tm_mon, n.tm_year)
    BY LastdayIs
  <1>3. lastday(t) \in 28 .. 31 /\ lastday(n) \in 28 .. 31
    BY LastdayRange
  <1>4. /\ t.tm_mday \in Int /\ t.tm_mon \in Int /\ t.tm_year \in Int
        /\ n.tm_mday \in Int /\ n.tm_year \in Int /\ base_year \in Int
    BY <1>1 DEF TimeRec, base_year
  <1>5. /\ t.tm_mon \in 1 .. 12 /\ t.tm_mday \in 1 .. lastday(t)
        /\ t.tm_year \in base_year .. base_year + 399
        /\ t.tm_wday = (Day(t) % 7) + 1
    BY DEF ValidDate, Weekday, Day
  <1>6. Day(t) \in Int /\ Day(n) \in Int
    BY <1>1, DayType
  <1>7. Day(n) = Day(t) - 1 \/ Day(n) = Day(t) - 1 + 146097
    <2>1. CASE t.tm_mday > 1
      <3>1. n.tm_mday = t.tm_mday - 1 /\ n.tm_mon = t.tm_mon /\ n.tm_year = t.tm_year
        BY <1>1, <2>1
      <3>2. Day(n) = Day(t) - 1
        BY <1>4, <3>1, PrecedingDay, SMTT(40) DEF Day
      <3> QED
        BY <3>2
    <2>2. CASE ~(t.tm_mday > 1) /\ t.tm_mon > 1
      <3>1. t.tm_mday = 1
        BY <1>3, <1>5, <2>2
      <3>2. /\ n.tm_mon \in 1 .. 11 /\ n.tm_mon + 1 = t.tm_mon
            /\ n.tm_year = t.tm_year
            /\ n.tm_mday = Last(n.tm_mon, n.tm_year)
        BY <1>1, <1>5, <2>2
      <3>3. DayNumber(n.tm_year, n.tm_mon + 1, 1)
              = DayNumber(n.tm_year, n.tm_mon, Last(n.tm_mon, n.tm_year)) + 1
        BY <1>4, <3>2, FollowingMonth
      <3>4. Day(t) = Day(n) + 1
        BY <3>1, <3>2, <3>3 DEF Day
      <3> QED
        BY <1>6, <3>4
    <2>3. CASE ~(t.tm_mday > 1) /\ ~(t.tm_mon > 1)
      <3>1. t.tm_mday = 1 /\ t.tm_mon = 1
        BY <1>3, <1>5, <2>3
      <3>2. n.tm_mon = 12 /\ n.tm_mday = Last(n.tm_mon, n.tm_year)
        BY <1>1, <2>3
      <3>3. n.tm_mday = 31
        BY <3>2 DEF Last
      <3>4. CASE t.tm_year = base_year
        <4>1. n.tm_year = base_year + 399
          BY <1>1, <2>3, <3>4
        <4>2. Day(t) = Day(n) + 1 - 146097
          BY <3>1, <3>2, <3>3, <3>4, <4>1, Cycle DEF Day
        <4> QED
          BY <1>6, <4>2
      <3>5. CASE t.tm_year # base_year
        <4>1. n.tm_year + 1 = t.tm_year
          BY <1>1, <1>4, <2>3, <3>5
        <4>2. DayNumber(n.tm_year + 1, 1, 1) = DayNumber(n.tm_year, 12, 31) + 1
          BY <1>4, FollowingYear
        <4>3. Day(t) = Day(n) + 1
          BY <3>1, <3>2, <3>3, <4>1, <4>2 DEF Day
        <4> QED
          BY <1>6, <4>3
      <3> QED
        BY <3>4, <3>5
    <2> QED
      BY <2>1, <2>2, <2>3
  <1>8. n.tm_wday = (Day(n) % 7) + 1
    BY <1>1, <1>5, <1>6, <1>7, FollowingWeekday
  <1>9. /\ n.tm_mon \in 1 .. 12 /\ n.tm_mday \in 1 .. lastday(n)
        /\ n.tm_year \in base_year .. base_year + 399
    <2>1. CASE t.tm_mday > 1
      <3>1. lastday(n) = lastday(t)
        BY <1>1, <1>2, <2>1
      <3> QED
        BY <1>1, <1>3, <1>5, <2>1, <3>1
    <2>2. CASE ~(t.tm_mday > 1)
      BY <1>1, <1>2, <1>3, <1>4, <1>5, <2>2
    <2> QED
      BY <2>1, <2>2
  <1> QED
    BY <1>7, <1>8, <1>9 DEF ValidDate, Weekday, Day

-----------------------------------------------------------------------------
(***************************************************************************)
(* Single fields, and the date among them.                                 *)
(***************************************************************************)
SameDate(s, t) ==
  /\ s.tm_mday = t.tm_mday /\ s.tm_mon = t.tm_mon
  /\ s.tm_year = t.tm_year /\ s.tm_wday = t.tm_wday

LEMMA SameDateValid ==
  ASSUME NEW s, NEW t, SameDate(s, t)
  PROVE  /\ ValidDate(s) <=> ValidDate(t)
         /\ Day(s) = Day(t) /\ lastday(s) = lastday(t)
  <1>1. lastday(s) = lastday(t)
    BY LastdayIs DEF SameDate
  <1> QED
    BY <1>1, Zenon DEF SameDate, ValidDate, Day

\* n is the time t with this clock.
Clock(n, t, min, hour, isdst) ==
  /\ n \in TimeRec /\ SameDate(n, t)
  /\ n.tm_min = min /\ n.tm_hour = hour
  /\ n.tm_isdst = isdst /\ n.tm_yday = t.tm_yday

LEMMA HourField ==
  ASSUME NEW t \in TimeRec, NEW hour \in Int
  PROVE  Clock([t EXCEPT !.tm_hour = hour], t, t.tm_min, hour, t.tm_isdst)
  <1> DEFINE n == [t EXCEPT !.tm_hour = hour]
  <1>1. n \in TimeRec
    BY DEF TimeRec
  <1>2. /\ n.tm_mday = t.tm_mday /\ n.tm_mon = t.tm_mon
        /\ n.tm_year = t.tm_year /\ n.tm_wday = t.tm_wday
    BY DEF TimeRec
  <1>3. /\ n.tm_min = t.tm_min /\ n.tm_hour = hour
        /\ n.tm_isdst = t.tm_isdst /\ n.tm_yday = t.tm_yday
    BY DEF TimeRec
  <1> HIDE DEF n
  <1>4. Clock(n, t, t.tm_min, hour, t.tm_isdst)
    BY <1>1, <1>2, <1>3, Zenon DEF Clock, SameDate
  <1> QED
    BY <1>4 DEF n

LEMMA MinuteField ==
  ASSUME NEW t \in TimeRec, NEW min \in Int
  PROVE  Clock([t EXCEPT !.tm_min = min], t, min, t.tm_hour, t.tm_isdst)
  <1> DEFINE n == [t EXCEPT !.tm_min = min]
  <1>1. n \in TimeRec
    BY DEF TimeRec
  <1>2. /\ n.tm_mday = t.tm_mday /\ n.tm_mon = t.tm_mon
        /\ n.tm_year = t.tm_year /\ n.tm_wday = t.tm_wday
    BY DEF TimeRec
  <1>3. /\ n.tm_min = min /\ n.tm_hour = t.tm_hour
        /\ n.tm_isdst = t.tm_isdst /\ n.tm_yday = t.tm_yday
    BY DEF TimeRec
  <1> HIDE DEF n
  <1>4. Clock(n, t, min, t.tm_hour, t.tm_isdst)
    BY <1>1, <1>2, <1>3, Zenon DEF Clock, SameDate
  <1> QED
    BY <1>4 DEF n

LEMMA ClockFields ==
  ASSUME NEW t \in TimeRec, NEW min \in Int, NEW hour \in Int
  PROVE  Clock([t EXCEPT !.tm_min = min, !.tm_hour = hour], t, min, hour, t.tm_isdst)
  <1> DEFINE n == [t EXCEPT !.tm_min = min, !.tm_hour = hour]
  <1>1. n \in TimeRec
    BY DEF TimeRec
  <1>2. /\ n.tm_mday = t.tm_mday /\ n.tm_mon = t.tm_mon
        /\ n.tm_year = t.tm_year /\ n.tm_wday = t.tm_wday
    BY DEF TimeRec
  <1>3. /\ n.tm_min = min /\ n.tm_hour = hour
        /\ n.tm_isdst = t.tm_isdst /\ n.tm_yday = t.tm_yday
    BY DEF TimeRec
  <1> HIDE DEF n
  <1>4. Clock(n, t, min, hour, t.tm_isdst)
    BY <1>1, <1>2, <1>3, Zenon DEF Clock, SameDate
  <1> QED
    BY <1>4 DEF n

LEMMA OffsetField ==
  ASSUME NEW t \in TimeRec, NEW isdst \in Int
  PROVE  Clock([t EXCEPT !.tm_isdst = isdst], t, t.tm_min, t.tm_hour, isdst)
  <1> DEFINE n == [t EXCEPT !.tm_isdst = isdst]
  <1>1. n \in TimeRec
    BY DEF TimeRec
  <1>2. /\ n.tm_mday = t.tm_mday /\ n.tm_mon = t.tm_mon
        /\ n.tm_year = t.tm_year /\ n.tm_wday = t.tm_wday
    BY DEF TimeRec
  <1>3. /\ n.tm_min = t.tm_min /\ n.tm_hour = t.tm_hour
        /\ n.tm_isdst = isdst /\ n.tm_yday = t.tm_yday
    BY DEF TimeRec
  <1> HIDE DEF n
  <1>4. Clock(n, t, t.tm_min, t.tm_hour, isdst)
    BY <1>1, <1>2, <1>3, Zenon DEF Clock, SameDate
  <1> QED
    BY <1>4 DEF n

(***************************************************************************)
(* The day before the next day is the day.                                 *)
(***************************************************************************)
LEMMA DayReversible ==
  ASSUME NEW t \in TimeRec, ValidDate(t), NEW n, n = NextDay(t),
         NEW s \in TimeRec, SameDate(s, n), NEW p, p = PreviousDay(s)
  PROVE  SameDate(p, t)
  <1>1. /\ n.tm_wday = IF t.tm_wday = 7 THEN 1 ELSE t.tm_wday + 1
        /\ n.tm_mday = IF t.tm_mday < lastday(t) THEN t.tm_mday + 1 ELSE 1
        /\ n.tm_mon = IF t.tm_mday < lastday(t) THEN t.tm_mon
                      ELSE IF t.tm_mon < 12 THEN t.tm_mon + 1 ELSE 1
        /\ n.tm_year = IF t.tm_mday < lastday(t) \/ t.tm_mon < 12 THEN t.tm_year
                       ELSE IF t.tm_year = base_year + 399 THEN base_year
                       ELSE t.tm_year + 1
    BY NextDayFields
  <1>2. /\ t.tm_mon \in 1 .. 12 /\ t.tm_mday \in 1 .. lastday(t)
        /\ t.tm_year \in base_year .. base_year + 399
        /\ t.tm_wday = (Day(t) % 7) + 1
    BY DEF ValidDate, Weekday, Day
  <1>3. /\ lastday(t) \in 28 .. 31 /\ lastday(t) = Last(t.tm_mon, t.tm_year)
    BY LastdayRange, LastdayIs
  <1>4. base_year \in Int /\ t.tm_wday \in 1 .. 7
    BY <1>2, DayType DEF base_year
  <1>5. s.tm_mday >= 1
    BY <1>1, <1>2, <1>3 DEF SameDate
  <1>6. /\ p.tm_wday = IF s.tm_wday = 1 THEN 7 ELSE s.tm_wday - 1
        /\ p.tm_mon = IF s.tm_mday > 1 THEN s.tm_mon
                      ELSE IF s.tm_mon > 1 THEN s.tm_mon - 1 ELSE 12
        /\ p.tm_year = IF s.tm_mday > 1 \/ s.tm_mon > 1 THEN s.tm_year
                       ELSE IF s.tm_year = base_year THEN base_year + 399
                       ELSE s.tm_year - 1
        /\ p.tm_mday = IF s.tm_mday > 1 THEN s.tm_mday - 1
                       ELSE Last(p.tm_mon, p.tm_year)
    BY <1>5, PreviousDayFields
  <1>7. /\ s.tm_mday = n.tm_mday /\ s.tm_mon = n.tm_mon
        /\ s.tm_year = n.tm_year /\ s.tm_wday = n.tm_wday
    BY DEF SameDate
  <1>8. p.tm_wday = t.tm_wday
    BY <1>1, <1>4, <1>6, <1>7
  <1>9. p.tm_mon = t.tm_mon /\ p.tm_year = t.tm_year
    <2>1. CASE t.tm_mday < lastday(t)
      BY <1>1, <1>2, <1>3, <1>6, <1>7, <2>1
    <2>2. CASE ~(t.tm_mday < lastday(t)) /\ t.tm_mon < 12
      BY <1>1, <1>2, <1>3, <1>6, <1>7, <2>2
    <2>3. CASE ~(t.tm_mday < lastday(t)) /\ ~(t.tm_mon < 12)
      BY <1>1, <1>2, <1>3, <1>4, <1>6, <1>7, <2>3
    <2> QED
      BY <2>1, <2>2, <2>3
  <1>10. p.tm_mday = t.tm_mday
    <2>1. CASE t.tm_mday < lastday(t)
      BY <1>1, <1>2, <1>3, <1>6, <1>7, <2>1
    <2>2. CASE ~(t.tm_mday < lastday(t))
      <3>1. n.tm_mday = 1
        BY <1>1, <2>2
      <3>2. p.tm_mday = lastday(t)
        BY <1>3, <1>6, <1>7, <1>9, <3>1
      <3> QED
        BY <1>2, <1>3, <2>2, <3>2
    <2> QED
      BY <2>1, <2>2
  <1> QED
    BY <1>8, <1>9, <1>10 DEF SameDate

-----------------------------------------------------------------------------
(***************************************************************************)
(* Minutes and hours.                                                      *)
(***************************************************************************)
LEMMA CycleLength ==
  MinutesPerDay = 1440 /\ MinutesPerCycle = 210379680
  BY DEF MinutesPerDay, MinutesPerCycle

LEMMA ValidTimeIs ==
  ASSUME NEW t
  PROVE  ValidTime(t) <=> /\ t.tm_min \in 0 .. 59 /\ t.tm_hour \in 0 .. 23
                          /\ ValidDate(t)
  BY Zenon DEF ValidTime, ValidDate

LEMMA MinutesIs ==
  ASSUME NEW t \in TimeRec
  PROVE  \E x \in Int : /\ x = DayNumber(base_year, 1, 1)
                        /\ Minutes(t) = (Day(t) - x) * 1440
                                          + 60 * t.tm_hour + t.tm_min
  <1>1. DayNumber(base_year, 1, 1) \in Int
    BY DEF DayNumber, base_year
  <1>2. Minutes(t) = (Day(t) - DayNumber(base_year, 1, 1)) * 1440
                       + 60 * t.tm_hour + t.tm_min
    BY CycleLength DEF Minutes
  <1> QED
    BY <1>1, <1>2

LEMMA MinutesBounds ==
  ASSUME NEW t \in TimeRec, ValidTime(t)
  PROVE  /\ Minutes(t) \in Int
         /\ 0 <= Minutes(t) /\ Minutes(t) < MinutesPerCycle
  <1>1. PICK x \in Int :
          /\ x = DayNumber(base_year, 1, 1)
          /\ Minutes(t) = (Day(t) - x) * 1440 + 60 * t.tm_hour + t.tm_min
    BY MinutesIs
  <1>2. /\ t.tm_mon \in 1 .. 12 /\ t.tm_mday \in 1 .. lastday(t)
        /\ t.tm_year \in base_year .. base_year + 399
        /\ t.tm_min \in 0 .. 59 /\ t.tm_hour \in 0 .. 23
    BY DEF ValidTime
  <1>3. Day(t) >= x /\ Day(t) <= x + 146096
    BY <1>1, <1>2, DayBounds, LastdayIs DEF Day
  <1>4. Day(t) \in Int
    BY DayType
  <1> HIDE DEF Day
  <1> QED
    BY <1>1, <1>2, <1>3, <1>4, CycleLength, SMT

LEMMA SubstractHourRight ==
  ASSUME NEW t \in TimeRec, ValidTime(t), NEW n, n = substract_hour(t)
  PROVE  /\ n \in TimeRec /\ ValidTime(n)
         /\ n.tm_isdst = t.tm_isdst
         /\ \/ Minutes(n) = Minutes(t) - 60
            \/ Minutes(n) = Minutes(t) - 60 + MinutesPerCycle
  <1>1. t.tm_min \in 0 .. 59 /\ t.tm_hour \in 0 .. 23 /\ ValidDate(t)
    BY ValidTimeIs
  <1>2. PICK x \in Int :
          /\ x = DayNumber(base_year, 1, 1)
          /\ Minutes(t) = (Day(t) - x) * 1440 + 60 * t.tm_hour + t.tm_min
    BY MinutesIs
  <1>3. CASE t.tm_hour = 0
    <2>1. n = PreviousDay(t)
      BY <1>3 DEF substract_hour
    <2>2. t.tm_mday >= 1
      BY <1>1, LastdayRange DEF ValidDate
    <2>3. /\ n \in TimeRec /\ n.tm_min = t.tm_min /\ n.tm_hour = 23
          /\ n.tm_isdst = t.tm_isdst
      BY <2>1, <2>2, PreviousDayFields
    <2>4. /\ ValidDate(n)
          /\ Day(n) = Day(t) - 1 \/ Day(n) = Day(t) - 1 + 146097
      BY <1>1, <2>1, PreviousDayRight
    <2>5. Minutes(n) = (Day(n) - x) * 1440 + 60 * n.tm_hour + n.tm_min
      BY <1>2, <2>3, MinutesIs
    <2>6. Day(t) \in Int /\ Day(n) \in Int
      BY <2>3, DayType
    <2>7. \/ Minutes(n) = Minutes(t) - 60
          \/ Minutes(n) = Minutes(t) - 60 + MinutesPerCycle
      BY <1>1, <1>2, <1>3, <2>3, <2>4, <2>5, <2>6, CycleLength, SMT
    <2> QED
      BY <1>1, <2>3, <2>4, <2>7, ValidTimeIs
  <1>4. CASE t.tm_hour # 0
    <2> DEFINE hour == t.tm_hour - 1
    <2>1. hour \in Int /\ hour \in 0 .. 23
      BY <1>1, <1>4
    <2>2. n = [t EXCEPT !.tm_hour = hour]
      BY <1>4 DEF substract_hour
    <2> HIDE DEF hour
    <2>3. /\ n \in TimeRec /\ SameDate(n, t)
          /\ n.tm_min = t.tm_min /\ n.tm_hour = hour
          /\ n.tm_isdst = t.tm_isdst
      <3>1. Clock([t EXCEPT !.tm_hour = hour], t, t.tm_min, hour, t.tm_isdst)
        BY <2>1, HourField
      <3> QED
        BY <2>2, <3>1, Zenon DEF Clock
    <2>4. ValidDate(n) /\ Day(n) = Day(t)
      BY <1>1, <2>3, SameDateValid
    <2>5. Minutes(n) = (Day(n) - x) * 1440 + 60 * n.tm_hour + n.tm_min
      BY <1>2, <2>3, MinutesIs
    <2>6. Day(t) \in Int
      BY DayType
    <2>7. Minutes(n) = Minutes(t) - 60
      BY <1>1, <1>2, <2>3, <2>4, <2>5, <2>6, SMTT(40) DEF hour
    <2> QED
      BY <1>1, <2>1, <2>3, <2>4, <2>7, ValidTimeIs
  <1> QED
    BY <1>3, <1>4

(***************************************************************************)
(* What add_minute() does to the fields.                                   *)
(***************************************************************************)
LEMMA ShiftIs ==
  ASSUME NEW t, NEW c \in BOOLEAN
  PROVE  Shift(t, c) = IF ~c THEN 0
                       ELSE IF t.tm_isdst = 1 THEN -1
                       ELSE IF t.tm_isdst = 0 THEN 1 ELSE 0
  <1>1. CASE c /\ t.tm_isdst = 1
    <2>1. t.tm_isdst # 0
      BY <1>1
    <2> QED
      BY <1>1, <2>1, Zenon DEF Shift
  <1>2. CASE c /\ t.tm_isdst = 0
    <2>1. t.tm_isdst # 1
      BY <1>2
    <2> QED
      BY <1>2, <2>1, Zenon DEF Shift
  <1>3. CASE ~c \/ (t.tm_isdst # 1 /\ t.tm_isdst # 0)
    BY <1>3, Zenon DEF Shift
  <1> QED
    BY <1>1, <1>2, <1>3

LEMMA AddMinuteFields ==
  ASSUME NEW t \in TimeRec, ValidDate(t), NEW c \in BOOLEAN,
         NEW n, n = add_minute(t, c),
         NEW hour \in Int, hour = t.tm_hour + 1 + Shift(t, c)
  PROVE  /\ n \in TimeRec
         /\ n.tm_isdst = t.tm_isdst /\ n.tm_yday = t.tm_yday
         /\ t.tm_min < 59 => /\ n.tm_min = t.tm_min + 1
                             /\ n.tm_hour = t.tm_hour /\ SameDate(n, t)
         /\ ~(t.tm_min < 59) /\ hour # 24 =>
              n.tm_min = 0 /\ n.tm_hour = hour /\ SameDate(n, t)
         /\ ~(t.tm_min < 59) /\ hour = 24 =>
              /\ n.tm_min = 0 /\ n.tm_hour = 0
              /\ \E h \in TimeRec : SameDate(h, t) /\ n = NextDay(h)
  <1>1. CASE t.tm_min < 59
    <2> DEFINE min == t.tm_min + 1
    <2>1. n = [t EXCEPT !.tm_min = min]
      BY <1>1, Zenon DEF add_minute
    <2>2. min \in Int
      BY DEF TimeRec
    <2> HIDE DEF min
    <2>3. /\ n \in TimeRec /\ SameDate(n, t)
          /\ n.tm_min = min /\ n.tm_hour = t.tm_hour
          /\ n.tm_isdst = t.tm_isdst /\ n.tm_yday = t.tm_yday
      <3>1. Clock([t EXCEPT !.tm_min = min], t, min, t.tm_hour, t.tm_isdst)
        BY <2>2, MinuteField
      <3> QED
        BY <2>1, <3>1, Zenon DEF Clock
    <2> QED
      BY <1>1, <2>3 DEF min
  <1>2. CASE ~(t.tm_min < 59)
    <2> DEFINE h == [t EXCEPT !.tm_min = 0, !.tm_hour = hour]
    <2>1. n = IF hour = 24 THEN NextDay(h) ELSE h
      BY <1>2, Zenon DEF add_minute
    <2>2. /\ h \in TimeRec /\ SameDate(h, t)
          /\ h.tm_min = 0 /\ h.tm_hour = hour
          /\ h.tm_isdst = t.tm_isdst /\ h.tm_yday = t.tm_yday
      <3>1. Clock([t EXCEPT !.tm_min = 0, !.tm_hour = hour], t, 0, hour, t.tm_isdst)
        <4>1. 0 \in Int
          OBVIOUS
        <4> QED
          BY <4>1, ClockFields, Zenon
      <3> QED
        BY <3>1, Zenon DEF Clock
    <2> HIDE DEF h
    <2>3. CASE hour = 24
      <3>1. n = NextDay(h)
        BY <2>1, <2>3
      <3>2. /\ n \in TimeRec /\ n.tm_min = h.tm_min /\ n.tm_hour = 0
            /\ n.tm_isdst = h.tm_isdst /\ n.tm_yday = h.tm_yday
        BY <2>2, <3>1, NextDayFields
      <3> QED
        BY <1>2, <2>2, <2>3, <3>1, <3>2, Zenon
    <2>4. CASE hour # 24
      BY <1>2, <2>1, <2>2, <2>4, Zenon
    <2> QED
      BY <2>3, <2>4
  <1> QED
    BY <1>1, <1>2

-----------------------------------------------------------------------------
(***************************************************************************)
(* The time that follows a valid time, with the offset that handle_dst()   *)
(* leaves, is a valid time one minute of UTC later.                        *)
(***************************************************************************)
LEMMA UtcIs ==
  ASSUME NEW t \in TimeRec
  PROVE  Utc(t) = (Minutes(t) - 60 * (1 + t.tm_isdst)) % MinutesPerCycle
  BY DEF Utc

LEMMA NextInCycle ==
  ASSUME NEW a \in Int, NEW b \in Int,
         b = a + 1 \/ b = a + 1 - MinutesPerCycle
  PROVE  b % MinutesPerCycle = ((a % MinutesPerCycle) + 1) % MinutesPerCycle
  BY CycleLength, SMT

After(t, c) == [add_minute(t, c) EXCEPT !.tm_isdst = IF c THEN 1 - @ ELSE @]

LEMMA NextMinute ==
  ASSUME NEW t \in TimeRec, ValidTime(t), t.tm_isdst \in {0, 1},
         NEW c \in BOOLEAN, c => MayChange(t),
         NEW n, n = After(t, c)
  PROVE  /\ n \in TimeRec /\ ValidTime(n)
         /\ n.tm_isdst \in {0, 1} /\ n.tm_yday = t.tm_yday
         /\ Utc(n) = (Utc(t) + 1) % MinutesPerCycle
  <1> DEFINE a    == add_minute(t, c)
             dst  == IF c THEN 1 - t.tm_isdst ELSE t.tm_isdst
             hour == t.tm_hour + 1 + Shift(t, c)
  <1>1. t.tm_min \in 0 .. 59 /\ t.tm_hour \in 0 .. 23 /\ ValidDate(t)
    BY ValidTimeIs
  <1>2. dst \in {0, 1}
    OBVIOUS
  <1>3. hour = t.tm_hour + 1 + (IF ~c THEN 0 ELSE IF t.tm_isdst = 1 THEN -1 ELSE 1)
    BY ShiftIs
  <1>4. hour \in Int
    BY <1>1, <1>3
  <1>5. hour = t.tm_hour + 1 + Shift(t, c)
    OBVIOUS
  <1> HIDE DEF hour
  <1>6. /\ a \in TimeRec
        /\ a.tm_isdst = t.tm_isdst /\ a.tm_yday = t.tm_yday
        /\ t.tm_min < 59 => /\ a.tm_min = t.tm_min + 1
                            /\ a.tm_hour = t.tm_hour /\ SameDate(a, t)
        /\ ~(t.tm_min < 59) /\ hour # 24 =>
             a.tm_min = 0 /\ a.tm_hour = hour /\ SameDate(a, t)
        /\ ~(t.tm_min < 59) /\ hour = 24 =>
             /\ a.tm_min = 0 /\ a.tm_hour = 0
             /\ \E h \in TimeRec : SameDate(h, t) /\ a = NextDay(h)
    BY <1>1, <1>4, <1>5, AddMinuteFields
  <1>7. n = [a EXCEPT !.tm_isdst = dst]
    BY <1>6, Zenon DEF After
  <1> HIDE DEF a
  <1>8. /\ n \in TimeRec /\ SameDate(n, a)
        /\ n.tm_min = a.tm_min /\ n.tm_hour = a.tm_hour
        /\ n.tm_isdst = dst /\ n.tm_yday = a.tm_yday
    <2>1. dst \in Int
      BY <1>2
    <2> HIDE DEF dst
    <2> QED
      <3>1. Clock([a EXCEPT !.tm_isdst = dst], a, a.tm_min, a.tm_hour, dst)
        BY <1>6, <2>1, OffsetField
      <3> QED
        BY <1>7, <3>1, Zenon DEF Clock
  <1>9. PICK x \in Int :
          /\ x = DayNumber(base_year, 1, 1)
          /\ Minutes(t) = (Day(t) - x) * 1440 + 60 * t.tm_hour + t.tm_min
    BY MinutesIs
  <1>10. Minutes(n) = (Day(n) - x) * 1440 + 60 * n.tm_hour + n.tm_min
    BY <1>9, CycleLength DEF Minutes
  <1>11. Day(t) \in Int /\ Day(n) \in Int
    BY <1>8, DayType
  <1>12. /\ ValidDate(n) /\ n.tm_min \in 0 .. 59 /\ n.tm_hour \in 0 .. 23
         /\ \/ Minutes(n) - 60 * dst = Minutes(t) - 60 * t.tm_isdst + 1
            \/ Minutes(n) - 60 * dst = Minutes(t) - 60 * t.tm_isdst + 1 - MinutesPerCycle
    <2>1. CASE t.tm_min < 59
      <3>1. /\ n.tm_min = t.tm_min + 1 /\ n.tm_hour = t.tm_hour
            /\ SameDate(a, t)
        BY <1>6, <1>8, <2>1
      <3>2. ~c
        BY <1>1, <2>1 DEF MayChange
      <3>3. ValidDate(n) /\ Day(n) = Day(t)
        BY <1>1, <1>8, <3>1, SameDateValid
      <3>4. dst = t.tm_isdst
        BY <3>2
      <3>5. Minutes(n) - 60 * dst = Minutes(t) - 60 * t.tm_isdst + 1
        <4> HIDE DEF dst
        <4>1. /\ t.tm_isdst \in Int /\ t.tm_hour \in Int /\ t.tm_min \in Int
              /\ dst \in Int
          BY <1>1, <1>2
        <4>2. Minutes(n) = Minutes(t) + 1 /\ Minutes(t) \in Int
          BY <1>9, <1>10, <1>11, <3>1, <3>3, <4>1
        <4> QED
          BY <3>4, <4>1, <4>2
      <3>6. n.tm_min \in 0 .. 59 /\ n.tm_hour \in 0 .. 23
        BY <1>1, <2>1, <3>1
      <3> QED
        BY <3>3, <3>5, <3>6
    <2>2. CASE ~(t.tm_min < 59) /\ hour # 24
      <3>1. n.tm_min = 0 /\ n.tm_hour = hour /\ SameDate(a, t)
        BY <1>6, <1>8, <2>2
      <3>2. ValidDate(n) /\ Day(n) = Day(t)
        BY <1>1, <1>8, <3>1, SameDateValid
      <3>3. hour \in 0 .. 23
        BY <1>1, <1>3, <2>2 DEF MayChange
      <3>4. hour - dst = t.tm_hour + 1 - t.tm_isdst
        BY <1>1, <1>3
      <3>5. t.tm_min = 59
        BY <1>1, <2>2
      <3>6. Minutes(n) - 60 * dst = Minutes(t) - 60 * t.tm_isdst + 1
        <4> HIDE DEF dst
        <4>1. dst \in Int /\ t.tm_isdst \in Int /\ t.tm_hour \in Int /\ hour \in Int
          BY <1>1, <1>2, <1>4
        <4> QED
          BY <1>9, <1>10, <1>11, <3>1, <3>2, <3>4, <3>5, <4>1
      <3> QED
        BY <3>1, <3>2, <3>3, <3>6
    <2>3. CASE ~(t.tm_min < 59) /\ hour = 24
      <3>1. n.tm_min = 0 /\ n.tm_hour = 0
        BY <1>6, <1>8, <2>3
      <3>2. PICK h \in TimeRec : SameDate(h, t) /\ a = NextDay(h)
        BY <1>6, <2>3
      <3>3. ValidDate(h) /\ Day(h) = Day(t)
        BY <1>1, <3>2, SameDateValid
      <3>4. /\ ValidDate(a)
            /\ Day(a) = Day(t) + 1 \/ Day(a) = Day(t) + 1 - 146097
        BY <3>2, <3>3, NextDayRight
      <3>5. ValidDate(n) /\ Day(n) = Day(a)
        BY <1>8, <3>4, SameDateValid
      <3>6. \/ t.tm_hour = 23 /\ ~c
            \/ t.tm_hour = 22 /\ c /\ t.tm_isdst = 0
        BY <1>1, <1>3, <2>3
      <3> QED
        BY <1>1, <1>9, <1>10, <1>11, <2>3, <3>1, <3>4, <3>5, <3>6, CycleLength, SMT
    <2> QED
      BY <2>1, <2>2, <2>3
  <1>13. Utc(n) = (Utc(t) + 1) % MinutesPerCycle
    <2>1. Minutes(t) \in Int /\ Minutes(n) \in Int
      <3>1. t.tm_min \in Int /\ t.tm_hour \in Int /\ n.tm_min \in Int /\ n.tm_hour \in Int
        BY <1>8 DEF TimeRec
      <3> QED
        BY <1>9, <1>10, <1>11, <3>1
    <2>2. Utc(t) = (Minutes(t) - 60 * (1 + t.tm_isdst)) % MinutesPerCycle
      BY UtcIs
    <2>3. Utc(n) = (Minutes(n) - 60 * (1 + dst)) % MinutesPerCycle
      BY <1>8, UtcIs
    <2> QED
      <3> DEFINE p == Minutes(t) - 60 * (1 + t.tm_isdst)
                 q == Minutes(n) - 60 * (1 + dst)
      <3>1. p \in Int /\ q \in Int
        BY <1>2, <2>1
      <3>2. MinutesPerCycle \in Int
        BY CycleLength, SMT
      <3>3. q = p + 1 \/ q = p + 1 - MinutesPerCycle
        BY <1>2, <1>12, <2>1, <3>2, SMT
      <3> HIDE DEF p, q
      <3>4. q % MinutesPerCycle = ((p % MinutesPerCycle) + 1) % MinutesPerCycle
        BY <3>1, <3>3, NextInCycle, Zenon
      <3> USE DEF p, q
      <3> QED
        BY <2>2, <2>3, <3>4, Zenon
  <1> QED
    BY <1>2, <1>6, <1>8, <1>12, <1>13, ValidTimeIs

LEMMA UtcRange ==
  ASSUME NEW t \in TimeRec, ValidTime(t), t.tm_isdst \in {0, 1}
  PROVE  Utc(t) \in 0 .. MinutesPerCycle - 1
  <1> DEFINE m == Minutes(t) - 60 * (1 + t.tm_isdst)
  <1>1. m \in Int
    <2>1. Minutes(t) \in Int
      BY MinutesBounds
    <2> QED
      BY <2>1
  <1>2. Utc(t) = m % MinutesPerCycle
    BY Zenon DEF Utc
  <1>3. MinutesPerCycle \in Nat /\ MinutesPerCycle > 0
    BY CycleLength, SMT
  <1> HIDE DEF m
  <1> QED
    BY <1>1, <1>2, <1>3

(***************************************************************************)
(* The invariant holds: the minutes of UTC that were counted are those of  *)
(* the time, which is valid.                                               *)
(***************************************************************************)
LEMMA InitIInv ==
  ASSUME Init
  PROVE  IInv
  <1>1. /\ time.tm_min = 59 /\ time.tm_hour \in StartHours
        /\ time.tm_mday \in StartDays /\ time.tm_mon \in 1 .. 12
        /\ time.tm_year \in FirstYear .. LastYear /\ time.tm_wday \in 1 .. 7
        /\ time.tm_isdst \in {0, 1} /\ time.tm_yday = 0
    BY DEF Init
  <1>2. /\ FirstYear \in base_year .. base_year + 399
        /\ LastYear \in base_year .. base_year + 399
        /\ base_year \in Int
    BY CalendarAssumption DEF base_year
  <1>3. time.tm_year \in base_year .. base_year + 399
    BY <1>1, <1>2
  <1>4. /\ time.tm_hour \in 0 .. 23 /\ time.tm_mday \in 1 .. 31
    BY <1>1, CalendarAssumption
  <1>5. time \in TimeRec
    <2>1. time \in [tm_min : {59}, tm_hour : StartHours, tm_mday : StartDays,
               tm_mon : 1 .. 12, tm_year : FirstYear .. LastYear, tm_wday : 1 .. 7,
               tm_isdst : {0, 1}, tm_yday : {0}]
      BY DEF Init
    <2>2. /\ StartHours \subseteq Int /\ StartDays \subseteq Int
          /\ 1 .. 12 \subseteq Int /\ FirstYear .. LastYear \subseteq Int
          /\ 1 .. 7 \subseteq Int /\ {0, 1} \subseteq Int
          /\ {59} \subseteq Int /\ {0} \subseteq Int
      BY <1>2, CalendarAssumption
    <2> QED
      BY <2>1, <2>2, ZenonT(40) DEF TimeRec
  <1>6. time.tm_mday \in 1 .. lastday(time)
    <2>1. time.tm_mday <= lastday(time)
      BY DEF Init
    <2> QED
      BY <1>4, <2>1, LastdayRange
  <1>7. ValidTime(time)
    <2>1. time.tm_wday = Weekday(time.tm_year, time.tm_mon, time.tm_mday)
      BY DEF Init
    <2>2. time.tm_min \in 0 .. 59
      BY <1>1
    <2> QED
      BY <1>1, <1>3, <1>4, <1>6, <2>1, <2>2, Zenon DEF ValidTime
  <1>8. passed \in 0 .. MaxMinutes /\ utc = Utc(time)
    BY CalendarAssumption DEF Init
  <1>9. Utc(time) \in 0 .. MinutesPerCycle - 1
    BY <1>1, <1>5, <1>7, UtcRange
  <1> QED
    BY <1>1, <1>5, <1>7, <1>8, <1>9 DEF IInv, TypeOK

LEMMA NextIInv ==
  ASSUME IInv, [Next]_vars
  PROVE  IInv'
  <1>1. CASE Next
    <2>1. PICK c \in BOOLEAN : (c => MayChange(time)) /\ time' = After(time, c)
      BY <1>1, Zenon DEF Next, Pass, After
    <2>2. /\ time \in TimeRec /\ ValidTime(time) /\ time.tm_isdst \in {0, 1}
          /\ time.tm_yday = 0 /\ utc = Utc(time) /\ passed \in 0 .. MaxMinutes
      BY DEF IInv, TypeOK
    <2>3. /\ time' \in TimeRec /\ ValidTime(time')
          /\ time'.tm_isdst \in {0, 1} /\ time'.tm_yday = time.tm_yday
          /\ Utc(time') = (Utc(time) + 1) % MinutesPerCycle
      BY <2>1, <2>2, NextMinute
    <2>4. utc' = (utc + 1) % MinutesPerCycle /\ passed' \in 0 .. MaxMinutes
      BY <1>1, <2>2, CalendarAssumption DEF Next, Pass
    <2>5. utc' = Utc(time')
      BY <2>2, <2>3, <2>4
    <2>6. utc' \in 0 .. MinutesPerCycle - 1
      BY <2>3, <2>5, UtcRange
    <2>7. time'.tm_yday = 0
      BY <2>2, <2>3
    <2>8. TypeOK'
      BY <2>3, <2>4, <2>6, <2>7, Zenon DEF TypeOK, ValidTime
    <2>9. (time \in TimeRec)' /\ (utc = Utc(time))'
      BY <2>3, <2>5, Zenon
    <2> QED
      BY <2>8, <2>9 DEF IInv
  <1>2. CASE UNCHANGED vars
    BY <1>2 DEF IInv, TypeOK, vars
  <1> QED
    BY <1>1, <1>2

THEOREM Invariant ==
  Spec => []IInv
  <1>1. Init => IInv
    BY InitIInv
  <1>2. IInv /\ [Next]_vars => IInv'
    BY NextIInv
  <1> QED
    BY <1>1, <1>2, PTL DEF Spec

(***************************************************************************)
(* From every valid time on, however many minutes pass and at whichever    *)
(* ends of hours the offset changes, other than to summer time at 23:59    *)
(* (MayChange), the time stays valid, with the weekday that its date has.  *)
(* The change that is left out makes the hour 25: see MinutesReverse.      *)
(***************************************************************************)
THEOREM TypeCorrect ==
  Spec => []TypeOK
  <1>1. IInv => TypeOK
    BY DEF IInv
  <1> QED
    BY <1>1, Invariant, PTL

-----------------------------------------------------------------------------
(***************************************************************************)
(* get_utctime(): the one or two hours are taken back over the start of a  *)
(* day.                                                                    *)
(***************************************************************************)
LEMMA UtcTimeRight ==
  ASSUME NEW t \in TimeRec, ValidTime(t), t.tm_isdst \in {0, 1}
  PROVE  /\ ValidTime(get_utctime(t))
         /\ Minutes(get_utctime(t)) = Utc(t)
  <1> DEFINE h == substract_hour(t)
             u == IF t.tm_isdst = 0 THEN h ELSE substract_hour(h)
             g == get_utctime(t)
  <1>1. /\ h \in TimeRec /\ ValidTime(h)
        /\ \/ Minutes(h) = Minutes(t) - 60
           \/ Minutes(h) = Minutes(t) - 60 + MinutesPerCycle
    BY SubstractHourRight
  <1> HIDE DEF h
  <1>2. /\ substract_hour(h) \in TimeRec /\ ValidTime(substract_hour(h))
        /\ \/ Minutes(substract_hour(h)) = Minutes(h) - 60
           \/ Minutes(substract_hour(h)) = Minutes(h) - 60 + MinutesPerCycle
    BY <1>1, SubstractHourRight
  <1>3. u \in TimeRec /\ ValidTime(u)
    BY <1>1, <1>2, Zenon
  <1>4. Minutes(t) \in Int /\ Minutes(h) \in Int /\ Minutes(u) \in Int
    BY <1>1, <1>3, MinutesBounds
  <1>5. \/ Minutes(u) = Minutes(t) - 60 * (1 + t.tm_isdst)
        \/ Minutes(u) = Minutes(t) - 60 * (1 + t.tm_isdst) + MinutesPerCycle
        \/ Minutes(u) = Minutes(t) - 60 * (1 + t.tm_isdst) + 2 * MinutesPerCycle
    <2>0. MinutesPerCycle \in Int
      BY CycleLength, SMT
    <2>1. CASE t.tm_isdst = 0
      <3>1. Minutes(u) = Minutes(h)
        BY <2>1
      <3> HIDE DEF u
      <3> QED
        BY <1>1, <1>4, <2>0, <2>1, <3>1, SMT
    <2>2. CASE t.tm_isdst = 1
      <3>1. Minutes(u) = Minutes(substract_hour(h))
        BY <2>2
      <3> HIDE DEF u
      <3> QED
        BY <1>1, <1>2, <1>4, <2>0, <2>2, <3>1, SMT
    <2> QED
      BY <2>1, <2>2
  <1>6. 0 <= Minutes(u) /\ Minutes(u) < MinutesPerCycle
    BY <1>3, MinutesBounds
  <1>7. Utc(t) = Minutes(u)
    <2> DEFINE m == Minutes(t) - 60 * (1 + t.tm_isdst)
    <2>1. m \in Int
      BY <1>4
    <2>2. Utc(t) = m % MinutesPerCycle
      BY Zenon DEF Utc
    <2> HIDE DEF m, u
    <2>3. \/ Minutes(u) = m \/ Minutes(u) = m + MinutesPerCycle
          \/ Minutes(u) = m + 2 * MinutesPerCycle
      BY <1>5, Zenon DEF m
    <2> QED
      BY <1>4, <1>6, <2>1, <2>2, <2>3, CycleLength, SMT
  <1>8. g = [u EXCEPT !.tm_isdst = -2]
    <2>1. CASE t.tm_isdst = 0
      <3>1. t.tm_isdst # 1
        BY <2>1
      <3> QED
        BY <2>1, <3>1, Zenon DEF get_utctime, h
    <2>2. CASE t.tm_isdst = 1
      <3>1. t.tm_isdst # 0
        BY <2>2
      <3> QED
        BY <2>2, <3>1, Zenon DEF get_utctime, h
    <2> QED
      BY <2>1, <2>2
  <1> HIDE DEF u, g
  <1>9. /\ g \in TimeRec /\ SameDate(g, u)
        /\ g.tm_min = u.tm_min /\ g.tm_hour = u.tm_hour
    <2>1. -2 \in Int
      OBVIOUS
    <2>2. Clock([u EXCEPT !.tm_isdst = -2], u, u.tm_min, u.tm_hour, -2)
      BY <1>3, <2>1, OffsetField, Zenon
    <2> QED
      BY <1>8, <2>2, Zenon DEF Clock
  <1>10. ValidDate(u) /\ u.tm_min \in 0 .. 59 /\ u.tm_hour \in 0 .. 23
    BY <1>3, ValidTimeIs
  <1>11. ValidDate(g) /\ Day(g) = Day(u)
    BY <1>9, <1>10, SameDateValid
  <1>12. ValidTime(g)
    BY <1>9, <1>10, <1>11, ValidTimeIs
  <1>13. Minutes(g) = Minutes(u)
    BY <1>9, <1>11, Zenon DEF Minutes
  <1> QED
    BY <1>7, <1>12, <1>13 DEF g

(***************************************************************************)
(* Every minute that passes is a minute of UTC, over all changes of the    *)
(* offset but the one to summer time at 23:59 (MayChange), and             *)
(* get_utctime() shows it.                                                 *)
(***************************************************************************)
THEOREM UtcFollows ==
  Spec => []UtcGoesOn
  <1>1. IInv => UtcGoesOn
    BY UtcTimeRight DEF IInv, TypeOK, UtcGoesOn
  <1> QED
    BY <1>1, Invariant, PTL

-----------------------------------------------------------------------------
(***************************************************************************)
(* What substract_minute() does to the fields.                             *)
(***************************************************************************)
LEMMA SubstractMinuteFields ==
  ASSUME NEW t \in TimeRec, t.tm_mday >= 1, NEW c \in BOOLEAN,
         NEW n, n = substract_minute(t, c),
         NEW hour \in Int, hour = t.tm_hour - Shift(t, c)
  PROVE  /\ n \in TimeRec
         /\ n.tm_isdst = t.tm_isdst /\ n.tm_yday = t.tm_yday
         /\ t.tm_min > 0 => /\ n.tm_min = t.tm_min - 1
                            /\ n.tm_hour = t.tm_hour /\ SameDate(n, t)
         /\ ~(t.tm_min > 0) /\ hour # 0 =>
              n.tm_min = 59 /\ n.tm_hour = hour - 1 /\ SameDate(n, t)
         /\ ~(t.tm_min > 0) /\ hour = 0 =>
              /\ n.tm_min = 59 /\ n.tm_hour = 23
              /\ \E h \in TimeRec : SameDate(h, t) /\ n = PreviousDay(h)
  <1>1. CASE t.tm_min > 0
    <2> DEFINE min == t.tm_min - 1
    <2>1. n = [t EXCEPT !.tm_min = min]
      BY <1>1, Zenon DEF substract_minute
    <2>2. min \in Int
      BY DEF TimeRec
    <2> HIDE DEF min
    <2>3. /\ n \in TimeRec /\ SameDate(n, t)
          /\ n.tm_min = min /\ n.tm_hour = t.tm_hour
          /\ n.tm_isdst = t.tm_isdst /\ n.tm_yday = t.tm_yday
      <3>1. Clock([t EXCEPT !.tm_min = min], t, min, t.tm_hour, t.tm_isdst)
        BY <2>2, MinuteField
      <3> QED
        BY <2>1, <3>1, Zenon DEF Clock
    <2> QED
      BY <1>1, <2>3 DEF min
  <1>2. CASE ~(t.tm_min > 0)
    <2> DEFINE h == [t EXCEPT !.tm_min = 59, !.tm_hour = hour]
    <2>1. n = substract_hour(h)
      BY <1>2, Zenon DEF substract_minute
    <2>2. /\ h \in TimeRec /\ SameDate(h, t)
          /\ h.tm_min = 59 /\ h.tm_hour = hour
          /\ h.tm_isdst = t.tm_isdst /\ h.tm_yday = t.tm_yday
      <3>1. Clock([t EXCEPT !.tm_min = 59, !.tm_hour = hour], t, 59, hour, t.tm_isdst)
        <4>1. 59 \in Int
          OBVIOUS
        <4> QED
          BY <4>1, ClockFields, Zenon
      <3> QED
        BY <3>1, Zenon DEF Clock
    <2> HIDE DEF h
    <2>3. CASE hour = 0
      <3>1. n = PreviousDay(h)
        BY <2>1, <2>2, <2>3 DEF substract_hour
      <3>2. h.tm_mday >= 1
        BY <2>2 DEF SameDate
      <3>3. /\ n \in TimeRec /\ n.tm_min = h.tm_min /\ n.tm_hour = 23
            /\ n.tm_isdst = h.tm_isdst /\ n.tm_yday = h.tm_yday
        BY <2>2, <3>1, <3>2, PreviousDayFields
      <3> QED
        BY <1>2, <2>2, <2>3, <3>1, <3>3, Zenon
    <2>4. CASE hour # 0
      <3> DEFINE before == hour - 1
      <3>1. before \in Int
        OBVIOUS
      <3>2. n = [h EXCEPT !.tm_hour = before]
        BY <2>1, <2>2, <2>4, Zenon DEF substract_hour
      <3> HIDE DEF before
      <3>3. Clock([h EXCEPT !.tm_hour = before], h, h.tm_min, before, h.tm_isdst)
        BY <2>2, <3>1, HourField
      <3>4. /\ n \in TimeRec /\ SameDate(n, h)
            /\ n.tm_min = h.tm_min /\ n.tm_hour = before
            /\ n.tm_isdst = h.tm_isdst /\ n.tm_yday = h.tm_yday
        BY <3>2, <3>3, Zenon DEF Clock
      <3>5. SameDate(n, t)
        BY <2>2, <3>4, Zenon DEF SameDate
      <3> USE DEF before
      <3> QED
        BY <1>2, <2>2, <2>4, <3>4, <3>5, Zenon
    <2> QED
      BY <2>3, <2>4
  <1> QED
    BY <1>1, <1>2

(***************************************************************************)
(* substract_minute() after add_minute(), in the ways a minute can pass:   *)
(* within the hour, to another hour of the day, and to another day.        *)
(***************************************************************************)
LEMMA MinuteTakenBack ==
  ASSUME NEW t \in TimeRec, ValidTime(t), t.tm_isdst \in {0, 1},
         NEW c \in BOOLEAN, NEW n, n = add_minute(t, c),
         NEW b, b = substract_minute(n, c),
         NEW hour, hour = IF c /\ t.tm_isdst = 0 /\ t.tm_min = 59
                            THEN t.tm_hour ELSE 0
  PROVE  /\ ValidTime(n) <=> hour # 23
         /\ (b = t) <=> hour # 22
  <1> DEFINE shift == Shift(t, c)
             next  == t.tm_hour + 1 + shift
             prev  == n.tm_hour - shift
  <1>1. t.tm_min \in 0 .. 59 /\ t.tm_hour \in 0 .. 23 /\ ValidDate(t)
    BY ValidTimeIs
  <1>2. shift = IF ~c THEN 0 ELSE IF t.tm_isdst = 1 THEN -1 ELSE 1
    BY ShiftIs
  <1>3. shift \in {-1, 0, 1} /\ next \in Int
    BY <1>1, <1>2
  <1>4. next = t.tm_hour + 1 + Shift(t, c)
    OBVIOUS
  <1> HIDE DEF next
  <1>5. /\ n \in TimeRec
        /\ n.tm_isdst = t.tm_isdst /\ n.tm_yday = t.tm_yday
        /\ t.tm_min < 59 => /\ n.tm_min = t.tm_min + 1
                            /\ n.tm_hour = t.tm_hour /\ SameDate(n, t)
        /\ ~(t.tm_min < 59) /\ next # 24 =>
             n.tm_min = 0 /\ n.tm_hour = next /\ SameDate(n, t)
        /\ ~(t.tm_min < 59) /\ next = 24 =>
             /\ n.tm_min = 0 /\ n.tm_hour = 0
             /\ \E h \in TimeRec : SameDate(h, t) /\ n = NextDay(h)
    BY <1>1, <1>3, <1>4, AddMinuteFields
  <1>6. n.tm_hour \in Int /\ n.tm_min \in Int
    BY <1>5 DEF TimeRec
  <1>7. Shift(n, c) = shift
    <2>1. Shift(n, c) = IF ~c THEN 0 ELSE IF n.tm_isdst = 1 THEN -1
                        ELSE IF n.tm_isdst = 0 THEN 1 ELSE 0
      BY ShiftIs
    <2> QED
      BY <1>2, <1>5, <2>1
  <1>8. prev \in Int /\ prev = n.tm_hour - Shift(n, c)
    BY <1>3, <1>6, <1>7
  <1> HIDE DEF shift, prev
  <1>9. ASSUME ValidDate(n)
        PROVE  /\ b \in TimeRec
               /\ b.tm_isdst = n.tm_isdst /\ b.tm_yday = n.tm_yday
               /\ n.tm_min > 0 => /\ b.tm_min = n.tm_min - 1
                                  /\ b.tm_hour = n.tm_hour /\ SameDate(b, n)
               /\ ~(n.tm_min > 0) /\ prev # 0 =>
                    b.tm_min = 59 /\ b.tm_hour = prev - 1 /\ SameDate(b, n)
               /\ ~(n.tm_min > 0) /\ prev = 0 =>
                    /\ b.tm_min = 59 /\ b.tm_hour = 23
                    /\ \E h \in TimeRec : SameDate(h, n) /\ b = PreviousDay(h)
    <2>1. n.tm_mday >= 1
      BY <1>9, LastdayRange DEF ValidDate
    <2> QED
      BY <1>5, <1>8, <2>1, SubstractMinuteFields
  <1>10. ASSUME b \in TimeRec, SameDate(b, t),
                b.tm_min = t.tm_min, b.tm_hour = t.tm_hour,
                b.tm_isdst = t.tm_isdst, b.tm_yday = t.tm_yday
         PROVE  b = t
    BY <1>10, SameFields DEF SameDate
  <1>11. CASE t.tm_min < 59
    <2>1. hour = 0
      BY <1>11
    <2>2. n.tm_min = t.tm_min + 1 /\ n.tm_hour = t.tm_hour /\ SameDate(n, t)
      BY <1>5, <1>11
    <2>3. ValidDate(n)
      BY <1>1, <2>2, SameDateValid
    <2>4. ValidTime(n)
      <3>1. n.tm_min \in 0 .. 59 /\ n.tm_hour \in 0 .. 23
        BY <1>1, <1>11, <2>2
      <3> QED
        BY <2>3, <3>1, ValidTimeIs
    <2>5. n.tm_min > 0 /\ n.tm_min - 1 = t.tm_min
      BY <1>1, <2>2
    <2>6. SameDate(b, t)
      BY <1>9, <2>2, <2>3, <2>5, Zenon DEF SameDate
    <2>7. b = t
      BY <1>5, <1>9, <1>10, <2>2, <2>3, <2>5, <2>6, Zenon
    <2> QED
      BY <2>1, <2>4, <2>7
  <1>12. CASE ~(t.tm_min < 59) /\ next # 24
    <2>1. t.tm_min = 59 /\ next = t.tm_hour + 1 + shift
      BY <1>1, <1>12 DEF next
    <2>2. n.tm_min = 0 /\ n.tm_hour = next /\ SameDate(n, t)
      BY <1>5, <1>12
    <2>3. ValidDate(n)
      BY <1>1, <2>2, SameDateValid
    <2>4. ValidTime(n) <=> n.tm_hour \in 0 .. 23
      <3>1. n.tm_min \in 0 .. 59
        BY <2>2
      <3> QED
        BY <2>3, <3>1, ValidTimeIs
    <2>5. n.tm_hour \in 0 .. 23 <=> hour # 23
      BY <1>1, <1>2, <1>3, <1>12, <2>1, <2>2
    <2>6. hour # 22
      BY <1>1, <1>2, <1>12, <2>1
    <2>7. prev = t.tm_hour + 1
      BY <1>1, <1>3, <2>1, <2>2 DEF prev
    <2>8. prev # 0 /\ prev - 1 = t.tm_hour /\ ~(n.tm_min > 0)
      BY <1>1, <2>2, <2>7
    <2>9. SameDate(b, t)
      BY <1>9, <2>2, <2>3, <2>8, Zenon DEF SameDate
    <2>10. b = t
      BY <1>5, <1>9, <1>10, <2>1, <2>3, <2>8, <2>9, Zenon
    <2> QED
      BY <2>4, <2>5, <2>6, <2>10
  <1>13. CASE ~(t.tm_min < 59) /\ next = 24
    <2>1. t.tm_min = 59 /\ next = t.tm_hour + 1 + shift
      BY <1>1, <1>13 DEF next
    <2>2. n.tm_min = 0 /\ n.tm_hour = 0
      BY <1>5, <1>13
    <2>3. PICK h \in TimeRec : SameDate(h, t) /\ n = NextDay(h)
      BY <1>5, <1>13
    <2>4. ValidDate(h)
      BY <1>1, <2>3, SameDateValid
    <2>5. ValidDate(n)
      BY <2>3, <2>4, NextDayRight
    <2>6. ValidTime(n)
      <3>1. n.tm_min \in 0 .. 59 /\ n.tm_hour \in 0 .. 23
        BY <2>2
      <3> QED
        BY <2>5, <3>1, ValidTimeIs
    <2>7. /\ shift = 0 => t.tm_hour = 23 /\ hour = 0
          /\ shift # 0 => shift = 1 /\ t.tm_hour = 22 /\ hour = 22
      BY <1>1, <1>2, <1>13, <2>1
    <2>8. hour # 23 /\ prev = 0 - shift /\ ~(n.tm_min > 0)
      BY <1>3, <2>2, <2>7 DEF prev
    <2>9. CASE shift = 0
      <3>1. prev = 0
        BY <2>8, <2>9
      <3>2. PICK g \in TimeRec : SameDate(g, n) /\ b = PreviousDay(g)
        BY <1>9, <2>5, <2>8, <3>1
      <3>3. SameDate(b, h)
        BY <2>3, <2>4, <3>2, DayReversible
      <3>4. SameDate(b, t)
        BY <2>3, <3>3, Zenon DEF SameDate
      <3>5. b \in TimeRec /\ b.tm_min = 59 /\ b.tm_hour = 23
            /\ b.tm_isdst = n.tm_isdst /\ b.tm_yday = n.tm_yday
        BY <1>9, <2>5, <2>8, <3>1
      <3>6. b = t
        BY <1>5, <1>10, <2>1, <2>7, <2>9, <3>4, <3>5
      <3> QED
        BY <2>6, <2>7, <2>8, <2>9, <3>6
    <2>10. CASE shift # 0
      <3>1. prev = -1
        BY <2>7, <2>8, <2>10
      <3>2. b.tm_hour = -2
        BY <1>9, <2>5, <2>8, <3>1
      <3>3. b # t
        BY <1>1, <3>2
      <3> QED
        BY <2>6, <2>7, <2>8, <2>10, <3>3
    <2> QED
      BY <2>9, <2>10
  <1> QED
    BY <1>11, <1>12, <1>13

(***************************************************************************)
(* Wherever the time comes, with a change of the offset after it or not,   *)
(* the next minute is a valid time just when that change is not one to     *)
(* summer time at 23:59, and the minute before the next one is the minute  *)
(* just when it is not one at 22:59.                                       *)
(***************************************************************************)
THEOREM MinutesReverse ==
  Spec => []MinuteReversible
  <1>1. IInv => MinuteReversible
    <2> SUFFICES ASSUME IInv PROVE MinuteReversible
      OBVIOUS
    <2>1. time \in TimeRec /\ ValidTime(time) /\ time.tm_isdst \in {0, 1}
      BY DEF IInv, TypeOK
    <2> SUFFICES ASSUME NEW c \in BOOLEAN
                 PROVE  LET new  == add_minute(time, c)
                            hour == IF c /\ time.tm_isdst = 0 /\ time.tm_min = 59
                                      THEN time.tm_hour ELSE 0
                        IN  /\ ValidTime(new) <=> hour # 23
                            /\ (substract_minute(new, c) = time) <=> hour # 22
      BY Zenon DEF MinuteReversible
    <2> DEFINE n    == add_minute(time, c)
               b    == substract_minute(n, c)
               hour == IF c /\ time.tm_isdst = 0 /\ time.tm_min = 59
                         THEN time.tm_hour ELSE 0
    <2>2. n = add_minute(time, c)
      OBVIOUS
    <2> HIDE DEF n
    <2>3. b = substract_minute(n, c)
      OBVIOUS
    <2> HIDE DEF b
    <2>4. hour = IF c /\ time.tm_isdst = 0 /\ time.tm_min = 59
                   THEN time.tm_hour ELSE 0
      OBVIOUS
    <2> HIDE DEF hour
    <2>5. /\ ValidTime(n) <=> hour # 23
          /\ (b = time) <=> hour # 22
      BY <2>1, <2>2, <2>3, <2>4, MinuteTakenBack
    <2> QED
      BY <2>5, Zenon DEF n, b, hour
  <1> QED
    BY <1>1, Invariant, PTL

-----------------------------------------------------------------------------
(***************************************************************************)
(* get_isotime(): the day of the year is the distance of the Julian day    *)
(* number from that of 1 January, and get_dcftime() undoes the conversion. *)
(***************************************************************************)
LEMMA IsoRight ==
  ASSUME NEW t \in TimeRec, ValidDate(t), NEW iso, iso = get_isotime(t),
         NEW dcf, dcf = get_dcftime(iso),
         NEW yday, yday = Day(t) - DayNumber(t.tm_year, 1, 1)
  PROVE  /\ iso.tm_mon \in 0 .. 11 /\ iso.tm_wday \in 0 .. 6
         /\ iso.tm_yday = yday
         /\ dcf = [t EXCEPT !.tm_yday = yday + 1]
  <1> DEFINE doy  == DayOfYear(t.tm_year, t.tm_mon, t.tm_mday)
             mon  == t.tm_mon - 1
             year == t.tm_year - 1900
             wday == IF t.tm_wday = 7 THEN 0 ELSE t.tm_wday
             day  == doy - 1
  <1>1. /\ t.tm_mon \in 1 .. 12 /\ t.tm_wday \in 1 .. 7
        /\ t.tm_mday \in Int /\ t.tm_year \in Int
    <2>1. t.tm_wday = (Day(t) % 7) + 1 /\ t.tm_mon \in 1 .. 12
      BY DEF ValidDate, Weekday, Day
    <2> QED
      BY <2>1, DayType DEF TimeRec
  <1>2. doy \in Int
    BY <1>1, DaysBefore DEF DayOfYear
  <1>3. yday = day /\ day \in Int
    <2>1. Day(t) = DayNumber(t.tm_year, 1, 1) + doy - 1
      BY <1>1, DayOfYearRight DEF Day
    <2>2. DayNumber(t.tm_year, 1, 1) \in Int
      BY <1>1 DEF DayNumber
    <2> HIDE DEF doy
    <2> QED
      BY <1>2, <2>1, <2>2
  <1>4. /\ mon \in 0 .. 11 /\ wday \in 0 .. 6 /\ year \in Int
    BY <1>1
  <1>5. iso = [t EXCEPT !.tm_mon = mon, !.tm_year = year, !.tm_wday = wday,
                        !.tm_yday = day]
    BY Zenon DEF get_isotime
  <1>6. mon \in Int /\ wday \in Int
    BY <1>4
  <1> HIDE DEF doy, mon, year, wday, day
  <1>7. iso \in TimeRec
    BY <1>3, <1>4, <1>5, <1>6 DEF TimeRec
  <1>8. /\ iso.tm_min = t.tm_min /\ iso.tm_hour = t.tm_hour
        /\ iso.tm_mday = t.tm_mday /\ iso.tm_isdst = t.tm_isdst
        /\ iso.tm_mon = mon /\ iso.tm_year = year /\ iso.tm_wday = wday
        /\ iso.tm_yday = day
    BY <1>3, <1>4, <1>5, <1>6 DEF TimeRec
  <1> DEFINE mon2  == iso.tm_mon + 1
             year2 == iso.tm_year + 1900
             wday2 == IF iso.tm_wday = 0 THEN 7 ELSE iso.tm_wday
             day2  == DayOfYear(iso.tm_year + 1900, iso.tm_mon + 1, iso.tm_mday)
  <1>9. dcf = [iso EXCEPT !.tm_mon = mon2, !.tm_year = year2, !.tm_wday = wday2,
                          !.tm_yday = day2]
    BY Zenon DEF get_dcftime
  <1>10. mon2 = t.tm_mon /\ year2 = t.tm_year
    BY <1>1, <1>8 DEF mon, year
  <1>11. wday2 = t.tm_wday
    BY <1>1, <1>8 DEF wday
  <1>12. day2 = doy
    <2>1. iso.tm_mday = t.tm_mday
      BY <1>8
    <2>2. day2 = DayOfYear(year2, mon2, iso.tm_mday)
      OBVIOUS
    <2> HIDE DEF mon2, year2, day2
    <2> QED
      BY <1>10, <2>1, <2>2, Zenon DEF doy
  <1>13. /\ mon2 \in Int /\ year2 \in Int /\ wday2 \in Int /\ day2 \in Int
    BY <1>1, <1>2, <1>10, <1>11, <1>12
  <1> HIDE DEF mon2, year2, wday2, day2
  <1>14. dcf \in TimeRec
    BY <1>7, <1>9, <1>13 DEF TimeRec
  <1>15. /\ dcf.tm_min = iso.tm_min /\ dcf.tm_hour = iso.tm_hour
         /\ dcf.tm_mday = iso.tm_mday /\ dcf.tm_isdst = iso.tm_isdst
         /\ dcf.tm_mon = mon2 /\ dcf.tm_year = year2 /\ dcf.tm_wday = wday2
         /\ dcf.tm_yday = day2
    BY <1>7, <1>9, <1>13 DEF TimeRec
  <1> DEFINE new == [t EXCEPT !.tm_yday = doy]
  <1>16. new \in TimeRec
    BY <1>2 DEF TimeRec
  <1>17. /\ new.tm_min = t.tm_min /\ new.tm_hour = t.tm_hour
         /\ new.tm_mday = t.tm_mday /\ new.tm_isdst = t.tm_isdst
         /\ new.tm_mon = t.tm_mon /\ new.tm_year = t.tm_year
         /\ new.tm_wday = t.tm_wday /\ new.tm_yday = doy
    BY <1>2 DEF TimeRec
  <1>18. yday + 1 = doy
    BY <1>2, <1>3 DEF day
  <1>19. new = [t EXCEPT !.tm_yday = yday + 1]
    BY <1>18, Zenon
  <1> HIDE DEF new
  <1>20. dcf = new
    BY <1>8, <1>10, <1>11, <1>12, <1>14, <1>15, <1>16, <1>17, SameFields
  <1> QED
    BY <1>3, <1>4, <1>8, <1>19, <1>20, Zenon

(***************************************************************************)
(* Wherever the time comes, what setclock() makes of it has the ranges of  *)
(* ISO C, and the same date.                                               *)
(***************************************************************************)
THEOREM IsoReverses ==
  Spec => []IsoReversible
  <1>1. IInv => IsoReversible
    <2> SUFFICES ASSUME IInv PROVE IsoReversible
      OBVIOUS
    <2>1. time \in TimeRec /\ ValidDate(time)
      BY ValidTimeIs DEF IInv, TypeOK
    <2> DEFINE iso  == get_isotime(time)
               dcf  == get_dcftime(iso)
               yday == Day(time) - DayNumber(time.tm_year, 1, 1)
    <2>2. iso = get_isotime(time)
      OBVIOUS
    <2> HIDE DEF iso
    <2>3. dcf = get_dcftime(iso)
      OBVIOUS
    <2> HIDE DEF dcf
    <2>4. yday = Day(time) - DayNumber(time.tm_year, 1, 1)
      OBVIOUS
    <2> HIDE DEF yday
    <2>5. /\ iso.tm_mon \in 0 .. 11 /\ iso.tm_wday \in 0 .. 6
          /\ iso.tm_yday = yday
          /\ dcf = [time EXCEPT !.tm_yday = yday + 1]
      BY <2>1, <2>2, <2>3, <2>4, IsoRight
    <2> QED
      BY <2>5, Zenon DEF IsoReversible, iso, dcf, yday
  <1> QED
    BY <1>1, Invariant, PTL

-----------------------------------------------------------------------------
(***************************************************************************)
(* century_offset().  In numbers: x is the weekday of the date less what   *)
(* the years of the century contribute, and d the day of a leap year.      *)
(***************************************************************************)
Common(year) == IF year % 4 > 0 THEN 1 ELSE 0

CenturyWeekday(x) == IF CMod(x, 7) < 1 THEN CMod(x, 7) + 7 ELSE CMod(x, 7)

\* The day on which the weeks end, at the end of February.
WeeksEnd(d, k, wd) ==
  IF d < 60
    THEN d + 7 * ((59 - d) \div 7) + (IF wd = 1 THEN 0 ELSE 8 - wd)
    ELSE d - k - 7 * ((d - k - 59) \div 7) - (wd - 1)

CenturyOf(tmp) ==
  CASE tmp = 59                -> 1
    [] tmp \in {53, 54, 60, 61} -> 2
    [] tmp \in {55, 56, 62, 63} -> 3
    [] tmp \in {57, 58, 64, 65} -> 0
    [] OTHER                   -> -1

LEMMA CenturyWeekdayRight ==
  ASSUME NEW x \in Int
  PROVE  /\ CenturyWeekday(x) \in 1 .. 7
         /\ \E q \in Int : CenturyWeekday(x) = x + 7 * q
  <1>1. CenturyWeekday(x) \in 1 .. 7 /\ (CenturyWeekday(x) - x) % 7 = 0
    BY DEF CenturyWeekday, CMod
  <1> DEFINE wd == CenturyWeekday(x)
             q  == (wd - x) \div 7
  <1> HIDE DEF wd
  <1>2. wd \in 1 .. 7 /\ (wd - x) % 7 = 0
    BY <1>1 DEF wd
  <1>3. q \in Int /\ wd = x + 7 * q
    BY <1>2
  <1> QED
    BY <1>2, <1>3 DEF wd

\* The day of the year in these weeks.
WeeksDay(d, k) == IF d < 60 THEN d ELSE d - k

LEMMA WeeksEndRight ==
  ASSUME NEW d \in 1 .. 366, NEW k \in {0, 1}, NEW wd \in 1 .. 7
  PROVE  /\ WeeksEnd(d, k, wd) \in 53 .. 65
         /\ \E q \in Int : WeeksEnd(d, k, wd) = WeeksDay(d, k) + 1 - wd + 7 * q
  <1> DEFINE e == WeeksDay(d, k)
  <1>0. e = IF d < 60 THEN d ELSE d - k
    BY DEF WeeksDay
  <1> HIDE DEF e
  <1>1. CASE d < 60
    <2> DEFINE q == (59 - d) \div 7
    <2>1. q \in Int /\ 59 - d - 7 * q \in 0 .. 6
      OBVIOUS
    <2>2. WeeksEnd(d, k, wd) = d + 7 * q + (IF wd = 1 THEN 0 ELSE 8 - wd)
      BY <1>1 DEF WeeksEnd
    <2> HIDE DEF q
    <2>3. WeeksEnd(d, k, wd) \in 53 .. 65
      BY <2>1, <2>2
    <2>4. CASE wd = 1
      <3>1. WeeksEnd(d, k, wd) = e + 1 - wd + 7 * q
        BY <1>0, <1>1, <2>1, <2>2, <2>4
      <3> QED
        BY <2>1, <2>3, <3>1 DEF e
    <2>5. CASE wd # 1
      <3>1. WeeksEnd(d, k, wd) = e + 1 - wd + 7 * (q + 1)
        BY <1>0, <1>1, <2>1, <2>2, <2>5
      <3>2. q + 1 \in Int
        BY <2>1
      <3> QED
        BY <2>3, <3>1, <3>2 DEF e
    <2> QED
      BY <2>4, <2>5
  <1>2. CASE ~(d < 60)
    <2> DEFINE q == (d - k - 59) \div 7
    <2>1. q \in Int /\ d - k - 59 - 7 * q \in 0 .. 6
      BY <1>2
    <2>2. WeeksEnd(d, k, wd) = d - k - 7 * q - (wd - 1)
      BY <1>2 DEF WeeksEnd
    <2> HIDE DEF q
    <2>3. WeeksEnd(d, k, wd) \in 53 .. 65
      BY <2>1, <2>2
    <2>4. WeeksEnd(d, k, wd) = e + 1 - wd + 7 * (0 - q)
      BY <1>0, <1>2, <2>1, <2>2
    <2>5. 0 - q \in Int
      BY <2>1
    <2> QED
      BY <2>3, <2>4, <2>5 DEF e
  <1> QED
    BY <1>1, <1>2

LEMMA CenturyOfIs ==
  ASSUME NEW tmp \in 53 .. 65
  PROVE  CenturyOf(tmp) = IF tmp % 7 = 3 THEN 1
                          ELSE IF tmp % 7 \in {4, 5} THEN 2
                          ELSE IF tmp % 7 \in {6, 0} THEN 3 ELSE 0
  <1>53. CASE tmp = 53
    BY <1>53 DEF CenturyOf
  <1>54. CASE tmp = 54
    BY <1>54 DEF CenturyOf
  <1>55. CASE tmp = 55
    BY <1>55 DEF CenturyOf
  <1>56. CASE tmp = 56
    BY <1>56 DEF CenturyOf
  <1>57. CASE tmp = 57
    BY <1>57 DEF CenturyOf
  <1>58. CASE tmp = 58
    BY <1>58 DEF CenturyOf
  <1>59. CASE tmp = 59
    BY <1>59 DEF CenturyOf
  <1>60. CASE tmp = 60
    BY <1>60 DEF CenturyOf
  <1>61. CASE tmp = 61
    BY <1>61 DEF CenturyOf
  <1>62. CASE tmp = 62
    BY <1>62 DEF CenturyOf
  <1>63. CASE tmp = 63
    BY <1>63 DEF CenturyOf
  <1>64. CASE tmp = 64
    BY <1>64 DEF CenturyOf
  <1>65. CASE tmp = 65
    BY <1>65 DEF CenturyOf
  <1> QED
    BY <1>53, <1>54, <1>55, <1>56, <1>57, <1>58, <1>59, <1>60, <1>61, <1>62, <1>63, <1>64, <1>65

(***************************************************************************)
(* The first days of the years of the centuries.                           *)
(***************************************************************************)
FirstDay(c) == CASE c = 0 -> 2415021 [] c = 1 -> 2451545
                 [] c = 2 -> 2488070 [] c = 3 -> 2524594

LEMMA YearStart ==
  ASSUME NEW y \in 0 .. 99, NEW c \in 0 .. 3, NEW k, k = Common(y)
  PROVE  DayNumber(base_year + 100 * c + y, 1, 1)
           = FirstDay(c) + 365 * y + y \div 4 + k
               - (IF c # 1 /\ y > 0 THEN 1 ELSE 0)
  <1>0. CASE c = 0
    BY <1>0, SMT DEF DayNumber, FirstDay, Common, base_year
  <1>1. CASE c = 1
    BY <1>1, SMT DEF DayNumber, FirstDay, Common, base_year
  <1>2. CASE c = 2
    BY <1>2, SMT DEF DayNumber, FirstDay, Common, base_year
  <1>3. CASE c = 3
    BY <1>3, SMT DEF DayNumber, FirstDay, Common, base_year
  <1> QED
    BY <1>0, <1>1, <1>2, <1>3

LEMMA CenturyOffsetIs ==
  ASSUME NEW t, t.tm_year \in 0 .. 99, t.tm_mon \in 1 .. 12,
         t.tm_mday \in 1 .. 31, t.tm_wday \in 1 .. 7,
         NEW d, d = dayinleapyear[t.tm_mon] + t.tm_mday,
         NEW k, k = Common(t.tm_year),
         NEW x, x = t.tm_wday - t.tm_year - t.tm_year \div 4 - k
  PROVE  century_offset(t) = CenturyOf(WeeksEnd(d, k, CenturyWeekday(x)))
  <1> DEFINE common == t.tm_year % 4 > 0
             dd     == dayinleapyear[t.tm_mon] + t.tm_mday
             w      == CMod(t.tm_wday - t.tm_year - t.tm_year \div 4
                              - (IF common THEN 1 ELSE 0), 7)
             wd     == IF w < 1 THEN w + 7 ELSE w
             after  == IF common THEN dd - 1 ELSE dd
             tmp    == IF dd < 60
                         THEN dd + 7 * ((59 - dd) \div 7)
                                + (IF wd = 1 THEN 0 ELSE 8 - wd)
                         ELSE after - 7 * ((after - 59) \div 7) - (wd - 1)
  <1>1. d \in Int
    BY DaysBefore
  <1>2. k = IF common THEN 1 ELSE 0
    BY DEF Common
  <1>3. wd = CenturyWeekday(x)
    BY <1>2, Zenon DEF CenturyWeekday
  <1>0. dd = d
    OBVIOUS
  <1>4. after = d - k
    BY <1>0, <1>1, <1>2
  <1>5. century_offset(t) = CenturyOf(tmp)
    BY Zenon DEF century_offset, CenturyOf
  <1> HIDE DEF wd, after, dd
  <1>6. tmp = WeeksEnd(d, k, wd)
    BY <1>0, <1>4, Zenon DEF WeeksEnd
  <1> QED
    BY <1>3, <1>5, <1>6, Zenon

(***************************************************************************)
(* A date that falls on the weekday in a century gets that century.        *)
(***************************************************************************)
LEMMA CenturyRight ==
  ASSUME NEW t, t.tm_year \in 0 .. 99, t.tm_mon \in 1 .. 12,
         t.tm_mday \in 1 .. 31, t.tm_wday \in 1 .. 7
  PROVE  /\ century_offset(t) \in 0 .. 3
         /\ \A c \in 0 .. 3 :
              /\ t.tm_mday <= Last(t.tm_mon, base_year + 100 * c + t.tm_year)
              /\ Weekday(base_year + 100 * c + t.tm_year, t.tm_mon, t.tm_mday)
                   = t.tm_wday
              => century_offset(t) = c
  <1> DEFINE y == t.tm_year
             d == dayinleapyear[t.tm_mon] + t.tm_mday
             k == Common(y)
             x == t.tm_wday - y - y \div 4 - k
             e == WeeksDay(d, k)
  <1>1. d \in 1 .. 366
    BY DaysBefore
  <1>2. k \in {0, 1} /\ (k = 0 <=> y % 4 = 0)
    BY DEF Common
  <1>3. x \in Int
    BY <1>2
  <1>4. d = dayinleapyear[t.tm_mon] + t.tm_mday /\ k = Common(t.tm_year)
    OBVIOUS
  <1>5. x = t.tm_wday - t.tm_year - t.tm_year \div 4 - k
    OBVIOUS
  <1>6. e = IF d < 60 THEN d ELSE d - k
    BY DEF WeeksDay
  <1>7. e \in Int
    <2> HIDE DEF d, k, e
    <2> QED  BY <1>1, <1>2, <1>6
  <1> HIDE DEF d, k, x, e
  <1>8. PICK q1 \in Int : CenturyWeekday(x) = x + 7 * q1
    BY <1>3, CenturyWeekdayRight
  <1>9. CenturyWeekday(x) \in 1 .. 7
    BY <1>3, CenturyWeekdayRight
  <1> DEFINE tmp == WeeksEnd(d, k, CenturyWeekday(x))
  <1>10. /\ tmp \in 53 .. 65
         /\ \E q \in Int : tmp = e + 1 - CenturyWeekday(x) + 7 * q
    BY <1>1, <1>2, <1>9, WeeksEndRight, Zenon DEF e
  <1>11. PICK q2 \in Int : tmp = e + 1 - CenturyWeekday(x) + 7 * q2
    BY <1>10
  <1>12. century_offset(t) = CenturyOf(tmp)
    BY <1>4, <1>5, CenturyOffsetIs
  <1> HIDE DEF tmp
  <1>13. CenturyOf(tmp) = IF tmp % 7 = 3 THEN 1
                          ELSE IF tmp % 7 \in {4, 5} THEN 2
                          ELSE IF tmp % 7 \in {6, 0} THEN 3 ELSE 0
    BY <1>10, CenturyOfIs
  <1>14. century_offset(t) \in 0 .. 3
    BY <1>12, <1>13
  <1>15. ASSUME NEW c \in 0 .. 3,
                t.tm_mday <= Last(t.tm_mon, base_year + 100 * c + y),
                Weekday(base_year + 100 * c + y, t.tm_mon, t.tm_mday) = t.tm_wday
         PROVE  century_offset(t) = c
    <2> DEFINE year  == base_year + 100 * c + y
               first == DayNumber(year, 1, 1)
               day   == DayOfYear(year, t.tm_mon, t.tm_mday)
               late  == IF c # 1 /\ y > 0 THEN 1 ELSE 0
    <2>1. year \in Int /\ first \in Int
      BY DEF base_year, DayNumber
    <2>2. first = FirstDay(c) + 365 * y + y \div 4 + k - late
      BY <1>4, YearStart
    <2>3. DayNumber(year, t.tm_mon, t.tm_mday) = first + day - 1
      BY <2>1, DayOfYearRight, SMTT(40)
    <2>4. day \in Int
      BY DaysBefore DEF DayOfYear
    <2>5. e - day = IF c # 1 /\ y = 0 /\ t.tm_mon > 2 THEN 1 ELSE 0
      <3>1. isleapyear(year) <=> k = 0 /\ (y = 0 => c = 1)
        <4>1. CASE c = 0
          BY <1>2, <4>1 DEF isleapyear, base_year
        <4>2. CASE c = 1
          BY <1>2, <4>2 DEF isleapyear, base_year
        <4>3. CASE c = 2
          BY <1>2, <4>3 DEF isleapyear, base_year
        <4>4. CASE c = 3
          BY <1>2, <4>4 DEF isleapyear, base_year
        <4> QED
          BY <4>1, <4>2, <4>3, <4>4
      <3>2. CASE t.tm_mon \in {1, 2}
        <4>1. day = d
          BY <1>1, <1>4, <3>2 DEF DayOfYear
        <4>2. d < 60 \/ (t.tm_mon = 2 /\ t.tm_mday >= 29)
          BY <1>4, <3>2, DaysBefore
        <4>3. e = d
          <5>1. CASE d < 60
            BY <1>6, <5>1
          <5>2. CASE ~(d < 60)
            <6>1. Last(t.tm_mon, year) = IF isleapyear(year) THEN 29 ELSE 28
              BY <4>2, <5>2 DEF Last
            <6>2. k = 0
              BY <1>15, <3>1, <4>2, <5>2, <6>1
            <6> QED
              BY <1>1, <1>6, <5>2, <6>2
          <5> QED
            BY <5>1, <5>2
        <4> QED
          BY <1>1, <3>2, <4>1, <4>3
      <3>3. CASE t.tm_mon \in 3 .. 12
        <4>1. d > 60
          BY <1>4, <3>3, DaysBefore
        <4>2. e = d - k
          BY <1>1, <1>6, <4>1
        <4>3. day = d - (IF isleapyear(year) THEN 0 ELSE 1)
          <5>1. year \in Int /\ t.tm_mday \in Int
            BY <2>1
          <5>2. d = dayinleapyear[t.tm_mon] + t.tm_mday
            BY <1>4
          <5> HIDE DEF year
          <5>3. /\ isleapyear(year) => DayOfYear(year, t.tm_mon, t.tm_mday) = d
                /\ ~isleapyear(year) => DayOfYear(year, t.tm_mon, t.tm_mday) = d - 1
            <6> DEFINE mon  == t.tm_mon
                       mday == t.tm_mday
            <6>1. mon \in 3 .. 12 /\ mday \in Int /\ year \in Int
              BY <3>3, <5>1
            <6>2. d = dayinleapyear[mon] + mday
              BY <5>2
            <6> HIDE DEF mon, mday
            <6>3. /\ isleapyear(year) => DayOfYear(year, mon, mday) = d
                  /\ ~isleapyear(year) => DayOfYear(year, mon, mday) = d - 1
              BY <6>1, <6>2, DayAfterFebruary
            <6> QED
              BY <6>3 DEF mon, mday
          <5> QED
            BY <1>1, <5>3
        <4> HIDE DEF day
        <4>4. e - day = (IF isleapyear(year) THEN 0 ELSE 1) - k
          BY <1>1, <1>2, <4>2, <4>3
        <4> QED
          BY <1>2, <3>1, <3>3, <4>4
      <3> QED
        BY <3>2, <3>3
    <2>6. t.tm_wday = ((first + day - 1) % 7) + 1
      BY <1>15, <2>3 DEF Weekday
    <2> DEFINE q3 == (first + day - 1) \div 7
    <2> HIDE DEF first, day
    <2>7. q3 \in Int /\ t.tm_wday = first + day - 7 * q3
      BY <2>1, <2>4, <2>6
    <2> HIDE DEF q3
    <2>8. PICK q \in Int : tmp = (e - day) + 1 - FirstDay(c) + late + 7 * q
      <3>1. tmp = e + 1 - x - 7 * q1 + 7 * q2
        BY <1>3, <1>7, <1>8, <1>11
      <3>2. FirstDay(c) \in Int
        BY DEF FirstDay
      <3>3. late \in Int
        OBVIOUS
      <3> HIDE DEF late
      <3>4. x = FirstDay(c) + 364 * y - late + day - 7 * q3
        BY <1>2, <1>5, <2>1, <2>2, <2>4, <2>7, <3>2, <3>3
      <3>5. tmp = (e - day) + 1 - FirstDay(c) + late + 7 * (q3 + q2 - q1 - 52 * y)
        BY <1>7, <2>4, <2>7, <3>1, <3>2, <3>3, <3>4
      <3>6. q3 + q2 - q1 - 52 * y \in Int
        BY <2>7
      <3> QED
        BY <3>5, <3>6
    <2>9. tmp \in Int
      BY <1>10
    <2>10. CASE c = 0
      BY <1>12, <1>13, <2>5, <2>8, <2>9, <2>10 DEF FirstDay
    <2>11. CASE c = 1
      BY <1>12, <1>13, <2>5, <2>8, <2>9, <2>11 DEF FirstDay
    <2>12. CASE c = 2
      BY <1>12, <1>13, <2>5, <2>8, <2>9, <2>12 DEF FirstDay
    <2>13. CASE c = 3
      BY <1>12, <1>13, <2>5, <2>8, <2>9, <2>13 DEF FirstDay
    <2> QED
      BY <2>10, <2>11, <2>12, <2>13
  <1> QED
    BY <1>14, <1>15

(***************************************************************************)
(* What calculate_date() stamps: the date in the century of                *)
(* century_offset(), unless its month is too short there.                  *)
(***************************************************************************)
DateIn(mday, wday, mon, y, c) ==
  /\ \A b \in 0 .. 3 :
       /\ mday <= Last(mon, base_year + 100 * b + y)
       /\ Weekday(base_year + 100 * b + y, mon, mday) = wday
       => b = c
  /\ mday > Last(mon, base_year + 100 * c + y) =>
       calculate_date(mday, wday, mon, y) = NoDate
  /\ ~(mday > Last(mon, base_year + 100 * c + y)) =>
       \E date : /\ calculate_date(mday, wday, mon, y) = date
                 /\ date # NoDate
                 /\ date.tm_year = base_year + 100 * c + y
                 /\ lastday(date) = Last(mon, base_year + 100 * c + y)

LEMMA DateIs ==
  ASSUME NEW mday \in 1 .. 31, NEW wday \in 1 .. 7, NEW mon \in 1 .. 12,
         NEW y \in 0 .. 99
  PROVE  \E c \in 0 .. 3 : DateIn(mday, wday, mon, y, c)
  <1> DEFINE new  == [tm_mday |-> mday, tm_mon |-> mon, tm_year |-> y,
                      tm_wday |-> wday]
             c    == century_offset(new)
             year == base_year + 100 * c + y
             date == [new EXCEPT !.tm_year = year]
  <1>1. /\ new.tm_mday = mday /\ new.tm_mon = mon /\ new.tm_year = y
        /\ new.tm_wday = wday
    OBVIOUS
  <1>2. /\ c \in 0 .. 3
        /\ \A b \in 0 .. 3 :
             /\ mday <= Last(mon, base_year + 100 * b + y)
             /\ Weekday(base_year + 100 * b + y, mon, mday) = wday
             => b = c
    <2> HIDE DEF new
    <2>1. /\ century_offset(new) \in 0 .. 3
          /\ \A b \in 0 .. 3 :
               /\ new.tm_mday <= Last(new.tm_mon, base_year + 100 * b + new.tm_year)
               /\ Weekday(base_year + 100 * b + new.tm_year, new.tm_mon, new.tm_mday)
                    = new.tm_wday
               => century_offset(new) = b
      BY <1>1, CenturyRight
    <2> QED
      BY <1>1, <2>1
  <1>3. /\ date.tm_mday = mday /\ date.tm_mon = mon /\ date.tm_year = year
    <2> HIDE DEF c, year
    <2> QED  OBVIOUS
  <1>4. lastday(date) = Last(mon, year)
    <2> HIDE DEF date, year
    <2> QED  BY <1>3, LastdayIs
  <1>5. ~(mday \notin 1 .. 31 \/ wday = 0 \/ mon \notin 1 .. 12 \/ y > 99)
    OBVIOUS
  <1>6. c # -1
    BY <1>2
  <1>7. calculate_date(mday, wday, mon, y)
          = IF mday > lastday(date) THEN NoDate ELSE date
    BY <1>5, <1>6, Zenon DEF calculate_date
  <1>8. date # NoDate
    <2>1. NoDate.tm_mday = 0
      BY DEF NoDate
    <2> HIDE DEF date
    <2> QED  BY <1>3, <2>1
  <1>9. year = base_year + 100 * c + y
    OBVIOUS
  <1> HIDE DEF date, year, c
  <1>10. /\ mday > Last(mon, year) =>
              calculate_date(mday, wday, mon, y) = NoDate
         /\ ~(mday > Last(mon, year)) =>
              \E d : /\ calculate_date(mday, wday, mon, y) = d
                     /\ d # NoDate /\ d.tm_year = year
                     /\ lastday(d) = Last(mon, year)
    BY <1>3, <1>4, <1>7, <1>8, Zenon
  <1> QED
    BY <1>2, <1>9, <1>10, Zenon DEF DateIn

\* The years with these two digits in which the date of t has this weekday.
Years(t, wday, y) ==
  {year \in {base_year + 100 * c + y : c \in 0 .. 3} :
     /\ t.tm_mday <= lastday([t EXCEPT !.tm_year = year])
     /\ Weekday(year, t.tm_mon, t.tm_mday) = wday}

Recovered(t, y, date, years) ==
  /\ years # {} => {date.tm_year} = years
  /\ IF date = NoDate THEN y = 0 /\ t.tm_mon = 2 /\ t.tm_mday = 29
                      ELSE t.tm_mday <= lastday(date)

LEMMA DateFound ==
  ASSUME NEW t \in TimeRec, ValidDate(t), NEW wday \in 1 .. 7,
         NEW y, y = t.tm_year % 100,
         NEW date, date = calculate_date(t.tm_mday, wday, t.tm_mon, y),
         NEW years, years = Years(t, wday, y)
  PROVE  Recovered(t, y, date, years)
  <1>1. /\ t.tm_mon \in 1 .. 12 /\ t.tm_mday \in 1 .. 31
        /\ t.tm_mday <= Last(t.tm_mon, t.tm_year)
        /\ t.tm_year \in base_year .. base_year + 399
    BY LastdayIs, LastdayRange DEF ValidDate
  <1>2. base_year \in Int /\ y \in 0 .. 99
    BY <1>1 DEF base_year
  <1>3. ASSUME NEW year \in Int
        PROVE  lastday([t EXCEPT !.tm_year = year]) = Last(t.tm_mon, year)
    <2> DEFINE s == [t EXCEPT !.tm_year = year]
    <2>1. s.tm_mon = t.tm_mon /\ s.tm_year = year
      BY <1>3 DEF TimeRec
    <2> HIDE DEF s
    <2>2. lastday(s) = Last(t.tm_mon, year)
      BY <2>1, LastdayIs
    <2> QED
      BY <2>2 DEF s
  <1>4. PICK c \in 0 .. 3 : DateIn(t.tm_mday, wday, t.tm_mon, y, c)
    BY <1>1, <1>2, DateIs, Zenon
  <1> DEFINE year == base_year + 100 * c + y
             len  == Last(t.tm_mon, year)
  <1>5. year \in Int /\ len \in Int
    BY <1>2 DEF Last
  <1>6. ASSUME NEW x \in years
        PROVE  x = year /\ t.tm_mday <= len
    <2>1. PICK b \in 0 .. 3 : x = base_year + 100 * b + y
      BY <1>6 DEF Years
    <2>2. x \in Int
      BY <1>2, <2>1
    <2>3. /\ t.tm_mday <= Last(t.tm_mon, x)
          /\ Weekday(x, t.tm_mon, t.tm_mday) = wday
      BY <1>3, <1>6, <2>2 DEF Years
    <2>4. b = c
      BY <1>4, <2>1, <2>3, Zenon DEF DateIn
    <2> QED
      BY <2>1, <2>3, <2>4
  <1>7. years # {} => {date.tm_year} = years
    <2> SUFFICES ASSUME years # {} PROVE {date.tm_year} = years
      OBVIOUS
    <2>1. PICK x : x \in years
      OBVIOUS
    <2>2. t.tm_mday <= len
      BY <1>6, <2>1
    <2>3. ~(t.tm_mday > len)
      BY <1>1, <1>5, <2>2
    <2>4. date.tm_year = year
      BY <1>4, <2>3, Zenon DEF DateIn
    <2> HIDE DEF year
    <2> QED
      BY <1>6, <2>1, <2>4, Zenon
  <1>8. CASE ~(t.tm_mday > len)
    <2>1. date # NoDate /\ lastday(date) = len
      BY <1>4, <1>8, Zenon DEF DateIn
    <2>2. t.tm_mday <= len
      BY <1>1, <1>5, <1>8
    <2> QED
      BY <1>7, <2>1, <2>2, Zenon DEF Recovered
  <1>9. CASE t.tm_mday > len
    <2>1. date = NoDate
      BY <1>4, <1>9, Zenon DEF DateIn
    <2>2. t.tm_mon = 2
      BY <1>1, <1>9 DEF Last
    <2>3. /\ Last(t.tm_mon, t.tm_year) = IF isleapyear(t.tm_year) THEN 29 ELSE 28
          /\ len = IF isleapyear(year) THEN 29 ELSE 28
      BY <2>2 DEF Last
    <2>4. t.tm_mday = 29 /\ isleapyear(t.tm_year) /\ ~isleapyear(year)
      <3> HIDE DEF year, len
      <3> QED
        BY <1>1, <1>9, <2>3
    <2>5. y = 0
      <3>1. y % 4 = 0
        BY <1>1, <2>4 DEF isleapyear, base_year
      <3>2. year % 4 = 0
        BY <1>2, <3>1 DEF base_year
      <3>3. year % 100 = y
        BY <1>2 DEF base_year
      <3> HIDE DEF year
      <3> QED
        BY <1>2, <2>4, <3>2, <3>3 DEF isleapyear
    <2> QED
      BY <1>7, <2>1, <2>2, <2>4, <2>5, Zenon DEF Recovered
  <1> QED
    BY <1>8, <1>9

(***************************************************************************)
(* Wherever the time comes, a received date gets the century in which it   *)
(* falls on the received weekday, which is the only one.  With a weekday   *)
(* that it has in no century it gets some century, in which the date       *)
(* exists; it can only be refused if it is 29 February of a year 00.       *)
(***************************************************************************)
THEOREM DatesRecovered ==
  Spec => []DateRecovered
  <1>1. IInv => DateRecovered
    <2> DEFINE yy         == time.tm_year % 100
               date(wday) == calculate_date(time.tm_mday, wday, time.tm_mon, yy)
    <2> SUFFICES ASSUME IInv, NEW wday \in 1 .. 7
                 PROVE  /\ Years(time, wday, yy) # {} =>
                             {date(wday).tm_year} = Years(time, wday, yy)
                        /\ IF date(wday) = NoDate
                             THEN yy = 0 /\ time.tm_mon = 2 /\ time.tm_mday = 29
                             ELSE time.tm_mday <= lastday(date(wday))
      BY Zenon DEF DateRecovered, Years
    <2>1. time \in TimeRec /\ ValidDate(time)
      BY ValidTimeIs DEF IInv, TypeOK
    <2> DEFINE found == date(wday)
    <2>2. yy = time.tm_year % 100
      OBVIOUS
    <2>3. found = calculate_date(time.tm_mday, wday, time.tm_mon, yy)
      OBVIOUS
    <2> DEFINE years == Years(time, wday, yy)
    <2>5. years = Years(time, wday, yy)
      OBVIOUS
    <2> HIDE DEF yy, found, years
    <2>4. Recovered(time, yy, found, years)
      BY <2>1, <2>2, <2>3, <2>5, DateFound
    <2> QED
      BY <2>4, Zenon DEF found, years, Recovered
  <1> QED
    BY <1>1, Invariant, PTL
=============================================================================
