---------------------------- MODULE ClockProofs ----------------------------
(***************************************************************************)
(* For every counter, every second that fits in it and every interval the  *)
(* clock is saved at: the clock loses no time to the wrap of the counter   *)
(* or to the rate it is ticked at, and a power cut costs the interval.     *)
(* The calendar, for every day from 1970 on: a date is the one its seconds *)
(* stand for, and the days and the arrows of the setter follow the months. *)
(* Next to it, whatever the length of a day and wherever the clock is      *)
(* moved, the day's high and low are of that day; the clock does what it   *)
(* does alone.                                                             *)
(***************************************************************************)
EXTENDS DayLog, TLAPS

-----------------------------------------------------------------------------
(* The calendar, for every day from 1970 on and days of any length. *)

LEMMA DateConstants ==
  /\ Hours \in Nat /\ Hours > 0 /\ Minutes \in Nat /\ Minutes > 0 /\ Seconds \in Nat /\ Seconds > 0
  /\ kMinYear \in Nat /\ kMaxYear \in Nat /\ 1970 < kMinYear /\ kMinYear <= kMaxYear
  BY CalendarAssumption

(* Days of an era and its years. *)

LEMMA YearFits ==
  ASSUME NEW doe \in Nat, doe <= 146096, NEW yoe, yoe = YearOf(doe)
  PROVE  /\ yoe \in Nat /\ yoe <= 399
         /\ doe - YearStart(yoe) \in Nat /\ doe - YearStart(yoe) <= 365
  BY DEF YearOf, YearStart

LEMMA LeapDay ==
  ASSUME NEW doe \in Nat, doe <= 146096, NEW yoe, yoe = YearOf(doe), doe - YearStart(yoe) = 365
  PROVE  (yoe + 1) % 4 = 0 /\ ((yoe + 1) % 100 # 0 \/ yoe = 399)
  BY DEF YearOf, YearStart

LEMMA YearBack ==
  ASSUME NEW yoe \in Nat, yoe <= 399, NEW doy \in Nat, doy <= 365,
         doy = 365 => (yoe + 1) % 4 = 0 /\ ((yoe + 1) % 100 # 0 \/ yoe = 399),
         NEW doe \in Int, doe = YearStart(yoe) + doy
  PROVE  doe \in Nat /\ doe <= 146096 /\ YearOf(doe) = yoe
  BY DEF YearOf, YearStart

LEMMA LeapOfEra ==
  ASSUME NEW era \in Nat, NEW yoe \in Nat, yoe <= 399
  PROVE  IsLeapYear(400 * era + yoe + 1)
           <=> (yoe + 1) % 4 = 0 /\ ((yoe + 1) % 100 # 0 \/ yoe = 399)
  BY DEF IsLeapYear

(* Days of a year that begins in March, and its months. *)

LEMMA MonthFits ==
  ASSUME NEW doy \in Nat, doy <= 365, NEW mp, mp = (5 * doy + 2) \div 153,
         NEW d, d = doy - MonthStart(mp) + 1
  PROVE  /\ mp \in Nat /\ mp <= 11 /\ d \in Nat /\ d >= 1 /\ d <= 31
         /\ mp = 1 \/ mp = 3 \/ mp = 6 \/ mp = 8 => d <= 30
         /\ mp = 11 => d <= 29 /\ (d = 29 => doy = 365)
  BY DEF MonthStart

LEMMA MonthBack ==
  ASSUME NEW mp \in Nat, mp <= 11, NEW d \in Nat, d >= 1, d <= 31,
         mp = 1 \/ mp = 3 \/ mp = 6 \/ mp = 8 => d <= 30,
         mp = 11 => d <= 29,
         NEW doy, doy = MonthStart(mp) + d - 1
  PROVE  /\ doy \in Nat /\ doy <= 365 /\ (5 * doy + 2) \div 153 = mp
         /\ doy = 365 => mp = 11 /\ d = 29
  BY DEF MonthStart

(* Days and dates. *)

InCalendar(y, m, d) ==
  /\ y \in Nat /\ y >= 1970 /\ m \in Nat /\ 1 <= m /\ m <= 12
  /\ d \in Nat /\ 1 <= d /\ d <= DaysInMonth(y, m)

LEMMA MonthLengths ==
  ASSUME NEW y \in Nat, NEW m \in Nat, 1 <= m, m <= 12
  PROVE  /\ DaysInMonth(y, m) \in Nat /\ 28 <= DaysInMonth(y, m) /\ DaysInMonth(y, m) <= 31
         /\ m = 2 => DaysInMonth(y, m) = IF IsLeapYear(y) THEN 29 ELSE 28
         /\ m = 4 \/ m = 6 \/ m = 9 \/ m = 11 => DaysInMonth(y, m) = 30
         /\ m # 2 /\ m # 4 /\ m # 6 /\ m # 9 /\ m # 11 => DaysInMonth(y, m) = 31
  <1>1. CASE m = 2
    BY <1>1 DEF DaysInMonth
  <1>2. CASE m = 4 \/ m = 6 \/ m = 9 \/ m = 11
    BY <1>2 DEF DaysInMonth
  <1>3. CASE m # 2 /\ m # 4 /\ m # 6 /\ m # 9 /\ m # 11
    BY <1>3 DEF DaysInMonth
  <1> QED
    BY <1>1, <1>2, <1>3

(* A date in the years of an era that begin in March. *)
LEMMA CivilParts ==
  ASSUME NEW era \in Nat, NEW yoe \in Nat, yoe <= 399, NEW mp \in Nat, mp <= 11,
         NEW d \in Nat,
         NEW y, y = 400 * era + yoe + (IF mp >= 10 THEN 1 ELSE 0),
         NEW m, m = IF mp >= 10 THEN mp - 9 ELSE mp + 3
  PROVE  DaysFromCivil(y, m, d)
           = 146097 * era + YearStart(yoe) + MonthStart(mp) + d - 1 - 719468
  <1>1. m <= 2 <=> mp >= 10
    OBVIOUS
  <1>2. (IF m <= 2 THEN y - 1 ELSE y) = 400 * era + yoe
    BY <1>1
  <1>3. (IF m <= 2 THEN m + 9 ELSE m - 3) = mp
    BY <1>1
  <1>4. (400 * era + yoe) \div 400 = era /\ (400 * era + yoe) % 400 = yoe
    OBVIOUS
  <1> QED
    BY <1>2, <1>3, <1>4 DEF DaysFromCivil

LEMMA CivilOfDay ==
  ASSUME NEW days \in Nat, NEW c, c = CivilFromDays(days)
  PROVE  InCalendar(c.year, c.month, c.day) /\ DaysFromCivil(c.year, c.month, c.day) = days
  <1>1. PICK z \in Nat : z = days + 719468
    OBVIOUS
  <1>2. PICK era \in Nat, doe \in Nat : /\ era = z \div 146097 /\ doe = z % 146097
                                       /\ doe <= 146096 /\ z = 146097 * era + doe
    BY <1>1
  <1>3. PICK yoe : yoe = YearOf(doe)
    OBVIOUS
  <1>4. yoe \in Nat /\ yoe <= 399
    BY <1>2, <1>3, YearFits
  <1>5. PICK doy \in Nat : doy = doe - YearStart(yoe) /\ doy <= 365
    BY <1>2, <1>3, YearFits
  <1>6. PICK mp : mp = (5 * doy + 2) \div 153
    OBVIOUS
  <1>7. PICK d : d = doy - MonthStart(mp) + 1
    OBVIOUS
  <1>8. /\ mp \in Nat /\ mp <= 11 /\ d \in Nat /\ d >= 1 /\ d <= 31
        /\ mp = 1 \/ mp = 3 \/ mp = 6 \/ mp = 8 => d <= 30
        /\ mp = 11 => d <= 29 /\ (d = 29 => doy = 365)
    BY <1>5, <1>6, <1>7, MonthFits
  <1>9. PICK y, m : /\ y = 400 * era + yoe + (IF mp >= 10 THEN 1 ELSE 0)
                    /\ m = IF mp >= 10 THEN mp - 9 ELSE mp + 3
    OBVIOUS
  <1>10. c.year = y /\ c.month = m /\ c.day = d
    BY <1>1, <1>2, <1>3, <1>5, <1>6, <1>7, <1>9 DEF CivilFromDays
  <1>11. YearStart(yoe) \in Int /\ MonthStart(mp) \in Int
    BY <1>4, <1>8 DEF YearStart, MonthStart
  <1>12. DaysFromCivil(y, m, d) = days
    <2>1. DaysFromCivil(y, m, d)
            = 146097 * era + YearStart(yoe) + MonthStart(mp) + d - 1 - 719468
      BY <1>2, <1>4, <1>8, <1>9, CivilParts
    <2> QED
      BY <1>1, <1>2, <1>5, <1>7, <1>8, <1>11, <2>1
  <1>13. y \in Nat /\ y >= 1970 /\ m \in Nat /\ 1 <= m /\ m <= 12
    <2>1. y \in Nat /\ m \in Nat /\ 1 <= m /\ m <= 12
      BY <1>2, <1>4, <1>8, <1>9
    <2>2. y >= 1970
      <3>1. SUFFICES ASSUME y < 1970 PROVE FALSE
        BY <2>1
      <3>2. 400 * era + yoe <= 1969 /\ (mp >= 10 => 400 * era + yoe <= 1968)
        BY <1>2, <1>4, <1>8, <1>9, <3>1
      <3>3. 146097 * era + YearStart(yoe) + doy < 719468
        BY <1>2, <1>4, <1>5, <1>6, <1>8, <3>2 DEF YearStart
      <3> QED
        BY <1>1, <1>2, <1>5, <1>11, <3>3
    <2> QED
      BY <2>1, <2>2
  <1>14. d <= DaysInMonth(y, m)
    <2>1. CASE mp = 11
      <3>1. m = 2 /\ y = 400 * era + yoe + 1
        BY <1>2, <1>4, <1>9, <2>1
      <3>2. ASSUME d = 29 PROVE IsLeapYear(y)
        <4>1. doe - YearStart(yoe) = 365
          BY <1>5, <1>8, <2>1, <3>2
        <4>2. (yoe + 1) % 4 = 0 /\ ((yoe + 1) % 100 # 0 \/ yoe = 399)
          BY <1>2, <1>3, <4>1, LeapDay
        <4>3. IsLeapYear(400 * era + yoe + 1)
          BY <1>2, <1>4, <4>2, LeapOfEra
        <4> QED
          BY <3>1, <4>3
      <3>3. DaysInMonth(y, m) = IF IsLeapYear(y) THEN 29 ELSE 28
        BY <1>13, <3>1, MonthLengths
      <3> QED
        BY <1>8, <2>1, <3>2, <3>3
    <2>2. CASE mp = 1 \/ mp = 3 \/ mp = 6 \/ mp = 8
      <3>1. m = 4 \/ m = 6 \/ m = 9 \/ m = 11
        BY <1>9, <2>2
      <3> QED
        BY <1>8, <1>13, <2>2, <3>1, MonthLengths
    <2>3. CASE mp # 11 /\ mp # 1 /\ mp # 3 /\ mp # 6 /\ mp # 8
      <3>1. m # 2 /\ m # 4 /\ m # 6 /\ m # 9 /\ m # 11
        BY <1>8, <1>9, <2>3
      <3> QED
        BY <1>8, <1>13, <3>1, MonthLengths
    <2> QED
      BY <2>1, <2>2, <2>3
  <1> QED
    BY <1>8, <1>10, <1>12, <1>13, <1>14 DEF InCalendar

LEMMA DayOfCivil ==
  ASSUME NEW y, NEW m, NEW d, InCalendar(y, m, d)
  PROVE  /\ DaysFromCivil(y, m, d) \in Nat
         /\ CivilFromDays(DaysFromCivil(y, m, d)) = [year |-> y, month |-> m, day |-> d]
  <1>1. /\ y \in Nat /\ y >= 1970 /\ m \in Nat /\ 1 <= m /\ m <= 12
        /\ d \in Nat /\ 1 <= d /\ d <= DaysInMonth(y, m)
    BY DEF InCalendar
  <1>2. PICK w \in Nat, mp \in Nat :
          /\ w = (IF m <= 2 THEN y - 1 ELSE y) /\ mp = (IF m <= 2 THEN m + 9 ELSE m - 3)
          /\ mp <= 11 /\ (m <= 2 <=> mp >= 10)
          /\ y = w + (IF mp >= 10 THEN 1 ELSE 0) /\ m = IF mp >= 10 THEN mp - 9 ELSE mp + 3
    BY <1>1
  <1>3. PICK era \in Nat, yoe \in Nat : yoe <= 399 /\ w = 400 * era + yoe
    <2>1. w \div 400 \in Nat /\ w % 400 \in Nat /\ w % 400 <= 399
          /\ w = 400 * (w \div 400) + (w % 400)
      BY <1>2
    <2> QED
      BY <2>1
  <1>4. PICK l \in Nat : l = DaysInMonth(y, m) /\ d <= l /\ l <= 31
    BY <1>1, MonthLengths
  <1>5. /\ d <= 31
        /\ mp = 1 \/ mp = 3 \/ mp = 6 \/ mp = 8 => d <= 30
        /\ mp = 11 => d <= 29 /\ (d = 29 => IsLeapYear(y))
    <2>1. d <= 31
      BY <1>1, <1>4
    <2>2. mp = 1 \/ mp = 3 \/ mp = 6 \/ mp = 8 => d <= 30
      <3>1. mp = 1 \/ mp = 3 \/ mp = 6 \/ mp = 8 => m = 4 \/ m = 6 \/ m = 9 \/ m = 11
        BY <1>2
      <3> QED
        BY <1>1, <3>1, MonthLengths
    <2>3. mp = 11 => d <= 29 /\ (d = 29 => IsLeapYear(y))
      <3>1. mp = 11 => m = 2
        BY <1>2
      <3>2. m = 2 => l = IF IsLeapYear(y) THEN 29 ELSE 28
        BY <1>1, <1>4, MonthLengths
      <3> QED
        BY <1>1, <1>4, <3>1, <3>2
    <2> QED
      BY <2>1, <2>2, <2>3
  <1>6. PICK doy : doy = MonthStart(mp) + d - 1
    OBVIOUS
  <1>7. /\ doy \in Nat /\ doy <= 365 /\ (5 * doy + 2) \div 153 = mp
        /\ doy = 365 => mp = 11 /\ d = 29
    <2>1. mp = 1 \/ mp = 3 \/ mp = 6 \/ mp = 8 => d <= 30
      BY <1>5
    <2>2. mp = 11 => d <= 29
      BY <1>5
    <2>3. mp \in Nat /\ mp <= 11 /\ d \in Nat /\ d >= 1 /\ d <= 31
      BY <1>1, <1>2, <1>5
    <2> QED
      BY <1>6, <2>1, <2>2, <2>3, MonthBack
  <1>8. doy = 365 => (yoe + 1) % 4 = 0 /\ ((yoe + 1) % 100 # 0 \/ yoe = 399)
    <2>1. SUFFICES ASSUME doy = 365
                   PROVE  (yoe + 1) % 4 = 0 /\ ((yoe + 1) % 100 # 0 \/ yoe = 399)
      OBVIOUS
    <2>2. IsLeapYear(y) /\ y = 400 * era + yoe + 1
      BY <1>2, <1>3, <1>5, <1>7, <2>1
    <2> QED
      BY <1>3, <2>2, LeapOfEra
  <1>9. PICK doe \in Int : doe = YearStart(yoe) + doy
    BY <1>3, <1>7 DEF YearStart
  <1>10. doe \in Nat /\ doe <= 146096 /\ YearOf(doe) = yoe
    BY <1>3, <1>7, <1>8, <1>9, YearBack
  <1>11. YearStart(yoe) \in Int /\ MonthStart(mp) \in Int
    BY <1>2, <1>3 DEF YearStart, MonthStart
  <1>12. PICK days \in Int : days = 146097 * era + doe - 719468
    BY <1>10
  <1>13. DaysFromCivil(y, m, d) = days
    <2>1. DaysFromCivil(y, m, d)
            = 146097 * era + YearStart(yoe) + MonthStart(mp) + d - 1 - 719468
      BY <1>1, <1>2, <1>3, CivilParts
    <2> QED
      BY <1>1, <1>6, <1>9, <1>11, <1>12, <2>1
  <1>14. days >= 0
    BY <1>2, <1>3, <1>7, <1>9, <1>12, <1>1 DEF YearStart
  <1>15. (days + 719468) \div 146097 = era /\ (days + 719468) % 146097 = doe
    BY <1>10, <1>12
  <1>16. doe - YearStart(yoe) = doy /\ doy - MonthStart(mp) + 1 = d
    BY <1>1, <1>6, <1>7, <1>9, <1>11
  <1>17. CivilFromDays(days)
           = [year  |-> 400 * era + yoe + (IF mp >= 10 THEN 1 ELSE 0),
              month |-> IF mp >= 10 THEN mp - 9 ELSE mp + 3, day |-> d]
    BY <1>7, <1>10, <1>15, <1>16 DEF CivilFromDays
  <1> QED
    BY <1>2, <1>3, <1>13, <1>14, <1>17

(* Counting in units of any size. *)

LEMMA More ==
  ASSUME NEW a \in Nat, NEW b \in Nat, a < b, NEW k \in Nat
  PROVE  a * k \in Nat /\ b * k \in Nat /\ a * k + k <= b * k
  <1>1. PICK c \in Nat : b = a + 1 + c
    OBVIOUS
  <1>2. b * k = a * k + k + c * k /\ c * k \in Nat /\ a * k \in Nat
    BY <1>1
  <1> QED
    BY <1>2

LEMMA Split ==
  ASSUME NEW n \in Nat, NEW k \in Nat, k > 0
  PROVE  \E q \in Nat, r \in Nat : n \div k = q /\ n % k = r /\ r < k /\ n = q * k + r
  <1>1. n \div k \in Nat /\ n % k \in Nat /\ n % k < k /\ n = (n \div k) * k + (n % k)
    OBVIOUS
  <1> QED
    BY <1>1

LEMMA Joined ==
  ASSUME NEW q \in Nat, NEW r \in Nat, NEW k \in Nat, r < k
  PROVE  (q * k + r) \div k = q /\ (q * k + r) % k = r
  <1>1. q * k + r \in Nat /\ q * k \in Nat
    OBVIOUS
  <1>2. PICK p \in Nat, s \in Nat :
          /\ (q * k + r) \div k = p /\ (q * k + r) % k = s /\ s < k /\ q * k + r = p * k + s
    BY <1>1, Split
  <1>3. p * k \in Nat
    OBVIOUS
  <1>4. ~(p < q)
    <2>1. ASSUME p < q PROVE p * k + k <= q * k
      BY <2>1, More
    <2> QED
      BY <1>1, <1>2, <1>3, <2>1
  <1>5. ~(q < p)
    <2>1. ASSUME q < p PROVE q * k + k <= p * k
      BY <2>1, More
    <2> QED
      BY <1>1, <1>2, <1>3, <2>1
  <1>6. p = q
    BY <1>4, <1>5
  <1> QED
    BY <1>1, <1>2, <1>6

(* The time of day. *)

LEMMA Units ==
  /\ HourSeconds \in Nat /\ HourSeconds > 0 /\ DaySeconds \in Nat /\ DaySeconds > 0
  /\ HourSeconds = Minutes * Seconds /\ DaySeconds = Hours * HourSeconds
  <1>1. HourSeconds = Minutes * Seconds /\ DaySeconds = Hours * HourSeconds
    BY DEF HourSeconds, DaySeconds
  <1>2. 0 * Seconds + Seconds <= Minutes * Seconds /\ Minutes * Seconds \in Nat
    BY DateConstants, More
  <1>3. HourSeconds \in Nat /\ HourSeconds > 0
    BY <1>1, <1>2, DateConstants
  <1>4. 0 * HourSeconds + HourSeconds <= Hours * HourSeconds /\ Hours * HourSeconds \in Nat
    BY <1>3, DateConstants, More
  <1> QED
    BY <1>1, <1>3, <1>4

OnClock(h, m, s) ==
  /\ h \in Nat /\ h < Hours /\ m \in Nat /\ m < Minutes /\ s \in Nat /\ s < Seconds

LEMMA TimeOfRem ==
  ASSUME NEW rem \in Nat, rem < DaySeconds
  PROVE  \E h \in Nat, m \in Nat, s \in Nat :
           /\ OnClock(h, m, s)
           /\ rem \div HourSeconds = h
           /\ (rem % HourSeconds) \div Seconds = m /\ (rem % HourSeconds) % Seconds = s
           /\ rem = h * HourSeconds + m * Seconds + s
  <1>1. PICK h \in Nat, part \in Nat :
          /\ rem \div HourSeconds = h /\ rem % HourSeconds = part
          /\ part < HourSeconds /\ rem = h * HourSeconds + part
    <2>1. HourSeconds \in Nat /\ HourSeconds > 0
      BY Units
    <2> QED
      BY <2>1, Split, ZenonT(30)
  <1>2. PICK m \in Nat, s \in Nat :
          /\ part \div Seconds = m /\ part % Seconds = s
          /\ s < Seconds /\ part = m * Seconds + s
    BY DateConstants, Split
  <1>3. h < Hours
    <2>1. ASSUME ~(h < Hours) PROVE Hours * HourSeconds <= h * HourSeconds
      <3>1. CASE h = Hours
        BY <3>1, Units, DateConstants
      <3>2. CASE Hours < h
        BY <3>2, Units, DateConstants, More
      <3> QED
        BY <2>1, <3>1, <3>2, DateConstants
    <2> QED
      BY <1>1, <2>1, Units
  <1>4. m < Minutes
    <2>1. ASSUME ~(m < Minutes) PROVE Minutes * Seconds <= m * Seconds
      <3>1. CASE m = Minutes
        BY <3>1, DateConstants
      <3>2. CASE Minutes < m
        BY <3>2, DateConstants, More
      <3> QED
        BY <2>1, <3>1, <3>2, DateConstants
    <2> QED
      <3>1. SUFFICES ASSUME ~(m < Minutes) PROVE FALSE
        OBVIOUS
      <3>2. PICK a \in Nat, b \in Nat : a = m * Seconds /\ b = Minutes * Seconds
        BY DateConstants
      <3>3. b <= a /\ part = a + s /\ part < b
        BY <1>1, <1>2, <2>1, <3>1, <3>2, Units
      <3> QED
        BY <3>2, <3>3
  <1>5. h * HourSeconds \in Nat /\ m * Seconds \in Nat
    BY Units, DateConstants
  <1>6. rem = h * HourSeconds + m * Seconds + s
    <2>1. PICK a \in Nat, b \in Nat : a = h * HourSeconds /\ b = m * Seconds
      BY <1>5
    <2>2. rem = a + (b + s)
      BY <1>1, <1>2, <2>1
    <2>3. rem = a + b + s
      BY <2>2
    <2> QED
      BY <2>1, <2>3
  <1> QED
    BY <1>1, <1>2, <1>3, <1>4, <1>6 DEF OnClock

LEMMA RemOfTime ==
  ASSUME NEW h, NEW m, NEW s, OnClock(h, m, s)
  PROVE  \E rem \in Nat :
           /\ rem = h * HourSeconds + m * Seconds + s /\ rem < DaySeconds
           /\ rem \div HourSeconds = h
           /\ (rem % HourSeconds) \div Seconds = m /\ (rem % HourSeconds) % Seconds = s
  <1>1. h \in Nat /\ h < Hours /\ m \in Nat /\ m < Minutes /\ s \in Nat /\ s < Seconds
    BY DEF OnClock
  <1>2. PICK part \in Nat : part = m * Seconds + s /\ part < HourSeconds
    <2>1. m * Seconds \in Nat /\ m * Seconds + Seconds <= Minutes * Seconds
      BY <1>1, DateConstants, More
    <2> QED
      BY <1>1, <2>1, Units, DateConstants
  <1>3. part \div Seconds = m /\ part % Seconds = s
    <2>1. (m * Seconds + s) \div Seconds = m /\ (m * Seconds + s) % Seconds = s
      <3>1. m \in Nat /\ s \in Nat /\ Seconds \in Nat /\ s < Seconds
        BY <1>1, DateConstants
      <3> QED
        BY <3>1, Joined, ZenonT(30)
    <2> QED
      BY <1>2, <2>1, ZenonT(30)
  <1>4. PICK rem \in Nat : rem = h * HourSeconds + part /\ rem < DaySeconds
    <2>1. h * HourSeconds \in Nat /\ h * HourSeconds + HourSeconds <= Hours * HourSeconds
      BY <1>1, Units, DateConstants, More
    <2>2. h * HourSeconds + part < DaySeconds /\ h * HourSeconds + part \in Nat
      BY <1>2, <2>1, Units
    <2> QED
      BY <2>2
  <1>5. rem \div HourSeconds = h /\ rem % HourSeconds = part
    <2>1. HourSeconds \in Nat
      BY Units
    <2>2. (h * HourSeconds + part) \div HourSeconds = h
          /\ (h * HourSeconds + part) % HourSeconds = part
      <3>1. h \in Nat /\ part \in Nat /\ HourSeconds \in Nat /\ part < HourSeconds
        BY <1>1, <1>2, <2>1
      <3> QED
        BY <3>1, Joined, ZenonT(30)
    <2> QED
      BY <1>4, <2>2, ZenonT(30)
  <1>6. rem = h * HourSeconds + m * Seconds + s
    <2>1. PICK a \in Nat, b \in Nat : a = h * HourSeconds /\ b = m * Seconds
      BY <1>1, Units, DateConstants
    <2>2. rem = a + (b + s)
      BY <1>2, <1>4, <2>1
    <2>3. rem = a + b + s
      BY <1>1, <2>1, <2>2
    <2> QED
      BY <2>1, <2>3
  <1> QED
    BY <1>3, <1>4, <1>5, <1>6

(* Seconds and dates. *)

DateOf(y, mo, d, h, mi, s) ==
  [year |-> y, month |-> mo, day |-> d, hour |-> h, minute |-> mi, second |-> s]

LEMMA Within ==
  ASSUME NEW a \in Int, NEW b \in Int
  PROVE  /\ \A x \in a .. b : x \in Int /\ a <= x /\ x <= b
         /\ \A x \in Int : a <= x /\ x <= b => x \in a .. b
  OBVIOUS

LEMMA RealIs ==
  ASSUME NEW dt
  PROVE  RealDate(dt)
           <=> /\ dt = DateOf(dt.year, dt.month, dt.day, dt.hour, dt.minute, dt.second)
               /\ InCalendar(dt.year, dt.month, dt.day)
               /\ OnClock(dt.hour, dt.minute, dt.second)
  <1>1. ASSUME RealDate(dt)
        PROVE  InCalendar(dt.year, dt.month, dt.day) /\ OnClock(dt.hour, dt.minute, dt.second)
    <2>1. /\ dt.year \in Nat /\ dt.year >= 1970
          /\ dt.month \in 1 .. 12 /\ dt.day \in 1 .. DaysInMonth(dt.year, dt.month)
          /\ dt.hour \in 0 .. Hours - 1 /\ dt.minute \in 0 .. Minutes - 1
          /\ dt.second \in 0 .. Seconds - 1
      BY <1>1 DEF RealDate
    <2>2. dt.month \in Nat /\ 1 <= dt.month /\ dt.month <= 12
      BY <2>1
    <2>3. PICK l \in Nat : l = DaysInMonth(dt.year, dt.month)
      BY <2>1, <2>2, MonthLengths
    <2>4. dt.day \in Nat /\ 1 <= dt.day /\ dt.day <= DaysInMonth(dt.year, dt.month)
      BY <2>1, <2>3
    <2>5. /\ dt.hour \in Nat /\ dt.hour < Hours /\ dt.minute \in Nat /\ dt.minute < Minutes
          /\ dt.second \in Nat /\ dt.second < Seconds
      BY <2>1, DateConstants
    <2> QED
      BY <2>1, <2>2, <2>4, <2>5 DEF InCalendar, OnClock
  <1>2. ASSUME InCalendar(dt.year, dt.month, dt.day), OnClock(dt.hour, dt.minute, dt.second)
        PROVE  /\ dt.year \in Nat /\ dt.year >= 1970
               /\ dt.month \in 1 .. 12 /\ dt.day \in 1 .. DaysInMonth(dt.year, dt.month)
               /\ dt.hour \in 0 .. Hours - 1 /\ dt.minute \in 0 .. Minutes - 1
               /\ dt.second \in 0 .. Seconds - 1
    <2>1. /\ dt.year \in Nat /\ dt.year >= 1970
          /\ dt.month \in Nat /\ 1 <= dt.month /\ dt.month <= 12
          /\ dt.day \in Nat /\ 1 <= dt.day /\ dt.day <= DaysInMonth(dt.year, dt.month)
      BY <1>2 DEF InCalendar
    <2>2. /\ dt.hour \in Nat /\ dt.hour < Hours /\ dt.minute \in Nat /\ dt.minute < Minutes
          /\ dt.second \in Nat /\ dt.second < Seconds
      BY <1>2 DEF OnClock
    <2>3. PICK l \in Nat : l = DaysInMonth(dt.year, dt.month)
      BY <2>1, MonthLengths
    <2>4. dt.month \in 1 .. 12 /\ dt.day \in 1 .. DaysInMonth(dt.year, dt.month)
      BY <2>1, <2>3
    <2>5. /\ dt.hour \in 0 .. Hours - 1 /\ dt.minute \in 0 .. Minutes - 1
          /\ dt.second \in 0 .. Seconds - 1
      BY <2>2, DateConstants
    <2> QED
      BY <2>1, <2>4, <2>5
  <1>3. RealDate(dt) => dt = DateOf(dt.year, dt.month, dt.day, dt.hour, dt.minute, dt.second)
    BY DEF RealDate, DateOf
  <1>4. ASSUME dt = DateOf(dt.year, dt.month, dt.day, dt.hour, dt.minute, dt.second)
        PROVE  dt = [year |-> dt.year, month |-> dt.month, day |-> dt.day,
                     hour |-> dt.hour, minute |-> dt.minute, second |-> dt.second]
    BY <1>4 DEF DateOf
  <1>5. ASSUME dt = DateOf(dt.year, dt.month, dt.day, dt.hour, dt.minute, dt.second),
               InCalendar(dt.year, dt.month, dt.day), OnClock(dt.hour, dt.minute, dt.second)
        PROVE  RealDate(dt)
    <2>1. dt = [year |-> dt.year, month |-> dt.month, day |-> dt.day,
                hour |-> dt.hour, minute |-> dt.minute, second |-> dt.second]
      BY <1>4, <1>5
    <2>2. /\ dt.year \in Nat /\ dt.year >= 1970
          /\ dt.month \in 1 .. 12 /\ dt.day \in 1 .. DaysInMonth(dt.year, dt.month)
          /\ dt.hour \in 0 .. Hours - 1 /\ dt.minute \in 0 .. Minutes - 1
          /\ dt.second \in 0 .. Seconds - 1
      BY <1>2, <1>5
    <2> QED
      BY <2>1, <2>2 DEF RealDate
  <1> QED
    BY <1>1, <1>3, <1>5

LEMMA BreakDownReal ==
  ASSUME NEW e \in Nat
  PROVE  RealDate(BreakDown(e)) /\ Make(BreakDown(e)) = e
  <1>1. PICK days \in Nat, rem \in Nat :
          /\ e \div DaySeconds = days /\ e % DaySeconds = rem
          /\ rem < DaySeconds /\ e = days * DaySeconds + rem
    <2>1. DaySeconds \in Nat /\ DaySeconds > 0
      BY Units
    <2> QED
      BY <2>1, Split, ZenonT(30)
  <1>2. PICK h \in Nat, mi \in Nat, s \in Nat :
          /\ OnClock(h, mi, s)
          /\ rem \div HourSeconds = h
          /\ (rem % HourSeconds) \div Seconds = mi /\ (rem % HourSeconds) % Seconds = s
          /\ rem = h * HourSeconds + mi * Seconds + s
    BY <1>1, TimeOfRem
  <1>3. PICK c : c = CivilFromDays(days)
    OBVIOUS
  <1>4. InCalendar(c.year, c.month, c.day) /\ DaysFromCivil(c.year, c.month, c.day) = days
    BY <1>3, CivilOfDay
  <1>5. PICK dt : dt = DateOf(c.year, c.month, c.day, h, mi, s)
    OBVIOUS
  <1>6. BreakDown(e) = dt
    BY <1>1, <1>2, <1>3, <1>5 DEF BreakDown, DateOf
  <1>7. /\ dt.year = c.year /\ dt.month = c.month /\ dt.day = c.day
        /\ dt.hour = h /\ dt.minute = mi /\ dt.second = s
    BY <1>5 DEF DateOf
  <1>8. RealDate(dt)
    BY <1>2, <1>4, <1>5, <1>7, RealIs, ZenonT(30)
  <1>9. Make(dt) = e
    <2>1. Make(dt) = days * DaySeconds + h * HourSeconds + mi * Seconds + s
      BY <1>4, <1>7 DEF Make
    <2>2. PICK a \in Nat, b \in Nat, k \in Nat :
            a = days * DaySeconds /\ b = h * HourSeconds /\ k = mi * Seconds
      BY Units, DateConstants
    <2>3. rem = b + k + s /\ e = a + rem
      BY <1>1, <1>2, <2>2
    <2>4. e = a + b + k + s
      BY <2>2, <2>3
    <2> QED
      BY <2>1, <2>2, <2>4
  <1> QED
    BY <1>6, <1>8, <1>9

LEMMA MakeBack ==
  ASSUME NEW dt, RealDate(dt)
  PROVE  Make(dt) \in Nat /\ BreakDown(Make(dt)) = dt
  <1>1. PICK y, mo, d, h, mi, s :
          /\ y = dt.year /\ mo = dt.month /\ d = dt.day
          /\ h = dt.hour /\ mi = dt.minute /\ s = dt.second
    OBVIOUS
  <1>2. dt = DateOf(y, mo, d, h, mi, s) /\ InCalendar(y, mo, d) /\ OnClock(h, mi, s)
    BY <1>1, RealIs, ZenonT(30)
  <1>3. PICK days \in Nat : /\ days = DaysFromCivil(y, mo, d)
                            /\ CivilFromDays(days) = [year |-> y, month |-> mo, day |-> d]
    BY <1>2, DayOfCivil
  <1>4. PICK rem \in Nat :
           /\ rem = h * HourSeconds + mi * Seconds + s /\ rem < DaySeconds
           /\ rem \div HourSeconds = h
           /\ (rem % HourSeconds) \div Seconds = mi /\ (rem % HourSeconds) % Seconds = s
    BY <1>2, RemOfTime
  <1>5. h \in Nat /\ mi \in Nat /\ s \in Nat
    BY <1>2 DEF OnClock
  <1>6. PICK e \in Nat : e = days * DaySeconds + rem
    BY Units
  <1>7. Make(dt) = e
    <2>1. Make(dt) = days * DaySeconds + h * HourSeconds + mi * Seconds + s
      BY <1>1, <1>3 DEF Make
    <2>2. PICK a \in Nat, b \in Nat, k \in Nat :
            a = days * DaySeconds /\ b = h * HourSeconds /\ k = mi * Seconds
      <3>1. days * DaySeconds \in Nat /\ h * HourSeconds \in Nat /\ mi * Seconds \in Nat
        BY <1>5, Units, DateConstants
      <3> QED
        BY <3>1
    <2>3. rem = b + k + s /\ e = a + rem
      BY <1>4, <1>6, <2>2
    <2>4. e = a + b + k + s
      BY <1>5, <2>2, <2>3
    <2> QED
      BY <2>1, <2>2, <2>4
  <1>8. e \div DaySeconds = days /\ e % DaySeconds = rem
    <2>1. DaySeconds \in Nat
      BY Units
    <2>2. (days * DaySeconds + rem) \div DaySeconds = days
          /\ (days * DaySeconds + rem) % DaySeconds = rem
      BY <1>4, <2>1, Joined, ZenonT(30)
    <2> QED
      BY <1>6, <2>2, ZenonT(30)
  <1>9. BreakDown(e) = DateOf(y, mo, d, h, mi, s)
    BY <1>3, <1>4, <1>8 DEF BreakDown, DateOf
  <1> QED
    BY <1>2, <1>6, <1>7, <1>9

(* Seconds since 1970 and dates are one to one: a count of seconds breaks  *)
(* down to a real date that makes it again, and every real date is made    *)
(* into seconds that break down to it (clock.cpp:6-32, 123-147).           *)
THEOREM DatesAndSeconds ==
  /\ \A e \in Nat : RealDate(BreakDown(e)) /\ Make(BreakDown(e)) = e
  /\ \A dt : RealDate(dt) => Make(dt) \in Nat /\ BreakDown(Make(dt)) = dt
  BY BreakDownReal, MakeBack

(* An arrow. *)

LEMMA Wrapped ==
  ASSUME NEW lo \in Nat, NEW hi \in Nat, lo <= hi, NEW v \in Int, NEW delta \in Int
  PROVE  \E w \in Nat : w = StepWrapped(v, delta, lo, hi) /\ lo <= w /\ w <= hi
  <1>1. PICK k \in Nat, n \in Int : k = hi - lo + 1 /\ k > 0 /\ n = v - lo + delta
    OBVIOUS
  <1>2. n % k \in Nat /\ n % k < k
    BY <1>1
  <1>3. PICK r \in Nat : r = n % k /\ r < k
    BY <1>2
  <1>4. StepWrapped(v, delta, lo, hi) = lo + r
    BY <1>1, <1>3 DEF StepWrapped
  <1>5. lo + r \in Nat /\ lo <= lo + r /\ lo + r <= hi
    BY <1>1, <1>3
  <1> QED
    BY <1>4, <1>5

LEMMA WrappedTo ==
  ASSUME NEW lo \in Nat, NEW hi \in Nat, lo <= hi, NEW v \in Nat, lo <= v, v <= hi,
         NEW delta \in {-1, 1}
  PROVE  StepWrapped(v, delta, lo, hi)
           = IF v + delta < lo THEN hi ELSE IF v + delta > hi THEN lo ELSE v + delta
  <1>1. PICK k \in Nat, n \in Int : k = hi - lo + 1 /\ k > 0 /\ n = v - lo + delta
    OBVIOUS
  <1>2. StepWrapped(v, delta, lo, hi) = lo + (n % k)
    BY <1>1 DEF StepWrapped
  <1>3. CASE n < 0
    <2>1. n = -1 /\ v + delta < lo
      BY <1>1, <1>3
    <2>2. n = (-1) * k + (k - 1)
      BY <1>1, <2>1
    <2>3. n % k = k - 1
      BY <1>1, <2>1, <2>2
    <2> QED
      BY <1>1, <1>2, <2>1, <2>3
  <1>4. CASE 0 <= n /\ n < k
    <2>1. n % k = n
      BY <1>1, <1>4
    <2> QED
      BY <1>1, <1>2, <1>4, <2>1
  <1>5. CASE n >= k
    <2>1. n = k /\ v + delta > hi /\ ~(v + delta < lo)
      BY <1>1, <1>5
    <2>2. n % k = 0
      BY <1>1, <2>1
    <2> QED
      BY <1>1, <1>2, <2>1, <2>2
  <1> QED
    BY <1>1, <1>3, <1>4, <1>5

LEMMA WrappedBack ==
  ASSUME NEW lo \in Nat, NEW hi \in Nat, lo <= hi, NEW v \in Nat, lo <= v, v <= hi,
         NEW delta \in {-1, 1}, NEW other, other = -delta,
         NEW w, w = StepWrapped(v, delta, lo, hi)
  PROVE  StepWrapped(w, other, lo, hi) = v
  <1> delta \in Int /\ v \in Int
    OBVIOUS
  <1>1. w \in Nat /\ lo <= w /\ w <= hi
    BY Wrapped
  <1>2. w = IF v + delta < lo THEN hi ELSE IF v + delta > hi THEN lo ELSE v + delta
    BY <1>1, WrappedTo
  <1>3. other \in {-1, 1}
    OBVIOUS
  <1>4. StepWrapped(w, other, lo, hi)
          = IF w + other < lo THEN hi ELSE IF w + other > hi THEN lo ELSE w + other
    BY <1>1, <1>3, WrappedTo
  <1>5. CASE delta = 1
    BY <1>1, <1>2, <1>4, <1>5
  <1>6. CASE delta = -1
    BY <1>1, <1>2, <1>4, <1>6
  <1> QED
    BY <1>5, <1>6

(* A date but for the length of its month. *)
Loose(y, mo, d, h, mi, s) ==
  /\ y \in Nat /\ y >= 1970 /\ mo \in Nat /\ 1 <= mo /\ mo <= 12
  /\ d \in Nat /\ 1 <= d /\ OnClock(h, mi, s)

LEMMA RealParts ==
  ASSUME NEW dt, RealDate(dt)
  PROVE  \E y, mo, d, h, mi, s :
           /\ dt = DateOf(y, mo, d, h, mi, s) /\ Loose(y, mo, d, h, mi, s)
           /\ d <= DaysInMonth(y, mo) /\ DaysInMonth(y, mo) \in Nat
  <1>1. PICK y, mo, d, h, mi, s :
          /\ y = dt.year /\ mo = dt.month /\ d = dt.day
          /\ h = dt.hour /\ mi = dt.minute /\ s = dt.second
    OBVIOUS
  <1>2. dt = DateOf(y, mo, d, h, mi, s) /\ InCalendar(y, mo, d) /\ OnClock(h, mi, s)
    BY <1>1, RealIs, ZenonT(30)
  <1>3. Loose(y, mo, d, h, mi, s) /\ d <= DaysInMonth(y, mo)
    BY <1>2 DEF InCalendar, Loose
  <1>4. DaysInMonth(y, mo) \in Nat
    BY <1>3, MonthLengths DEF Loose
  <1> QED
    BY <1>2, <1>3, <1>4

LEMMA MovedIs ==
  ASSUME NEW y, NEW mo, NEW d, NEW h, NEW mi, NEW s,
         Loose(y, mo, d, h, mi, s), NEW delta \in {-1, 1},
         NEW dt, dt = DateOf(y, mo, d, h, mi, s)
  PROVE  /\ Moved(dt, "year", delta)
              = DateOf(StepWrapped(y, delta, kMinYear, kMaxYear), mo, d, h, mi, s)
         /\ Moved(dt, "month", delta) = DateOf(y, StepWrapped(mo, delta, 1, 12), d, h, mi, s)
         /\ Moved(dt, "day", delta)
              = DateOf(y, mo, StepWrapped(d, delta, 1, DaysInMonth(y, mo)), h, mi, s)
         /\ Moved(dt, "hour", delta)
              = DateOf(y, mo, d, StepWrapped(h, delta, 0, Hours - 1), mi, s)
         /\ Moved(dt, "minute", delta)
              = DateOf(y, mo, d, h, StepWrapped(mi, delta, 0, Minutes - 1), s)
  <1>1. /\ dt.year = y /\ dt.month = mo /\ dt.day = d
        /\ dt.hour = h /\ dt.minute = mi /\ dt.second = s
    BY DEF DateOf
  <1>2. Moved(dt, "year", delta)
          = DateOf(StepWrapped(y, delta, kMinYear, kMaxYear), mo, d, h, mi, s)
    BY DEF Moved, DateOf
  <1>3. Moved(dt, "month", delta) = DateOf(y, StepWrapped(mo, delta, 1, 12), d, h, mi, s)
    BY DEF Moved, DateOf
  <1>4. Moved(dt, "day", delta)
          = DateOf(y, mo, StepWrapped(d, delta, 1, DaysInMonth(y, mo)), h, mi, s)
    BY DEF Moved, DateOf
  <1>5. Moved(dt, "hour", delta)
          = DateOf(y, mo, d, StepWrapped(h, delta, 0, Hours - 1), mi, s)
    BY DEF Moved, DateOf
  <1>6. Moved(dt, "minute", delta)
          = DateOf(y, mo, d, h, StepWrapped(mi, delta, 0, Minutes - 1), s)
    BY DEF Moved, DateOf
  <1> QED
    BY <1>2, <1>3, <1>4, <1>5, <1>6

(* Whichever the field, the rest stays, and the day may now be past the    *)
(* end of the month.                                                       *)
LEMMA MovedLoose ==
  ASSUME NEW y, NEW mo, NEW d, NEW h, NEW mi, NEW s,
         Loose(y, mo, d, h, mi, s), NEW delta \in {-1, 1},
         NEW dt, dt = DateOf(y, mo, d, h, mi, s), NEW field \in Fields
  PROVE  \E y2, mo2, d2, h2, mi2, s2 :
           /\ Moved(dt, field, delta) = DateOf(y2, mo2, d2, h2, mi2, s2)
           /\ Loose(y2, mo2, d2, h2, mi2, s2)
  <1>1. /\ y \in Nat /\ y >= 1970 /\ mo \in Nat /\ 1 <= mo /\ mo <= 12
        /\ d \in Nat /\ 1 <= d /\ OnClock(h, mi, s)
    BY DEF Loose
  <1>2. h \in Nat /\ h < Hours /\ mi \in Nat /\ mi < Minutes /\ s \in Nat /\ s < Seconds
    BY <1>1 DEF OnClock
  <1> delta \in Int
    OBVIOUS
  <1>3. CASE field = "year"
    <2>1. PICK v \in Nat : v = StepWrapped(y, delta, kMinYear, kMaxYear) /\ kMinYear <= v /\ v <= kMaxYear
      <3>1. y \in Int /\ kMinYear \in Nat /\ kMaxYear \in Nat /\ kMinYear <= kMaxYear
        BY <1>1, DateConstants
      <3> QED
        BY <3>1, Wrapped, ZenonT(30)
    <2>2. v >= 1970
      BY <2>1, DateConstants
    <2>3. Moved(dt, field, delta) = DateOf(v, mo, d, h, mi, s)
      BY <1>3, <2>1, <2>2, MovedIs
    <2>4. Loose(v, mo, d, h, mi, s)
      BY <1>1, <2>1, <2>2 DEF Loose
    <2> QED
      BY <2>3, <2>4
  <1>4. CASE field = "month"
    <2>1. PICK v \in Nat : v = StepWrapped(mo, delta, 1, 12) /\ 1 <= v /\ v <= 12
      <3>1. mo \in Int /\ 1 \in Nat /\ 12 \in Nat /\ 1 <= 12
        BY <1>1
      <3> QED
        BY <3>1, Wrapped, ZenonT(30)
    <2>2. Moved(dt, field, delta) = DateOf(y, v, d, h, mi, s)
      BY <1>4, <2>1, MovedIs
    <2>3. Loose(y, v, d, h, mi, s)
      BY <1>1, <2>1 DEF Loose
    <2> QED
      BY <2>2, <2>3
  <1>5. CASE field = "day"
    <2>1. PICK l \in Nat : l = DaysInMonth(y, mo) /\ 1 <= l
      BY <1>1, MonthLengths
    <2>2. PICK v \in Nat : v = StepWrapped(d, delta, 1, l) /\ 1 <= v /\ v <= l
      <3>1. d \in Int /\ 1 \in Nat /\ l \in Nat /\ 1 <= l
        BY <1>1, <2>1
      <3> QED
        BY <3>1, Wrapped, ZenonT(30)
    <2>3. Moved(dt, field, delta) = DateOf(y, mo, v, h, mi, s)
      BY <1>5, <2>1, <2>2, MovedIs
    <2>4. Loose(y, mo, v, h, mi, s)
      BY <1>1, <2>2 DEF Loose
    <2> QED
      BY <2>3, <2>4
  <1>6. CASE field = "hour"
    <2>1. PICK top \in Nat : top = Hours - 1
      BY DateConstants
    <2>2. PICK v \in Nat : v = StepWrapped(h, delta, 0, top) /\ 0 <= v /\ v <= top
      <3>1. h \in Int /\ 0 \in Nat /\ top \in Nat /\ 0 <= top
        BY <1>2, <2>1
      <3> QED
        BY <3>1, Wrapped, ZenonT(30)
    <2>3. OnClock(v, mi, s)
      BY <1>2, <2>1, <2>2, DateConstants DEF OnClock
    <2>4. Moved(dt, field, delta) = DateOf(y, mo, d, v, mi, s)
      BY <1>6, <2>1, <2>2, MovedIs
    <2>5. Loose(y, mo, d, v, mi, s)
      BY <1>1, <2>3 DEF Loose
    <2> QED
      BY <2>4, <2>5
  <1>7. CASE field = "minute"
    <2>1. PICK top \in Nat : top = Minutes - 1
      BY DateConstants
    <2>2. PICK v \in Nat : v = StepWrapped(mi, delta, 0, top) /\ 0 <= v /\ v <= top
      <3>1. mi \in Int /\ 0 \in Nat /\ top \in Nat /\ 0 <= top
        BY <1>2, <2>1
      <3> QED
        BY <3>1, Wrapped, ZenonT(30)
    <2>3. OnClock(h, v, s)
      BY <1>2, <2>1, <2>2, DateConstants DEF OnClock
    <2>4. Moved(dt, field, delta) = DateOf(y, mo, d, h, v, s)
      BY <1>7, <2>1, <2>2, MovedIs
    <2>5. Loose(y, mo, d, h, v, s)
      BY <1>1, <2>3 DEF Loose
    <2> QED
      BY <2>4, <2>5
  <1> QED
    BY <1>3, <1>4, <1>5, <1>6, <1>7 DEF Fields

Least(a, b) == IF a > b THEN b ELSE a

LEMMA StepIs ==
  ASSUME NEW y, NEW mo, NEW d, NEW h, NEW mi, NEW s,
         NEW dt, NEW field, NEW delta,
         Moved(dt, field, delta) = DateOf(y, mo, d, h, mi, s)
  PROVE  StepDateField(dt, field, delta)
           = DateOf(y, mo, Least(d, DaysInMonth(y, mo)), h, mi, 0)
  <1>1. PICK mv : mv = Moved(dt, field, delta)
    OBVIOUS
  <1>2. mv.year = y /\ mv.month = mo /\ mv.day = d
    BY <1>1 DEF DateOf
  <1>3. StepDateField(dt, field, delta)
          = [mv EXCEPT !.day = IF @ > DaysInMonth(y, mo) THEN DaysInMonth(y, mo) ELSE @,
                       !.second = 0]
    BY <1>1, <1>2 DEF StepDateField
  <1>4. PICK k : k = Least(d, DaysInMonth(y, mo))
    OBVIOUS
  <1>5. StepDateField(dt, field, delta) = [mv EXCEPT !.day = k, !.second = 0]
    BY <1>2, <1>3, <1>4 DEF Least
  <1>6. [mv EXCEPT !.day = k, !.second = 0] = DateOf(y, mo, k, h, mi, 0)
    <2>1. mv = [year |-> y, month |-> mo, day |-> d, hour |-> h, minute |-> mi, second |-> s]
      BY <1>1 DEF DateOf
    <2>2. PICK at : at = [mv EXCEPT !.day = k]
      OBVIOUS
    <2>3. at = [year |-> y, month |-> mo, day |-> k, hour |-> h, minute |-> mi, second |-> s]
      BY <2>1, <2>2
    <2>4. [at EXCEPT !.second = 0] = DateOf(y, mo, k, h, mi, 0)
      BY <2>3 DEF DateOf
    <2>5. [mv EXCEPT !.day = k, !.second = 0] = [at EXCEPT !.second = 0]
      BY <2>2, <2>1
    <2> QED
      BY <2>4, <2>5
  <1> QED
    BY <1>4, <1>5, <1>6

LEMMA LooseEnds ==
  ASSUME NEW y, NEW mo, NEW d, NEW h, NEW mi, NEW s, Loose(y, mo, d, h, mi, s)
  PROVE  RealDate(DateOf(y, mo, Least(d, DaysInMonth(y, mo)), h, mi, 0))
  <1>1. /\ y \in Nat /\ y >= 1970 /\ mo \in Nat /\ 1 <= mo /\ mo <= 12
        /\ d \in Nat /\ 1 <= d /\ OnClock(h, mi, s)
    BY DEF Loose
  <1>2. PICK l \in Nat : l = DaysInMonth(y, mo) /\ 28 <= l
    BY <1>1, MonthLengths
  <1>3. PICK k \in Nat : k = Least(d, l) /\ 1 <= k /\ k <= l
    BY <1>1, <1>2 DEF Least
  <1>4. InCalendar(y, mo, k)
    BY <1>1, <1>2, <1>3 DEF InCalendar
  <1>5. OnClock(h, mi, 0)
    BY <1>1, DateConstants DEF OnClock
  <1>6. PICK dt : dt = DateOf(y, mo, k, h, mi, 0)
    OBVIOUS
  <1>7. /\ dt.year = y /\ dt.month = mo /\ dt.day = k
        /\ dt.hour = h /\ dt.minute = mi /\ dt.second = 0
    BY <1>6 DEF DateOf
  <1>8. RealDate(dt)
    BY <1>4, <1>5, <1>6, <1>7, RealIs, ZenonT(30)
  <1> QED
    BY <1>2, <1>3, <1>6, <1>8

LEMMA StepKeepsReal ==
  ASSUME NEW dt, RealDate(dt), NEW field \in Fields, NEW delta \in {-1, 1}
  PROVE  RealDate(StepDateField(dt, field, delta))
  <1>1. PICK y, mo, d, h, mi, s :
          dt = DateOf(y, mo, d, h, mi, s) /\ Loose(y, mo, d, h, mi, s)
    BY RealParts
  <1>2. PICK y2, mo2, d2, h2, mi2, s2 :
           /\ Moved(dt, field, delta) = DateOf(y2, mo2, d2, h2, mi2, s2)
           /\ Loose(y2, mo2, d2, h2, mi2, s2)
    BY <1>1, MovedLoose
  <1> QED
    BY <1>2, StepIs, LooseEnds

(* The other arrow. *)

LEMMA ThereAndBack ==
  ASSUME NEW dt, NEW field, NEW delta, NEW other,
         NEW y, NEW mo, NEW d \in Nat, NEW h, NEW mi, NEW s,
         NEW y2, NEW mo2, NEW d2, NEW h2, NEW mi2, NEW k,
         Moved(dt, field, delta) = DateOf(y2, mo2, d2, h2, mi2, s),
         k = Least(d2, DaysInMonth(y2, mo2)),
         Moved(DateOf(y2, mo2, k, h2, mi2, 0), field, other) = DateOf(y, mo, d, h, mi, 0),
         DaysInMonth(y, mo) \in Nat, d <= DaysInMonth(y, mo)
  PROVE  /\ StepDateField(StepDateField(dt, field, delta), field, other)
              = DateOf(y, mo, d, h, mi, 0)
         /\ StepDateField(dt, field, delta).day = k
  <1>1. StepDateField(dt, field, delta) = DateOf(y2, mo2, k, h2, mi2, 0)
    BY StepIs
  <1>2. StepDateField(DateOf(y2, mo2, k, h2, mi2, 0), field, other)
          = DateOf(y, mo, Least(d, DaysInMonth(y, mo)), h, mi, 0)
    BY StepIs
  <1>3. Least(d, DaysInMonth(y, mo)) = d
    BY DEF Least
  <1>4. DateOf(y2, mo2, k, h2, mi2, 0).day = k
    BY DEF DateOf
  <1> QED
    BY <1>1, <1>2, <1>3, <1>4

(* A date as the setter leaves it, stepped there and back: without its     *)
(* seconds, and cut to the month or year it was stepped through.           *)
Undone(dt, field, over) ==
  [dt EXCEPT !.second = 0,
             !.day = IF field \in {"year", "month"} THEN over.day ELSE @]

(* The other arrow undoes an arrow, but for a day that the month or year   *)
(* between did not have (clock.cpp:60-98).                                 *)
THEOREM ArrowUndone ==
  ASSUME NEW dt, RealDate(dt), kMinYear <= dt.year, dt.year <= kMaxYear,
         NEW field \in Fields, NEW delta \in {-1, 1}, NEW other, other = -delta,
         NEW over, over = StepDateField(dt, field, delta)
  PROVE  StepDateField(over, field, other) = Undone(dt, field, over)
  <1>1. PICK y, mo, d, h, mi, s :
          /\ dt = DateOf(y, mo, d, h, mi, s) /\ Loose(y, mo, d, h, mi, s)
          /\ d <= DaysInMonth(y, mo) /\ DaysInMonth(y, mo) \in Nat
    BY RealParts
  <1>2. /\ y \in Nat /\ y >= 1970 /\ mo \in Nat /\ 1 <= mo /\ mo <= 12
        /\ d \in Nat /\ 1 <= d /\ OnClock(h, mi, s)
    BY <1>1 DEF Loose
  <1>3. h \in Nat /\ h < Hours /\ mi \in Nat /\ mi < Minutes /\ s \in Nat /\ s < Seconds
    BY <1>2 DEF OnClock
  <1>4. dt.year = y /\ dt.day = d
    BY <1>1 DEF DateOf
  <1>5. other \in {-1, 1} /\ delta \in Int /\ delta \in {-1, 1}
    OBVIOUS
  <1>6. OnClock(h, mi, 0)
    BY <1>3, DateConstants DEF OnClock
  <1>7. PICK z : z = IF field \in {"year", "month"} THEN over.day ELSE dt.day
    OBVIOUS
  <1>8. Undone(dt, field, over) = DateOf(y, mo, z, h, mi, 0)
    <2>1. dt = [year |-> y, month |-> mo, day |-> d, hour |-> h, minute |-> mi, second |-> s]
      BY <1>1 DEF DateOf
    <2>2. PICK at : at = [dt EXCEPT !.second = 0]
      OBVIOUS
    <2>3. at = [year |-> y, month |-> mo, day |-> d, hour |-> h, minute |-> mi, second |-> 0]
      BY <2>1, <2>2
    <2>4. [at EXCEPT !.day = z] = DateOf(y, mo, z, h, mi, 0)
      BY <2>3 DEF DateOf
    <2>5. Undone(dt, field, over) = [at EXCEPT !.day = z]
      BY <1>7, <2>1, <2>2 DEF Undone
    <2> QED
      BY <2>4, <2>5
  <1> SUFFICES StepDateField(over, field, other) = DateOf(y, mo, z, h, mi, 0)
    BY <1>8
  <1>9. ASSUME NEW v \in Nat, NEW k, k = Least(d, v), v >= 1
        PROVE  k \in Nat /\ 1 <= k /\ k <= d
    BY <1>2, <1>9 DEF Least
  <1> y \in Int /\ mo \in Int /\ d \in Int /\ h \in Int /\ mi \in Int
    BY <1>2, <1>3
  <1>10. CASE field = "year"
    <2>2. kMinYear \in Nat /\ kMaxYear \in Nat /\ kMinYear <= kMaxYear /\ kMinYear <= y /\ y <= kMaxYear
      BY <1>2, <1>4, DateConstants
    <2>3. PICK v \in Nat : v = StepWrapped(y, delta, kMinYear, kMaxYear) /\ kMinYear <= v /\ v <= kMaxYear
      BY <1>5, <2>2, Wrapped, ZenonT(30)
    <2>4. StepWrapped(v, other, kMinYear, kMaxYear) = y
      BY <1>2, <1>3, <1>5, <2>2, <2>3, WrappedBack
    <2>5. PICK k \in Nat : k = Least(d, DaysInMonth(v, mo)) /\ 1 <= k /\ k <= d
      <3>1. v \in Nat /\ mo \in Nat /\ 1 <= mo /\ mo <= 12
        BY <1>2, <2>2, <2>3
      <3>2. PICK l \in Nat : l = DaysInMonth(v, mo) /\ l >= 1
        BY <3>1, MonthLengths
      <3> QED
        BY <1>9, <3>2
    <2>6. Loose(v, mo, k, h, mi, 0)
      BY <1>2, <1>6, <2>2, <2>3, <2>5, DateConstants DEF Loose
    <2>7. Moved(dt, field, delta) = DateOf(v, mo, d, h, mi, s)
      BY <1>1, <1>10, <2>3, MovedIs
    <2>8. Moved(DateOf(v, mo, k, h, mi, 0), field, other) = DateOf(y, mo, k, h, mi, 0)
      <3>1. Moved(DateOf(v, mo, k, h, mi, 0), "year", other)
              = DateOf(StepWrapped(v, other, kMinYear, kMaxYear), mo, k, h, mi, 0)
        BY <1>5, <2>6, MovedIs
      <3> QED
        BY <1>10, <2>4, <3>1
    <2>9. /\ StepDateField(over, field, other) = DateOf(y, mo, k, h, mi, 0)
          /\ over.day = k
      <3>1. DaysInMonth(y, mo) \in Nat /\ k <= DaysInMonth(y, mo) /\ k \in Nat
        BY <1>1, <1>2, <2>5
      <3> QED
        BY <2>5, <2>7, <2>8, <3>1, ThereAndBack
    <2>10. z = k
      BY <1>4, <1>7, <1>10, <2>9
    <2> QED
      BY <2>9, <2>10
  <1>11. CASE field = "month"
    <2>2. 1 \in Nat /\ 12 \in Nat /\ 1 <= 12 /\ 1 <= mo /\ mo <= 12
      BY <1>2
    <2>3. PICK v \in Nat : v = StepWrapped(mo, delta, 1, 12) /\ 1 <= v /\ v <= 12
      BY <1>5, <2>2, Wrapped, ZenonT(30)
    <2>4. StepWrapped(v, other, 1, 12) = mo
      BY <1>2, <1>3, <1>5, <2>2, <2>3, WrappedBack
    <2>5. PICK k \in Nat : k = Least(d, DaysInMonth(y, v)) /\ 1 <= k /\ k <= d
      <3>1. y \in Nat /\ v \in Nat /\ 1 <= v /\ v <= 12
        BY <1>2, <2>2, <2>3
      <3>2. PICK l \in Nat : l = DaysInMonth(y, v) /\ l >= 1
        BY <3>1, MonthLengths
      <3> QED
        BY <1>9, <3>2
    <2>6. Loose(y, v, k, h, mi, 0)
      BY <1>2, <1>6, <2>2, <2>3, <2>5, DateConstants DEF Loose
    <2>7. Moved(dt, field, delta) = DateOf(y, v, d, h, mi, s)
      BY <1>1, <1>11, <2>3, MovedIs
    <2>8. Moved(DateOf(y, v, k, h, mi, 0), field, other) = DateOf(y, mo, k, h, mi, 0)
      <3>1. Moved(DateOf(y, v, k, h, mi, 0), "month", other)
              = DateOf(y, StepWrapped(v, other, 1, 12), k, h, mi, 0)
        BY <1>5, <2>6, MovedIs
      <3> QED
        BY <1>11, <2>4, <3>1
    <2>9. /\ StepDateField(over, field, other) = DateOf(y, mo, k, h, mi, 0)
          /\ over.day = k
      <3>1. DaysInMonth(y, mo) \in Nat /\ k <= DaysInMonth(y, mo) /\ k \in Nat
        BY <1>1, <1>2, <2>5
      <3> QED
        BY <2>5, <2>7, <2>8, <3>1, ThereAndBack
    <2>10. z = k
      BY <1>4, <1>7, <1>11, <2>9
    <2> QED
      BY <2>9, <2>10
  <1>12. CASE field = "day"
    <2>1. PICK l \in Nat : l = DaysInMonth(y, mo) /\ 1 <= l
      BY <1>1, <1>2, MonthLengths
    <2>2. 1 \in Nat /\ l \in Nat /\ 1 <= l /\ 1 <= d /\ d <= l
      BY <1>1, <1>2, <2>1
    <2>3. PICK v \in Nat : v = StepWrapped(d, delta, 1, l) /\ 1 <= v /\ v <= l
      BY <1>5, <2>2, Wrapped, ZenonT(30)
    <2>4. StepWrapped(v, other, 1, l) = d
      BY <1>2, <1>3, <1>5, <2>2, <2>3, WrappedBack
    <2>5. v = Least(v, DaysInMonth(y, mo)) /\ v <= DaysInMonth(y, mo)
      BY <2>1, <2>3 DEF Least
    <2>6. Loose(y, mo, v, h, mi, 0)
      BY <1>2, <1>6, <2>3 DEF Loose
    <2>7. Moved(dt, field, delta) = DateOf(y, mo, v, h, mi, s)
      BY <1>1, <1>12, <2>3, MovedIs, <2>1
    <2>8. Moved(DateOf(y, mo, v, h, mi, 0), field, other) = DateOf(y, mo, d, h, mi, 0)
      <3>1. Moved(DateOf(y, mo, v, h, mi, 0), "day", other)
              = DateOf(y, mo, StepWrapped(v, other, 1, DaysInMonth(y, mo)), h, mi, 0)
        BY <1>5, <2>6, MovedIs
      <3> QED
        BY <1>12, <2>4, <3>1, <2>1
    <2>9. /\ StepDateField(over, field, other) = DateOf(y, mo, d, h, mi, 0)
          /\ over.day = v
      <3>1. DaysInMonth(y, mo) \in Nat /\ d <= DaysInMonth(y, mo) /\ d \in Nat
        BY <1>1, <1>2, <2>5
      <3> QED
        BY <2>5, <2>7, <2>8, <3>1, ThereAndBack
    <2>10. z = d
      BY <1>4, <1>7, <1>12, <2>9
    <2> QED
      BY <2>9, <2>10
  <1>13. CASE field = "hour"
    <2>1. PICK top \in Nat : top = Hours - 1
      BY DateConstants
    <2>2. 0 \in Nat /\ top \in Nat /\ 0 <= top /\ 0 <= h /\ h <= top
      BY <1>3, <2>1, DateConstants
    <2>3. PICK v \in Nat : v = StepWrapped(h, delta, 0, top) /\ 0 <= v /\ v <= top
      BY <1>5, <2>2, Wrapped, ZenonT(30)
    <2>4. StepWrapped(v, other, 0, top) = h
      BY <1>2, <1>3, <1>5, <2>2, <2>3, WrappedBack
    <2>5. d = Least(d, DaysInMonth(y, mo)) /\ d <= DaysInMonth(y, mo)
      BY <1>1 DEF Least
    <2>6. Loose(y, mo, d, v, mi, 0)
      <3>1. OnClock(v, mi, 0)
        BY <1>3, <2>1, <2>3, DateConstants DEF OnClock
      <3> QED
        BY <1>2, <3>1 DEF Loose
    <2>7. Moved(dt, field, delta) = DateOf(y, mo, d, v, mi, s)
      BY <1>1, <1>13, <2>3, MovedIs, <2>1
    <2>8. Moved(DateOf(y, mo, d, v, mi, 0), field, other) = DateOf(y, mo, d, h, mi, 0)
      <3>1. Moved(DateOf(y, mo, d, v, mi, 0), "hour", other)
              = DateOf(y, mo, d, StepWrapped(v, other, 0, Hours - 1), mi, 0)
        BY <1>5, <2>6, MovedIs
      <3> QED
        BY <1>13, <2>4, <3>1, <2>1
    <2>9. /\ StepDateField(over, field, other) = DateOf(y, mo, d, h, mi, 0)
          /\ over.day = d
      <3>1. DaysInMonth(y, mo) \in Nat /\ d <= DaysInMonth(y, mo) /\ d \in Nat
        BY <1>1, <1>2, <2>5
      <3> QED
        BY <2>5, <2>7, <2>8, <3>1, ThereAndBack
    <2>10. z = d
      BY <1>4, <1>7, <1>13, <2>9
    <2> QED
      BY <2>9, <2>10
  <1>14. CASE field = "minute"
    <2>1. PICK top \in Nat : top = Minutes - 1
      BY DateConstants
    <2>2. 0 \in Nat /\ top \in Nat /\ 0 <= top /\ 0 <= mi /\ mi <= top
      BY <1>3, <2>1, DateConstants
    <2>3. PICK v \in Nat : v = StepWrapped(mi, delta, 0, top) /\ 0 <= v /\ v <= top
      BY <1>5, <2>2, Wrapped, ZenonT(30)
    <2>4. StepWrapped(v, other, 0, top) = mi
      BY <1>2, <1>3, <1>5, <2>2, <2>3, WrappedBack
    <2>5. d = Least(d, DaysInMonth(y, mo)) /\ d <= DaysInMonth(y, mo)
      BY <1>1 DEF Least
    <2>6. Loose(y, mo, d, h, v, 0)
      <3>1. OnClock(h, v, 0)
        BY <1>3, <2>1, <2>3, DateConstants DEF OnClock
      <3> QED
        BY <1>2, <3>1 DEF Loose
    <2>7. Moved(dt, field, delta) = DateOf(y, mo, d, h, v, s)
      BY <1>1, <1>14, <2>3, MovedIs, <2>1
    <2>8. Moved(DateOf(y, mo, d, h, v, 0), field, other) = DateOf(y, mo, d, h, mi, 0)
      <3>1. Moved(DateOf(y, mo, d, h, v, 0), "minute", other)
              = DateOf(y, mo, d, h, StepWrapped(v, other, 0, Minutes - 1), 0)
        BY <1>5, <2>6, MovedIs
      <3> QED
        BY <1>14, <2>4, <3>1, <2>1
    <2>9. /\ StepDateField(over, field, other) = DateOf(y, mo, d, h, mi, 0)
          /\ over.day = d
      <3>1. DaysInMonth(y, mo) \in Nat /\ d <= DaysInMonth(y, mo) /\ d \in Nat
        BY <1>1, <1>2, <2>5
      <3> QED
        BY <2>5, <2>7, <2>8, <3>1, ThereAndBack
    <2>10. z = d
      BY <1>4, <1>7, <1>14, <2>9
    <2> QED
      BY <2>9, <2>10
  <1> QED
    BY <1>10, <1>11, <1>12, <1>13, <1>14 DEF Fields

(* The day after. *)

LEMMA MonthOn ==
  ASSUME NEW y \in Nat, y >= 1970, NEW m \in Nat, 1 <= m, m < 12
  PROVE  DaysFromCivil(y, m + 1, 1) = DaysFromCivil(y, m, DaysInMonth(y, m)) + 1
  <1>1. CASE m = 2
    <2>1. PICK era \in Nat, yoe \in Nat : y - 1 = 400 * era + yoe /\ yoe <= 399
      <3>1. PICK w \in Nat : w = y - 1
        OBVIOUS
      <3>2. w \div 400 \in Nat /\ w % 400 \in Nat /\ w % 400 <= 399
            /\ w = 400 * (w \div 400) + (w % 400)
        BY <3>1
      <3> QED
        BY <3>1, <3>2
    <2>2. PICK l \in Nat : l = DaysInMonth(y, 2) /\ l = IF IsLeapYear(y) THEN 29 ELSE 28
      BY MonthLengths
    <2>3. IsLeapYear(y) <=> (yoe + 1) % 4 = 0 /\ ((yoe + 1) % 100 # 0 \/ yoe = 399)
      <3>1. y = 400 * era + yoe + 1
        BY <2>1
      <3> QED
        BY <2>1, <3>1, LeapOfEra
    <2>4. DaysFromCivil(y, 2, l)
            = 146097 * era + YearStart(yoe) + MonthStart(11) + l - 1 - 719468
      <3>1. y = 400 * era + yoe + (IF 11 >= 10 THEN 1 ELSE 0) /\ 2 = IF 11 >= 10 THEN 11 - 9 ELSE 11 + 3
        BY <2>1
      <3> QED
        BY <2>1, <2>2, <3>1, CivilParts
    <2>5. CASE yoe < 399
      <3>1. y = 400 * era + (yoe + 1) + (IF 0 >= 10 THEN 1 ELSE 0) /\ 3 = IF 0 >= 10 THEN 0 - 9 ELSE 0 + 3
        BY <2>1
      <3>2. DaysFromCivil(y, 3, 1)
              = 146097 * era + YearStart(yoe + 1) + MonthStart(0) + 1 - 1 - 719468
        BY <2>1, <2>5, <3>1, CivilParts
      <3> QED
        BY <1>1, <2>1, <2>2, <2>3, <2>4, <2>5, <3>2 DEF YearStart, MonthStart
    <2>6. CASE yoe = 399
      <3>1. PICK era1 \in Nat : era1 = era + 1
        OBVIOUS
      <3>2. y = 400 * era1 + 0 + (IF 0 >= 10 THEN 1 ELSE 0) /\ 3 = IF 0 >= 10 THEN 0 - 9 ELSE 0 + 3
        BY <2>1, <2>6, <3>1
      <3>3. DaysFromCivil(y, 3, 1)
              = 146097 * era1 + YearStart(0) + MonthStart(0) + 1 - 1 - 719468
        BY <3>2, CivilParts
      <3>4. YearStart(0) = 0 /\ MonthStart(0) = 0 /\ YearStart(399) = 145731 /\ MonthStart(11) = 337
        BY DEF YearStart, MonthStart
      <3>5. l = 29
        BY <2>2, <2>3, <2>6
      <3> QED
        BY <1>1, <2>2, <2>4, <2>6, <3>1, <3>3, <3>4, <3>5
    <2> QED
      BY <2>1, <2>5, <2>6
  <1>2. CASE m # 2
    <2>1. PICK l \in Nat : /\ l = DaysInMonth(y, m)
                           /\ m = 4 \/ m = 6 \/ m = 9 \/ m = 11 => l = 30
                           /\ m # 4 /\ m # 6 /\ m # 9 /\ m # 11 => l = 31
      BY <1>2, MonthLengths
    <2>2. PICK w \in Nat, mp \in Nat :
            /\ w = IF m <= 2 THEN y - 1 ELSE y
            /\ mp = IF m <= 2 THEN m + 9 ELSE m - 3
            /\ w = IF m + 1 <= 2 THEN y - 1 ELSE y
            /\ mp + 1 = IF m + 1 <= 2 THEN m + 1 + 9 ELSE m + 1 - 3
      BY <1>2
    <2>3. PICK base \in Int : base = 146097 * (w \div 400) + YearStart(w % 400)
      BY DEF YearStart
    <2>4. DaysFromCivil(y, m, l) = base + MonthStart(mp) + l - 1 - 719468
      BY <2>2, <2>3 DEF DaysFromCivil
    <2>5. DaysFromCivil(y, m + 1, 1) = base + MonthStart(mp + 1) + 1 - 1 - 719468
      BY <2>2, <2>3 DEF DaysFromCivil
    <2>6. MonthStart(mp + 1) = MonthStart(mp) + l /\ MonthStart(mp) \in Int
      BY <1>2, <2>1, <2>2 DEF MonthStart
    <2> QED
      BY <2>1, <2>3, <2>4, <2>5, <2>6
  <1> QED
    BY <1>1, <1>2

LEMMA YearOn ==
  ASSUME NEW y \in Nat, y >= 1970
  PROVE  DaysFromCivil(y + 1, 1, 1) = DaysFromCivil(y, 12, 31) + 1
  <1>1. PICK base \in Int : base = 146097 * (y \div 400) + YearStart(y % 400)
    BY DEF YearStart
  <1>2. DaysFromCivil(y, 12, 31) = base + MonthStart(9) + 31 - 1 - 719468
    BY <1>1 DEF DaysFromCivil
  <1>3. DaysFromCivil(y + 1, 1, 1) = base + MonthStart(10) + 1 - 1 - 719468
    BY <1>1 DEF DaysFromCivil
  <1>4. MonthStart(9) = 275 /\ MonthStart(10) = 306
    BY DEF MonthStart
  <1> QED
    BY <1>1, <1>2, <1>3, <1>4

LEMMA DayOn ==
  ASSUME NEW y \in Nat, y >= 1970, NEW m \in Nat, 1 <= m, m <= 12, NEW d \in Nat
  PROVE  /\ DaysFromCivil(y, m, d) \in Int
         /\ DaysFromCivil(y, m, d + 1) = DaysFromCivil(y, m, d) + 1
  <1>1. PICK w \in Nat, mp \in Nat : /\ w = IF m <= 2 THEN y - 1 ELSE y
                                    /\ mp = IF m <= 2 THEN m + 9 ELSE m - 3
    <2>1. CASE m <= 2
      BY <2>1
    <2>2. CASE m > 2
      BY <2>2
    <2> QED
      BY <2>1, <2>2
  <1>2. PICK base \in Int : base = 146097 * (w \div 400) + YearStart(w % 400) + MonthStart(mp)
    BY <1>1 DEF YearStart, MonthStart
  <1>3. DaysFromCivil(y, m, d) = base + d - 1 - 719468
    BY <1>1, <1>2 DEF DaysFromCivil
  <1>4. DaysFromCivil(y, m, d + 1) = base + (d + 1) - 1 - 719468
    BY <1>1, <1>2 DEF DaysFromCivil
  <1> QED
    BY <1>2, <1>3, <1>4

(* A day of seconds on is the next date: the era arithmetic agrees with    *)
(* the table of the months, in every year from 1970 on (clock.cpp:6-32,    *)
(* clock.cpp:111-121).                                                     *)
THEOREM NextDayIs ==
  ASSUME NEW dt, RealDate(dt)
  PROVE  RealDate(NextDay(dt)) /\ Make(NextDay(dt)) = Make(dt) + DaySeconds
  <1>1. PICK y, mo, d, h, mi, s :
          /\ dt = DateOf(y, mo, d, h, mi, s) /\ Loose(y, mo, d, h, mi, s)
          /\ d <= DaysInMonth(y, mo) /\ DaysInMonth(y, mo) \in Nat
    BY RealParts
  <1>2. /\ y \in Nat /\ y >= 1970 /\ mo \in Nat /\ 1 <= mo /\ mo <= 12
        /\ d \in Nat /\ 1 <= d /\ OnClock(h, mi, s)
    BY <1>1 DEF Loose
  <1>3. h \in Nat /\ mi \in Nat /\ s \in Nat
    BY <1>2 DEF OnClock
  <1>4. /\ dt = [year |-> y, month |-> mo, day |-> d, hour |-> h, minute |-> mi, second |-> s]
        /\ dt.year = y /\ dt.month = mo /\ dt.day = d
        /\ dt.hour = h /\ dt.minute = mi /\ dt.second = s
    BY <1>1 DEF DateOf
  <1>5. \E y2, m2, d2 : /\ NextDay(dt) = DateOf(y2, m2, d2, h, mi, s)
                        /\ InCalendar(y2, m2, d2)
                        /\ DaysFromCivil(y2, m2, d2) = DaysFromCivil(y, mo, d) + 1
    <2>1. CASE d < DaysInMonth(y, mo)
      <3>1. NextDay(dt) = DateOf(y, mo, d + 1, h, mi, s)
        BY <1>4, <2>1 DEF NextDay, DateOf
      <3>2. InCalendar(y, mo, d + 1)
        BY <1>1, <1>2, <2>1 DEF InCalendar
      <3>3. DaysFromCivil(y, mo, d + 1) = DaysFromCivil(y, mo, d) + 1
        BY <1>2, DayOn
      <3> QED
        BY <3>1, <3>2, <3>3
    <2>2. CASE d = DaysInMonth(y, mo) /\ mo < 12
      <3>1. NextDay(dt) = DateOf(y, mo + 1, 1, h, mi, s)
        <4>1. NextDay(dt) = [dt EXCEPT !.day = 1, !.month = @ + 1]
          BY <1>1, <1>2, <1>4, <2>2 DEF NextDay
        <4>2. PICK at : at = [dt EXCEPT !.day = 1]
          OBVIOUS
        <4>3. at = [year |-> y, month |-> mo, day |-> 1, hour |-> h, minute |-> mi, second |-> s]
          BY <1>4, <4>2
        <4>4. [dt EXCEPT !.day = 1, !.month = @ + 1] = [at EXCEPT !.month = mo + 1]
          BY <1>4, <4>2
        <4> QED
          BY <4>1, <4>3, <4>4 DEF DateOf
      <3>2. InCalendar(y, mo + 1, 1)
        <4>1. PICK l \in Nat : l = DaysInMonth(y, mo + 1) /\ 28 <= l
          BY <1>2, <2>2, MonthLengths
        <4> QED
          BY <1>2, <2>2, <4>1 DEF InCalendar
      <3>3. DaysFromCivil(y, mo + 1, 1) = DaysFromCivil(y, mo, d) + 1
        BY <1>2, <2>2, MonthOn
      <3> QED
        BY <3>1, <3>2, <3>3
    <2>3. CASE d = DaysInMonth(y, mo) /\ mo = 12
      <3>1. NextDay(dt) = DateOf(y + 1, 1, 1, h, mi, s)
        <4>1. NextDay(dt) = [dt EXCEPT !.day = 1, !.month = 1, !.year = @ + 1]
          BY <1>1, <1>2, <1>4, <2>3 DEF NextDay
        <4>2. PICK at : at = [dt EXCEPT !.day = 1]
          OBVIOUS
        <4>3. at = [year |-> y, month |-> mo, day |-> 1, hour |-> h, minute |-> mi, second |-> s]
          BY <1>4, <4>2
        <4>4. PICK at2 : at2 = [at EXCEPT !.month = 1]
          OBVIOUS
        <4>5. at2 = [year |-> y, month |-> 1, day |-> 1, hour |-> h, minute |-> mi, second |-> s]
          BY <4>3, <4>4
        <4>6. [dt EXCEPT !.day = 1, !.month = 1, !.year = @ + 1] = [at2 EXCEPT !.year = y + 1]
          BY <1>4, <4>2, <4>4
        <4> QED
          BY <4>1, <4>5, <4>6 DEF DateOf
      <3>2. InCalendar(y + 1, 1, 1)
        <4>1. PICK l \in Nat : l = DaysInMonth(y + 1, 1) /\ 28 <= l
          BY <1>2, MonthLengths
        <4> QED
          BY <1>2, <4>1 DEF InCalendar
      <3>3. d = 31
        BY <2>3, MonthLengths, <1>2
      <3>4. DaysFromCivil(y + 1, 1, 1) = DaysFromCivil(y, mo, d) + 1
        BY <1>2, <2>3, <3>3, YearOn
      <3> QED
        BY <3>1, <3>2, <3>4
    <2> QED
      BY <1>1, <1>2, <2>1, <2>2, <2>3
  <1>6. PICK y2, m2, d2 : /\ NextDay(dt) = DateOf(y2, m2, d2, h, mi, s)
                          /\ InCalendar(y2, m2, d2)
                          /\ DaysFromCivil(y2, m2, d2) = DaysFromCivil(y, mo, d) + 1
    BY <1>5
  <1>7. PICK nx : nx = DateOf(y2, m2, d2, h, mi, s)
    OBVIOUS
  <1>8. /\ nx.year = y2 /\ nx.month = m2 /\ nx.day = d2
        /\ nx.hour = h /\ nx.minute = mi /\ nx.second = s
    BY <1>7 DEF DateOf
  <1>9. RealDate(nx)
    BY <1>2, <1>6, <1>7, <1>8, RealIs, ZenonT(30)
  <1>10. InCalendar(y, mo, d)
    BY <1>1, <1>2 DEF InCalendar
  <1>11. PICK days \in Nat : days = DaysFromCivil(y, mo, d)
    BY <1>10, DayOfCivil
  <1>12. Make(dt) = days * DaySeconds + h * HourSeconds + mi * Seconds + s
    BY <1>4, <1>11 DEF Make
  <1>13. Make(nx) = (days + 1) * DaySeconds + h * HourSeconds + mi * Seconds + s
    BY <1>6, <1>8, <1>11 DEF Make
  <1>14. Make(nx) = Make(dt) + DaySeconds
    <2>1. PICK a \in Nat, b \in Nat, c \in Nat, k \in Nat :
            a = days * DaySeconds /\ b = h * HourSeconds /\ c = mi * Seconds /\ k = DaySeconds
      <3>1. days * DaySeconds \in Nat /\ h * HourSeconds \in Nat /\ mi * Seconds \in Nat
        BY <1>3, Units, DateConstants
      <3> QED
        BY <3>1, Units
    <2>2. (days + 1) * DaySeconds = a + k
      BY <2>1
    <2>3. Make(dt) = a + b + c + s
      BY <1>12, <2>1
    <2>4. Make(nx) = a + k + b + c + s
      BY <1>13, <2>1, <2>2
    <2> QED
      BY <1>3, <2>1, <2>3, <2>4
  <1> QED
    BY <1>6, <1>7, <1>9, <1>14

-----------------------------------------------------------------------------
(* The clock. *)

(***************************************************************************)
(* What is left in the counter, Since(lastMs), is the part of a second the *)
(* clock does not show yet: with it the clock is exact.  Both properties   *)
(* are about whole seconds and hold because these sums do.                 *)
(***************************************************************************)
OnlyRunning ==
  /\ phase # "on" => ~set /\ quiet = 0 /\ gate = 0
  /\ edit # NoEdit => phase = "on" /\ Make(edit) > 0
  /\ set => epoch > 0

Remainder == set => Since(lastMs) < Second + quiet

Exact ==
  set /\ ~approximate =>
    now - entered.at = Second * (epoch - entered.epoch) + Since(lastMs)

SavedLately ==
  set /\ open =>
    /\ 0 < nvs /\ nvs <= epoch
    /\ Since(lastSaveMs) < SaveEvery + gate * TickGap + quiet
    /\ Second * (epoch - nvs) + Since(lastMs) < Since(lastSaveMs) + Second

IInv == ClockTypeOK /\ OnlyRunning /\ Remainder /\ Exact /\ SavedLately

-----------------------------------------------------------------------------
(* Counting modulo Wrap, without a remainder. *)

Plus(a, k) == (a + k) % Wrap
From(b, a) == (a - b) % Wrap

LEMMA ConstantTypes ==
  /\ Wrap \in Nat \ {0} /\ Second \in Nat \ {0} /\ TickGap \in Nat \ {0}
  /\ SaveGates \in Nat \ {0} /\ SaveEvery \in Nat \ {0}
  /\ Second + TickGap <= Wrap
  /\ SaveEvery + SaveGates * TickGap <= Wrap
  /\ Epochs \subseteq Nat \ {0} /\ Arrows \subseteq Fields \X {-1, 1}
BY ClockAssumption DEF ClockAssumption

LEMMA Around ==
  ASSUME NEW c \in Int, -Wrap < c, c < 2 * Wrap
  PROVE  c % Wrap = IF c < 0 THEN c + Wrap ELSE IF c < Wrap THEN c ELSE c - Wrap
<1>1. Wrap \in Nat \ {0}
  BY ConstantTypes
<1>2. CASE c < 0
  BY <1>1, <1>2
<1>3. CASE 0 <= c /\ c < Wrap
  BY <1>1, <1>3
<1>4. CASE Wrap <= c
  BY <1>1, <1>4
<1> QED BY <1>1, <1>2, <1>3, <1>4

LEMMA FromIs ==
  ASSUME NEW a \in Millis, NEW b \in Millis
  PROVE  /\ From(b, a) = IF b <= a THEN a - b ELSE a - b + Wrap
         /\ From(b, a) \in Millis
<1>1. Wrap \in Nat \ {0} BY ConstantTypes
<1> QED BY <1>1, Around DEF Millis, From

LEMMA PlusIs ==
  ASSUME NEW a \in Millis, NEW k \in Millis \cup {1}
  PROVE  /\ Plus(a, k) = IF a + k < Wrap THEN a + k ELSE a + k - Wrap
         /\ Plus(a, k) \in Millis
<1>1. Wrap \in Nat \ {0} BY ConstantTypes
<1> QED BY <1>1, Around DEF Millis, Plus

(* A millisecond more on the counter is a millisecond more since. *)
LEMMA OneMore ==
  ASSUME NEW a \in Millis, NEW b \in Millis, From(b, a) + 1 < Wrap
  PROVE  From(b, Plus(a, 1)) = From(b, a) + 1
<1>1. Wrap \in Nat \ {0} BY ConstantTypes
<1>2. Plus(a, 1) = (IF a + 1 < Wrap THEN a + 1 ELSE a + 1 - Wrap) /\ Plus(a, 1) \in Millis
  BY PlusIs
<1>3. From(b, Plus(a, 1)) = IF b <= Plus(a, 1) THEN Plus(a, 1) - b ELSE Plus(a, 1) - b + Wrap
  BY <1>2, FromIs
<1>4. From(b, a) = IF b <= a THEN a - b ELSE a - b + Wrap
  BY FromIs
<1> QED BY <1>1, <1>2, <1>3, <1>4 DEF Millis

(* Moving the mark up takes that much off what has gone by since. *)
LEMMA MarkMoved ==
  ASSUME NEW a \in Millis, NEW b \in Millis, NEW k \in Nat, k <= From(b, a)
  PROVE  From(Plus(b, k), a) = From(b, a) - k
<1>1. Wrap \in Nat \ {0} BY ConstantTypes
<1>2. /\ From(b, a) = IF b <= a THEN a - b ELSE a - b + Wrap
      /\ From(b, a) \in Millis
  BY FromIs
<1>3. k \in Millis
  BY <1>1, <1>2 DEF Millis
<1>4. Plus(b, k) = (IF b + k < Wrap THEN b + k ELSE b + k - Wrap) /\ Plus(b, k) \in Millis
  BY <1>3, PlusIs
<1>5. From(Plus(b, k), a) = IF Plus(b, k) <= a THEN a - Plus(b, k) ELSE a - Plus(b, k) + Wrap
  BY <1>4, FromIs
<1> QED BY <1>1, <1>2, <1>3, <1>4, <1>5 DEF Millis

LEMMA WholeSeconds ==
  ASSUME NEW e \in Nat
  PROVE  /\ e \div Second \in Nat
         /\ (e \div Second) * Second <= e
         /\ e < (e \div Second) * Second + Second
<1>1. Second \in Nat \ {0} BY ConstantTypes
<1> QED BY <1>1

(* A pass of the loop before the one that looks at the saved clock. *)
LEMMA GatesFit ==
  ASSUME NEW g \in 0 .. SaveGates - 1
  PROVE  g * TickGap + TickGap <= SaveGates * TickGap
<1>1. TickGap \in Nat /\ SaveGates \in Nat
  BY ConstantTypes
<1>2. g + 1 <= SaveGates
  BY <1>1
<1>3. (g + 1) * TickGap <= SaveGates * TickGap
  BY <1>1, <1>2
<1> QED BY <1>1, <1>3

-----------------------------------------------------------------------------
(* Typed values, the marks counted from and what is left, by name. *)
LEMMA Types ==
  ASSUME IInv
  PROVE  /\ ms \in Millis /\ lastMs \in Millis /\ lastSaveMs \in Millis
         /\ epoch \in Nat /\ nvs \in Nat /\ now \in Nat
         /\ quiet \in 0 .. TickGap /\ gate \in 0 .. SaveGates - 1
         /\ set \in BOOLEAN /\ approximate \in BOOLEAN /\ open \in BOOLEAN
         /\ entered.epoch \in Nat /\ entered.at \in Nat
         /\ Since(lastMs) = From(lastMs, ms) /\ Since(lastSaveMs) = From(lastSaveMs, ms)
         /\ Since(lastMs) \in Nat /\ Since(lastSaveMs) \in Nat
<1>1. ms \in Millis /\ lastMs \in Millis /\ lastSaveMs \in Millis
  BY DEF IInv, ClockTypeOK
<1>2. From(lastMs, ms) \in Nat /\ From(lastSaveMs, ms) \in Nat
  BY <1>1, FromIs DEF Millis
<1> QED BY <1>1, <1>2 DEF IInv, ClockTypeOK, Since, From

LEMMA Starts == Init => IInv
<1> SUFFICES ASSUME Init PROVE IInv
  OBVIOUS
<1>1. 0 \in Millis /\ 0 \in 0 .. SaveGates - 1 /\ 0 \in 0 .. TickGap
  BY ConstantTypes DEF Millis
<1> QED BY <1>1 DEF Init, IInv, ClockTypeOK, OnlyRunning, Remainder, Exact, SavedLately

(* Nothing in RAM changes and the counter does not move. *)
LEMMA StillSteps ==
  ASSUME IInv,
         UNCHANGED <<ms, counted, saving, now, quiet, entered>>,
         ClockTypeOK', OnlyRunning'
  PROVE  IInv'
<1>1. Since(lastMs)' = Since(lastMs) /\ Since(lastSaveMs)' = Since(lastSaveMs)
  BY DEF Since, counted, saving
<1> QED BY <1>1 DEF IInv, Remainder, Exact, SavedLately, counted, saving

LEMMA TimePassesKeeps ==
  ASSUME IInv, TimePasses
  PROVE  IInv'
<1> USE DEF counted, saving
<1>1. ms \in Millis /\ Plus(ms, 1) \in Millis
  BY PlusIs DEF IInv, ClockTypeOK
<1>2. ClockTypeOK'
  BY <1>1, ConstantTypes DEF IInv, ClockTypeOK, TimePasses, Plus
<1>3. OnlyRunning'
  BY DEF IInv, OnlyRunning, TimePasses
<1>4. CASE ~set
  BY <1>2, <1>3, <1>4 DEF IInv, TimePasses, Remainder, Exact, SavedLately
<1>5. CASE set
  <2>1. phase = "on" /\ quiet < TickGap /\ quiet' = quiet + 1 /\ ms' = Plus(ms, 1)
    BY <1>5 DEF IInv, OnlyRunning, TimePasses, Plus
  <2>2. Since(lastMs)' = Since(lastMs) + 1
    <3>1. From(lastMs, ms) + 1 < Wrap
      BY <1>5, <2>1, Types, ConstantTypes DEF IInv, Remainder
    <3> QED BY <3>1, <2>1, OneMore, Types DEF Since, From, TimePasses
  <2>3. open => Since(lastSaveMs)' = Since(lastSaveMs) + 1
    <3> SUFFICES ASSUME open PROVE Since(lastSaveMs)' = Since(lastSaveMs) + 1
      OBVIOUS
    <3>1. gate * TickGap + TickGap <= SaveGates * TickGap
      BY GatesFit, Types
    <3>2. gate * TickGap \in Int /\ SaveGates * TickGap \in Int
      BY Types, ConstantTypes
    <3>3. From(lastSaveMs, ms) + 1 < Wrap
      BY <1>5, <2>1, <3>1, <3>2, Types, ConstantTypes DEF IInv, SavedLately
    <3> QED BY <3>3, <2>1, OneMore, Types DEF Since, From, TimePasses
  <2>4. Remainder'
    BY <1>5, <2>1, <2>2, Types, ConstantTypes DEF IInv, Remainder, TimePasses
  <2>5. Exact'
    <3>1. Second * (epoch - entered.epoch) \in Int
      BY Types, ConstantTypes
    <3> QED BY <1>5, <2>2, <3>1, Types DEF IInv, Exact, TimePasses
  <2>6. SavedLately'
    <3>1. Second * (epoch - nvs) \in Int /\ gate * TickGap \in Int
      BY Types, ConstantTypes
    <3> QED BY <1>5, <2>1, <2>2, <2>3, <3>1, Types, ConstantTypes DEF IInv, SavedLately, TimePasses
  <2> QED BY <1>2, <1>3, <2>4, <2>5, <2>6 DEF IInv
<1> QED BY <1>4, <1>5

(* A clock that has just been set: nothing is left in the counter. *)
LEMMA JustSet ==
  ASSUME IInv, lastMs' = ms, ms' = ms
  PROVE  Since(lastMs)' = 0
<1>1. Since(lastMs)' = From(ms, ms)
  BY DEF Since, From
<1> QED BY <1>1, FromIs, Types DEF Millis

LEMMA BeginKeeps ==
  ASSUME IInv, Begin
  PROVE  IInv'
<1> USE DEF counted
<1>1. phase = "booting" /\ ~set /\ quiet = 0 /\ gate = 0 /\ edit = NoEdit
  BY DEF IInv, OnlyRunning, Begin
<1>2. CASE open' /\ nvs > 0
  <2>1. /\ epoch' = nvs /\ lastMs' = ms /\ set' = TRUE /\ approximate' = TRUE
        /\ lastSaveMs' = ms /\ phase' = "on" /\ ms' = ms
        /\ UNCHANGED <<gate, nvs, edit, now, quiet, entered>>
    BY <1>2 DEF Begin, SetClock
  <2>2. Since(lastMs)' = 0 /\ Since(lastSaveMs)' = 0
    BY <2>1, JustSet DEF Since
  <2>3. ClockTypeOK'
    BY <2>1 DEF IInv, ClockTypeOK, Begin
  <2>4. OnlyRunning'
    BY <1>1, <1>2, <2>1, Types DEF OnlyRunning
  <2>5. Remainder' /\ Exact'
    BY <1>1, <2>1, <2>2, ConstantTypes DEF Remainder, Exact
  <2>6. SavedLately'
    BY <1>1, <1>2, <2>1, <2>2, Types, ConstantTypes DEF SavedLately
  <2> QED BY <2>3, <2>4, <2>5, <2>6 DEF IInv
<1>3. CASE ~(open' /\ nvs > 0)
  <2>1. /\ UNCHANGED <<ms, epoch, lastMs, set, approximate, lastSaveMs, gate, nvs, edit, now, quiet, entered>>
        /\ phase' = "on" /\ open' \in BOOLEAN
    <3>1. PICK opens \in BOOLEAN :
            /\ open' = opens
            /\ IF opens /\ nvs > 0
                 THEN SetClock(nvs, TRUE) /\ lastSaveMs' = ms
                 ELSE UNCHANGED <<counted, lastSaveMs>>
      BY DEF Begin
    <3>2. UNCHANGED <<counted, lastSaveMs>>
      BY <1>3, <3>1
    <3> QED BY <3>1, <3>2 DEF Begin
  <2>2. ClockTypeOK' /\ OnlyRunning'
    BY <1>1, <2>1 DEF IInv, ClockTypeOK, OnlyRunning
  <2> QED BY <1>1, <2>1, <2>2 DEF IInv, Remainder, Exact, SavedLately
<1> QED BY <1>2, <1>3

LEMMA PowerCutKeeps ==
  ASSUME IInv, PowerCut
  PROVE  IInv'
<1>1. 0 \in Millis /\ 0 \in 0 .. SaveGates - 1 /\ 0 \in 0 .. TickGap
  BY ConstantTypes DEF Millis
<1> QED BY <1>1 DEF IInv, ClockTypeOK, OnlyRunning, Remainder, Exact, SavedLately, PowerCut

(* A tick moves whole seconds from the counter to the clock: the sum of    *)
(* the two stays.                                                          *)
LEMMA TickMoves ==
  ASSUME IInv, Tick, set, UNCHANGED ms
  PROVE  \E secs \in Nat :
           /\ epoch' = epoch + secs
           /\ lastMs' \in Millis
           /\ Since(lastMs)' = Since(lastMs) - secs * Second
           /\ Since(lastMs)' \in Nat
           /\ Since(lastMs)' < Second
<1> DEFINE secs == Since(lastMs) \div Second
           k    == secs * Second
<1>1. /\ secs \in Nat /\ k <= Since(lastMs) /\ Since(lastMs) < k + Second
  BY Types, WholeSeconds
<1>2. k \in Nat
  BY <1>1, ConstantTypes
<1>3. CASE secs > 0
  <2>1. epoch' = epoch + secs /\ lastMs' = Plus(lastMs, k)
    BY <1>3 DEF Tick, Plus
  <2> HIDE DEF k, secs
  <2>2. /\ Since(lastMs)' = From(Plus(lastMs, k), ms)
        /\ From(lastMs, ms) = Since(lastMs)
    BY <2>1 DEF Since, From
  <2>3. From(Plus(lastMs, k), ms) = Since(lastMs) - k
    BY <1>1, <1>2, <2>2, MarkMoved, Types
  <2>4. lastMs' \in Millis
    <3>1. k \in Millis
      BY <1>1, <1>2, <2>2, FromIs, Types, ConstantTypes DEF Millis
    <3> QED BY <2>1, <3>1, PlusIs, Types
  <2>5. Since(lastMs)' = Since(lastMs) - secs * Second
    BY <2>2, <2>3 DEF k
  <2>6. Since(lastMs)' \in Nat /\ Since(lastMs)' < Second
    BY <1>1, <1>2, <2>2, <2>3, Types, ConstantTypes
  <2> QED BY <1>1, <2>1, <2>4, <2>5, <2>6
<1>4. CASE ~(secs > 0)
  <2>1. epoch' = epoch /\ lastMs' = lastMs
    BY <1>4 DEF Tick
  <2>2. secs = 0 /\ k = 0
    <3>1. secs = 0 BY <1>1, <1>4
    <3> QED BY <3>1, ConstantTypes
  <2>3. Since(lastMs)' = Since(lastMs)
    BY <2>1 DEF Since
  <2>4. Since(lastMs) - 0 * Second = Since(lastMs) /\ epoch + 0 = epoch
    BY Types, ConstantTypes
  <2>5. Since(lastMs) < Second
    BY <1>1, <2>2, Types, ConstantTypes
  <2> QED BY <2>1, <2>3, <2>4, <2>5, Types
<1> QED BY <1>3, <1>4

LEMMA LoopPassKeeps ==
  ASSUME IInv, LoopPass
  PROVE  IInv'
<1>1. /\ UNCHANGED <<phase, ms, set, approximate, open, edit, now, entered>>
      /\ quiet' = 0 /\ phase = "on"
      /\ gate' = (gate + 1) % SaveGates
  BY DEF LoopPass
<1>2. /\ gate' \in 0 .. SaveGates - 1
      /\ gate' = IF gate + 1 = SaveGates THEN 0 ELSE gate + 1
  <2>1. CASE gate + 1 = SaveGates
    BY <1>1, <2>1, Types, ConstantTypes
  <2>2. CASE gate + 1 # SaveGates
    BY <1>1, <2>2, Types, ConstantTypes
  <2> QED BY <2>1, <2>2
<1>3. CASE ~set
  <2>1. epoch' = epoch /\ lastMs' = lastMs /\ nvs' = nvs /\ lastSaveMs' = lastSaveMs
    BY <1>3 DEF LoopPass, Tick, SaveDue
  <2>2. ClockTypeOK'
    BY <1>1, <1>2, <2>1, ConstantTypes DEF IInv, ClockTypeOK
  <2> QED BY <1>1, <1>3, <2>1, <2>2 DEF IInv, OnlyRunning, Remainder, Exact, SavedLately
<1>4. CASE set
  <2>1. PICK secs \in Nat :
           /\ epoch' = epoch + secs
           /\ lastMs' \in Millis
           /\ Since(lastMs)' = Since(lastMs) - secs * Second
           /\ Since(lastMs)' \in Nat
           /\ Since(lastMs)' < Second
    BY <1>1, <1>4, TickMoves DEF LoopPass
  <2>2. CASE gate' = 0 /\ SaveDue
    <3>1. lastSaveMs' = ms /\ nvs' = IF open THEN epoch' ELSE nvs
      BY <2>2 DEF LoopPass, SaveClock
    <3>2. Since(lastSaveMs)' = 0
      <4>1. Since(lastSaveMs)' = From(ms, ms)
        BY <1>1, <3>1 DEF Since, From
      <4> QED BY <4>1, FromIs, Types DEF Millis
    <3>3. ClockTypeOK'
      BY <1>1, <1>2, <2>1, <3>1, Types, ConstantTypes DEF IInv, ClockTypeOK
    <3>4. OnlyRunning'
      BY <1>1, <1>4, <2>1, Types DEF IInv, OnlyRunning
    <3>5. Remainder'
      BY <1>1, <2>1, Types, ConstantTypes DEF Remainder
    <3>6. Exact'
      <4>1. Second * (epoch' - entered.epoch) = Second * (epoch - entered.epoch) + secs * Second
        BY <2>1, Types, ConstantTypes
      <4>2. Second * (epoch - entered.epoch) \in Int /\ secs * Second \in Int
        BY Types, ConstantTypes
      <4> QED BY <1>1, <1>4, <2>1, <4>1, <4>2, Types DEF IInv, Exact
    <3>7. SavedLately'
      <4> SUFFICES ASSUME open
                   PROVE  /\ 0 < nvs' /\ nvs' <= epoch'
                          /\ Since(lastSaveMs)' < SaveEvery + gate' * TickGap + quiet'
                          /\ Second * (epoch' - nvs') + Since(lastMs)' < Since(lastSaveMs)' + Second
        BY <1>1 DEF SavedLately
      <4>1. nvs' = epoch' /\ epoch' > 0 /\ epoch' \in Nat
        BY <1>4, <2>1, <3>1, Types DEF IInv, OnlyRunning
      <4>2. epoch' - nvs' = 0
        <5>1. \A e \in Nat : e - e = 0
          OBVIOUS
        <5> QED BY <4>1, <5>1
      <4>3. Second * 0 = 0 /\ 0 * TickGap = 0
        BY ConstantTypes
      <4>4. Second * (epoch' - nvs') = 0 /\ gate' * TickGap = 0
        BY <2>2, <4>2, <4>3
      <4>5. SaveEvery + 0 + 0 > 0
        BY ConstantTypes
      <4>6. Since(lastSaveMs)' < SaveEvery + gate' * TickGap + quiet'
        BY <1>1, <3>2, <4>4, <4>5
      <4>7. Second * (epoch' - nvs') + Since(lastMs)' < Since(lastSaveMs)' + Second
        BY <2>1, <3>2, <4>4, ConstantTypes
      <4> QED BY <4>1, <4>6, <4>7
    <3> QED BY <3>3, <3>4, <3>5, <3>6, <3>7 DEF IInv
  <2>3. CASE ~(gate' = 0 /\ SaveDue)
    <3>1. lastSaveMs' = lastSaveMs /\ nvs' = nvs
      BY <2>3 DEF LoopPass
    <3>2. Since(lastSaveMs)' = Since(lastSaveMs)
      BY <1>1, <3>1 DEF Since
    <3>3. ClockTypeOK'
      BY <1>1, <1>2, <2>1, <3>1, Types, ConstantTypes DEF IInv, ClockTypeOK
    <3>4. OnlyRunning'
      BY <1>1, <1>4, <2>1, Types DEF IInv, OnlyRunning
    <3>5. Remainder'
      BY <1>1, <2>1, Types, ConstantTypes DEF Remainder
    <3>6. Exact'
      <4>1. Second * (epoch' - entered.epoch) = Second * (epoch - entered.epoch) + secs * Second
        BY <2>1, Types, ConstantTypes
      <4>2. Second * (epoch - entered.epoch) \in Int /\ secs * Second \in Int
        BY Types, ConstantTypes
      <4> QED BY <1>1, <1>4, <2>1, <4>1, <4>2, Types DEF IInv, Exact
    <3>7. SavedLately'
      <4> SUFFICES ASSUME open
                   PROVE  /\ 0 < nvs' /\ nvs' <= epoch'
                          /\ Since(lastSaveMs)' < SaveEvery + gate' * TickGap + quiet'
                          /\ Second * (epoch' - nvs') + Since(lastMs)' < Since(lastSaveMs)' + Second
        BY <1>1 DEF SavedLately
      <4>1. /\ 0 < nvs /\ nvs <= epoch
            /\ Since(lastSaveMs) < SaveEvery + gate * TickGap + quiet
            /\ Second * (epoch - nvs) + Since(lastMs) < Since(lastSaveMs) + Second
        BY <1>4 DEF IInv, SavedLately
      <4>2. Since(lastSaveMs) < SaveEvery + gate' * TickGap
        <5>1. CASE gate' = 0
          <6>1. Since(lastSaveMs) < SaveEvery
            BY <1>4, <2>3, <5>1, Types, ConstantTypes DEF SaveDue
          <6> QED BY <5>1, <6>1, Types, ConstantTypes
        <5>2. CASE gate' # 0
          <6>1. gate' = gate + 1
            BY <1>2, <5>2
          <6>2. gate' * TickGap = gate * TickGap + TickGap /\ gate * TickGap \in Int
            BY <6>1, Types, ConstantTypes
          <6> QED BY <4>1, <6>2, Types, ConstantTypes
        <5> QED BY <5>1, <5>2
      <4>3. Second * (epoch' - nvs') = Second * (epoch - nvs) + secs * Second
        BY <2>1, <3>1, Types, ConstantTypes
      <4>4. Second * (epoch - nvs) \in Int /\ secs * Second \in Int /\ gate' * TickGap \in Int
        BY <1>2, Types, ConstantTypes
      <4> QED BY <1>1, <2>1, <3>1, <3>2, <4>1, <4>2, <4>3, <4>4, Types, ConstantTypes
    <3> QED BY <3>3, <3>4, <3>5, <3>6, <3>7 DEF IInv
  <2> QED BY <2>2, <2>3
<1> QED BY <1>3, <1>4

(* 1970 is over by the first year of the setter. *)
LEMMA DefaultReal == RealDate(Default) /\ Make(Default) \in Nat /\ Make(Default) > 0
<1>1. PICK noon \in Nat : noon = Hours \div 2 /\ noon < Hours
  BY DateConstants
<1>2. Loose(kMinYear, 1, 1, noon, 0, 0)
  BY <1>1, DateConstants DEF Loose, OnClock
<1>3. Least(1, DaysInMonth(kMinYear, 1)) = 1
  <2>1. PICK l \in Nat : l = DaysInMonth(kMinYear, 1) /\ 28 <= l
    BY DateConstants, MonthLengths
  <2> QED BY <2>1 DEF Least
<1>4. Default = DateOf(kMinYear, 1, 1, noon, 0, 0)
  BY <1>1 DEF Default, DateOf
<1>5. RealDate(Default)
  BY <1>2, <1>3, <1>4, LooseEnds
<1>6. Make(Default) \in Nat /\ BreakDown(Make(Default)) = Default
  BY <1>5, MakeBack
<1>7. Default.year > 1970
  BY <1>4, DateConstants DEF DateOf
<1>8. BreakDown(0).year = 1970
  <2>1. CivilFromDays(0).year = 1970
    BY DEF CivilFromDays, YearOf, YearStart
  <2>2. 0 \div DaySeconds = 0
    BY Units
  <2> QED BY <2>1, <2>2 DEF BreakDown
<1>9. Make(Default) # 0
  BY <1>6, <1>7, <1>8
<1> QED BY <1>5, <1>6, <1>9

LEMMA SetterKeeps ==
  ASSUME IInv, Setter
  PROVE  IInv'
<1>1. CASE OpenSetter
  <2>1. PICK dt : edit' = dt /\ RealDate(dt) /\ Make(dt) > 0
    <3>1. CASE set
      <4>1. epoch \in Nat /\ epoch > 0 /\ edit' = BreakDown(epoch)
        BY <1>1, <3>1, Types DEF IInv, OnlyRunning, OpenSetter
      <4>2. RealDate(BreakDown(epoch)) /\ Make(BreakDown(epoch)) = epoch
        BY <4>1, BreakDownReal
      <4> QED BY <4>1, <4>2
    <3>2. CASE ~set
      BY <1>1, <3>2, DefaultReal DEF OpenSetter
    <3> QED BY <3>1, <3>2
  <2>2. ClockTypeOK' /\ OnlyRunning'
    BY <1>1, <2>1 DEF IInv, ClockTypeOK, OnlyRunning, OpenSetter, counted, saving
  <2> QED BY <1>1, <2>2, StillSteps DEF OpenSetter
<1>2. CASE StepField
  <2>1. PICK arrow \in Arrows : edit' = StepDateField(edit, arrow[1], arrow[2])
    BY <1>2 DEF StepField
  <2>2. arrow[1] \in Fields /\ arrow[2] \in {-1, 1}
    BY ConstantTypes
  <2>3. RealDate(edit) /\ phase = "on"
    BY <1>2 DEF IInv, ClockTypeOK, OnlyRunning, StepField
  <2>4. RealDate(StepDateField(edit, arrow[1], arrow[2]))
    BY <2>2, <2>3, StepKeepsReal
  <2>5. PICK dt : edit' = dt /\ RealDate(dt) /\ Make(dt) > 0
    <3>1. Make(edit') \in Nat \ {0}
      BY <1>2, ConstantTypes DEF StepField
    <3> QED BY <2>1, <2>4, <3>1
  <2>6. ClockTypeOK' /\ OnlyRunning'
    BY <1>2, <2>3, <2>5 DEF IInv, ClockTypeOK, OnlyRunning, StepField, counted, saving
  <2> QED BY <1>2, <2>6, StillSteps DEF StepField
<1>3. CASE Cancel
  <2>1. ClockTypeOK' /\ OnlyRunning'
    BY <1>3 DEF IInv, ClockTypeOK, OnlyRunning, Cancel, counted, saving
  <2> QED BY <1>3, <2>1, StillSteps DEF Cancel
<1>4. CASE Apply
  <2>1. PICK e : e = Make(edit)
    OBVIOUS
  <2>2. /\ epoch' = e /\ lastMs' = ms /\ set' = TRUE /\ approximate' = FALSE
        /\ lastSaveMs' = ms /\ nvs' = (IF open THEN e ELSE nvs)
        /\ entered' = [epoch |-> e, at |-> now] /\ edit' = NoEdit
        /\ UNCHANGED <<phase, ms, open, gate, now, quiet>>
    BY <1>4, <2>1 DEF Apply, SetClock, SaveClock
  <2>3. e \in Nat /\ e > 0 /\ phase = "on"
    <3>1. RealDate(edit) /\ Make(edit) > 0 /\ phase = "on"
      BY <1>4 DEF IInv, ClockTypeOK, OnlyRunning, Apply
    <3> QED BY <2>1, <3>1, MakeBack
  <2>4. Since(lastMs)' = 0 /\ Since(lastSaveMs)' = 0
    BY <2>2, JustSet DEF Since
  <2>5. ClockTypeOK'
    BY <2>2, <2>3 DEF IInv, ClockTypeOK
  <2>6. OnlyRunning'
    BY <2>2, <2>3 DEF OnlyRunning
  <2>7. Second * (e - e) = 0 /\ gate * TickGap \in Nat
    BY <2>3, Types, ConstantTypes
  <2>8. Remainder' /\ Exact'
    BY <2>2, <2>3, <2>4, <2>7, Types, ConstantTypes DEF Remainder, Exact
  <2>9. SavedLately'
    BY <2>2, <2>3, <2>4, <2>7, Types, ConstantTypes DEF SavedLately
  <2> QED BY <2>5, <2>6, <2>8, <2>9 DEF IInv
<1> QED BY <1>1, <1>2, <1>3, <1>4 DEF Setter

LEMMA PowerOnKeeps ==
  ASSUME IInv, PowerOn
  PROVE  IInv'
<1>1. ClockTypeOK' /\ OnlyRunning'
  BY DEF IInv, ClockTypeOK, OnlyRunning, PowerOn, counted, saving
<1> QED BY <1>1, StillSteps DEF PowerOn

LEMMA StepsKeep == IInv /\ [Next]_clockVars => IInv'
<1> SUFFICES ASSUME IInv, [Next]_clockVars PROVE IInv'
  OBVIOUS
<1>1. CASE Next
  BY <1>1, TimePassesKeeps, PowerOnKeeps, PowerCutKeeps, BeginKeeps, LoopPassKeeps, SetterKeeps
  DEF Next, Power
<1>2. CASE UNCHANGED clockVars
  <2>1. ClockTypeOK' /\ OnlyRunning'
    BY <1>2 DEF IInv, ClockTypeOK, OnlyRunning, clockVars, counted, saving
  <2> QED BY <1>2, <2>1, StillSteps DEF clockVars
<1> QED BY <1>1, <1>2

LEMMA Invariance == Spec => []IInv
BY Starts, StepsKeep, PTL DEF Spec

-----------------------------------------------------------------------------
(* The types of the clock, the settings and the setter: in particular what *)
(* Clock::tick() leaves in its mark fits the counter.                      *)
THEOREM ClockTypeCorrect == Spec => []ClockTypeOK
<1>1. IInv => ClockTypeOK
  BY DEF IInv
<1> QED BY <1>1, Invariance, PTL

(* A clock that is not marked approximate is what a person entered plus    *)
(* the time since, to the second, however often the counter has wrapped    *)
(* and however unevenly the loop ticks it.                                 *)
THEOREM Honest == Spec => []HonestClock
<1>1. IInv => HonestClock
  <2> SUFFICES ASSUME IInv, set, ~approximate
               PROVE  LET late == (now - entered.at) - Second * (epoch - entered.epoch)
                      IN 0 <= late /\ late < Second + quiet
    BY DEF HonestClock
  <2>1. Second * (epoch - entered.epoch) \in Int
    BY Types, ConstantTypes
  <2> QED BY <2>1, Types, ConstantTypes DEF IInv, Exact, Remainder
<1> QED BY <1>1, Invariance, PTL

(* A power cut costs the interval the clock is saved at, give or take the  *)
(* passes it is looked at on and the second it was in.                     *)
THEOREM CutsAreCheap == Spec => []CutCostsAtMost
<1>1. IInv => CutCostsAtMost
  <2> SUFFICES ASSUME IInv, set, open
               PROVE  /\ 0 < nvs /\ nvs <= epoch
                      /\ Second * (epoch - nvs) < SaveEvery + SaveGates * TickGap + Second
    BY DEF CutCostsAtMost
  <2>1. /\ 0 < nvs /\ nvs <= epoch
        /\ Since(lastSaveMs) < SaveEvery + gate * TickGap + quiet
        /\ Second * (epoch - nvs) + Since(lastMs) < Since(lastSaveMs) + Second
    BY DEF IInv, SavedLately
  <2>2. gate * TickGap + TickGap <= SaveGates * TickGap
    BY GatesFit, Types
  <2>3. /\ Second * (epoch - nvs) \in Int
        /\ gate * TickGap \in Int /\ SaveGates * TickGap \in Int
    BY Types, ConstantTypes
  <2> QED BY <2>1, <2>2, <2>3, Types, ConstantTypes
<1> QED BY <1>1, Invariance, PTL

-----------------------------------------------------------------------------
(* The clock and the day log together. *)

(* The day log starts, and steps, as the clock does. *)
LEMMA DayStepsAreClockSteps ==
  /\ DayInit => Init
  /\ [DayNext]_vars => [Next]_clockVars
<1>1. DayInit => Init
  BY DEF DayInit
<1>2. ASSUME [DayNext]_vars PROVE [Next]_clockVars
  <2>1. CASE LogPass
    BY <2>1 DEF LogPass, Next
  <2>2. CASE LosePower
    BY <2>2 DEF LosePower, Next, Power
  <2>3. CASE TimePasses \/ PowerOn \/ Begin \/ Setter
    BY <2>3 DEF Next, Power
  <2>4. CASE UNCHANGED vars
    BY <2>4 DEF vars
  <2> QED BY <1>2, <2>1, <2>2, <2>3, <2>4 DEF DayNext
<1> QED BY <1>1, <1>2

(* Composed with the day log the clock is the clock of WallClock: what is  *)
(* proved of it there holds here.                                          *)
THEOREM DayLogImplementsClock == DaySpec => Spec
BY DayStepsAreClockSteps, PTL DEF DaySpec, Spec

(* The clock a person has set is right in every run of the composition.    *)
THEOREM HonestWithDays == DaySpec => []HonestClock
BY DayLogImplementsClock, Honest, PTL

(* Whatever arrows are pressed, in any year from 1970 on: the setter holds *)
(* a real date, the one its seconds stand for, the clock shows one, and a  *)
(* day of seconds on is the next (clock.cpp:6-32, 71-98, 115-147).         *)
THEOREM DatesStayReal == DaySpec => []DatesAreReal
<1>1. IInv => DatesAreReal
  <2> SUFFICES ASSUME IInv PROVE DatesAreReal
    OBVIOUS
  <2>1. ASSUME edit # NoEdit PROVE RealDate(edit) /\ BreakDown(Make(edit)) = edit
    <3>1. RealDate(edit)
      BY <2>1 DEF IInv, ClockTypeOK
    <3> QED BY <3>1, MakeBack
  <2>2. PICK shown : shown = BreakDown(epoch)
    OBVIOUS
  <2>3. RealDate(shown) /\ Make(shown) = epoch
    BY <2>2, Types, BreakDownReal
  <2>4. RealDate(NextDay(shown)) /\ Make(NextDay(shown)) = epoch + DaySeconds
    BY <2>3, NextDayIs
  <2>5. BreakDown(epoch + DaySeconds) = NextDay(shown)
    BY <2>4, MakeBack
  <2> QED BY <2>1, <2>2, <2>3, <2>5 DEF DatesAreReal
<1> QED BY <1>1, Invariance, DayLogImplementsClock, PTL

(* One pass of the log over a day that is whole, or over none.             *)
LEMMA ServiceKeepsDayWhole ==
  ASSUME DayIsWhole, NEW e, ServiceLog(e)
  PROVE  DayIsWhole'
<1> DEFINE newDay == ~dayStarted \/ dayIndex(e) # logDay
           old    == IF newDay THEN {} ELSE today
           here   == <<dayIndex(e), minuteOfDay(e)>>
           seen   == ~newDay /\ minuteOfDay(e) = lastMinute
<1>1. /\ logDay' = dayIndex(e) /\ lastMinute' = minuteOfDay(e)
      /\ today' = old \cup (IF seen THEN {} ELSE {here})
  BY DEF ServiceLog
<1>2. \A minute \in old : minute[1] = dayIndex(e)
  BY DEF DayIsWhole
<1>3. here \in today'
  <2>1. CASE seen
    <3>1. dayStarted /\ logDay = dayIndex(e) /\ lastMinute = minuteOfDay(e)
      BY <2>1
    <3>2. here \in old
      BY <2>1, <3>1 DEF DayIsWhole
    <3> QED BY <1>1, <3>2
  <2>2. CASE ~seen
    BY <1>1, <2>2
  <2> QED BY <2>1, <2>2
<1>4. here[1] = dayIndex(e)
  OBVIOUS
<1>5. \A minute \in today' : minute[1] = logDay'
  BY <1>1, <1>2, <1>4
<1>6. here = <<logDay', lastMinute'>>
  BY <1>1
<1> QED BY <1>3, <1>5, <1>6 DEF DayIsWhole

(* Today's high and low are of one day, and the minute the log takes for   *)
(* done is in them, however a person moves the clock between passes.       *)
THEOREM DayStaysWhole == DaySpec => []DayIsWhole
<1>1. DayInit => DayIsWhole
  BY DEF DayInit, DayIsWhole
<1>2. DayIsWhole /\ [DayNext]_vars => DayIsWhole'
  <2> SUFFICES ASSUME DayIsWhole, [DayNext]_vars PROVE DayIsWhole'
    OBVIOUS
  <2>1. CASE LogPass
    <3>1. CASE gate' = 0 /\ set
      BY <2>1, <3>1, ServiceKeepsDayWhole DEF LogPass
    <3>2. CASE ~(gate' = 0 /\ set)
      <4>1. UNCHANGED dayVars
        BY <2>1, <3>2 DEF LogPass
      <4> QED BY <4>1 DEF dayVars, DayIsWhole
    <3> QED BY <3>1, <3>2
  <2>2. CASE LosePower
    BY <2>2 DEF LosePower, DayIsWhole
  <2>3. CASE UNCHANGED dayVars
    BY <2>3 DEF dayVars, DayIsWhole
  <2> QED BY <2>1, <2>2, <2>3 DEF DayNext, vars
<1> QED BY <1>1, <1>2, PTL DEF DaySpec

(* The minutes of a day are numbered below its length in minutes. *)
LEMMA MinuteFits ==
  ASSUME NEW e \in Nat
  PROVE  minuteOfDay(e) \in 0 .. Day \div Minute - 1 /\ dayIndex(e) \in Nat
<1>1. Minute \in Nat \ {0} /\ Day \in Nat \ {0} /\ Day % Minute = 0
  <2>1. PICK q \in Nat : q = Hours * Minutes
    BY DateConstants
  <2>2. Day = q * Seconds + 0 /\ Minute = Seconds /\ Day \in Nat /\ Day > 0
    BY <2>1, Units, DateConstants DEF Day, Minute
  <2>3. (q * Seconds + 0) % Seconds = 0
    BY <2>1, DateConstants, Joined
  <2> QED BY <2>2, <2>3, DateConstants
<1> DEFINE r == e % Day
           m == r \div Minute
           n == Day \div Minute
<1>2. r \in Nat /\ r < Day /\ dayIndex(e) \in Nat
  BY <1>1 DEF dayIndex
<1>3. n \in Nat /\ Day = n * Minute
  BY <1>1
<1> HIDE DEF r
<1>4. m \in Nat /\ m * Minute <= r
  BY <1>1, <1>2
<1> HIDE DEF m, n
<1>5. m < n
  <2>1. SUFFICES ASSUME n <= m PROVE FALSE
    BY <1>3, <1>4
  <2>2. n * Minute <= m * Minute
    BY <2>1, <1>1, <1>3, <1>4
  <2>3. n * Minute \in Int /\ m * Minute \in Int
    BY <1>1, <1>3, <1>4
  <2> QED BY <1>1, <1>2, <1>3, <1>4, <2>2, <2>3
<1>6. minuteOfDay(e) = m
  BY DEF minuteOfDay, m, r
<1> QED BY <1>2, <1>3, <1>4, <1>5, <1>6 DEF n

DayTypes ==
  /\ dayStarted \in BOOLEAN /\ logDay \in Nat
  /\ lastMinute \in (0 .. Day \div Minute - 1) \cup {NoMinute}
  /\ today \subseteq Nat \X (0 .. Day \div Minute - 1)

(* Types of the composition: the minutes behind a day's high and low are   *)
(* minutes a day has.                                                      *)
THEOREM DayTypeCorrect == DaySpec => []TypeOK
<1>1. DayInit => DayTypes
  <2> SUFFICES ASSUME DayInit PROVE DayTypes
    OBVIOUS
  <2>1. dayStarted = FALSE /\ logDay = 0 /\ lastMinute = NoMinute /\ today = {}
    BY DEF DayInit
  <2> QED BY <2>1 DEF DayTypes
<1>2. ClockTypeOK' /\ DayTypes /\ [DayNext]_vars => DayTypes'
  <2> SUFFICES ASSUME ClockTypeOK', DayTypes, [DayNext]_vars PROVE DayTypes'
    OBVIOUS
  <2>1. CASE LogPass /\ gate' = 0 /\ set
    <3> DEFINE minute == minuteOfDay(epoch')
               day    == dayIndex(epoch')
    <3>1. minute \in 0 .. Day \div Minute - 1 /\ day \in Nat
      BY MinuteFits DEF ClockTypeOK
    <3>2. /\ dayStarted' = TRUE /\ logDay' = day /\ lastMinute' = minute
          /\ today' \subseteq today \cup {<<day, minute>>}
      BY <2>1 DEF LogPass, ServiceLog
    <3> HIDE DEF minute, day
    <3> QED BY <3>1, <3>2 DEF DayTypes
  <2>2. CASE LosePower
    BY <2>2 DEF LosePower, DayTypes
  <2>3. CASE UNCHANGED dayVars
    BY <2>3 DEF dayVars, DayTypes
  <2> QED BY <2>1, <2>2, <2>3 DEF DayNext, LogPass, vars
<1>3. ClockTypeOK /\ DayTypes => TypeOK
  BY DEF DayTypes, TypeOK
<1> QED BY <1>1, <1>2, <1>3, DayLogImplementsClock, ClockTypeCorrect, PTL DEF DaySpec

=============================================================================
